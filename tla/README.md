# Contract Check AI: a verification development

TLA+ models of the back end of this repository, the TLC configurations that
check them on small instances, and theorems about them whose proofs TLAPS
checks for every value of the constants. Paths without a prefix are below
`backend/app/`.

## The system

A user uploads a contract. The text of a PDF or of photos is *extracted* page by
page and *reviewed*: the user corrects the recognised text of the pages that
need it and *confirms* the whole. The confirmed text becomes a *document* with
*clauses*, for which an *analysis job* is enqueued. *Worker* processes take jobs
from the database, send masked clauses to a provider and store encrypted
*results*, which the client polls for. API and workers share one relational
database and call each other in no other way.

| component | state | operations | what is hard, what makes it correct |
|---|---|---|---|
| job queue, `services/analysis_job_queue.py` | `analysis_jobs`, `analysis_result_items` | claim, heartbeat, recover stale, finish with success or failure | leases, crashes, two workers on one job; one owner, results exactly at completion, every job ends |
| worker, `workers/analysis_worker.py` | what `process_job` remembers, its heartbeat thread | poll, load, delete old results, run, finish | crash at any point, stale claim checks |
| job API, `api/analysis_jobs.py` | the same tables | enqueue once per fingerprint, create from an extraction, poll | concurrent identical requests; one active job per request |
| pipeline, `services/analysis_pipeline.py` | the worker's transaction | mask, call the provider, add result rows | fails half way; all or nothing |
| review, `api/extractions.py` | `extractions`, `extraction_pages` with JSON columns | open, patch a page, confirm | read-modify-write of whole JSON columns by overlapping requests; no lost edit, a final snapshot |
| extraction and OCR, `api/extractions.py`, `services/pdf_extraction.py`, `services/image_ocr.py` | a request's files, then rows | upload, render, recognise, insert | time-outs, failed pages, cleanup on every path; only reviewable rows |
| temporary originals, `services/extraction_temp_files.py`, `services/extraction_orphan_cleanup.py` | request directories with a lease marker | create, refresh, remove, sweep at start-up | crash between steps, a sweep racing a refresh; no live directory removed, no original kept |
| provider execution, `services/provider_execution.py`, `analysis_provider*.py` | an attempt counter | call, classify the error, retry | composition with the queue's retries; answers that must be refused |
| documents and results, `api/documents.py` | `documents`, `clauses` | upload text, read results | two queries while a job runs; all results of a job or none |
| clause splitting, `services/clause_splitter.py` | none | split | headings at the end and the start of pages; order, ordinals, offsets |
| masking, output safety, evidence, `services/pii_masking.py`, `output_safety.py`, `evidence_linking.py` | none | text to text | overlapping values, tokens already in the text, quotes that occur twice |
| encryption, `core/crypto.py`, `services/*encryption*.py` | a key ring | seal, open, rotate | data written under an older key, values moved to another place |
| accounts, `api/auth.py`, `core/auth.py` | `users` | register, log in, check a token | two registrations of one address, rotated secrets |
| rate limiting, `core/rate_limit.py` | buckets of time stamps | check | a clock read before the lock, eviction when the table is full |
| secrets, `core/secret_lifecycle.py`, `commands/`, `scripts/secret_rotation_rehearsal.py` | the environment of the deployment | rotate, set active, retire, restart | steps that take effect at different times |
| front end, scripts, migrations, settings | | | no state machines of their own |

`PROJECT.json` lists every component with its files and whether it is modelled,
and under `hazards` what is hard to test, at its line.

## Plan

The order in which the modules were written, the most important behaviour first:

1. the queue (`JobQueue`), what it promises (`AnalysisService`), the refinement
   between them and the proofs of both;
2. the review (`ExtractionReview`) with proofs for overlapping requests and for
   requests one at a time;
3. storage and intake of originals (`TempStorage`, `ExtractionIntake`) with the
   sweep of another process and crashes, and their proofs;
4. the analysis: splitting, masking, evidence, output checks and provider as
   modules of operators, composed by `AnalysisPipeline`, with proofs about its control,
   about what splitting, masking and the binding of evidence compute for any text,
   and about what follows for the texts of a run;
5. accounts, limiter and keys (`RateLimiter`, `Envelopes`), composed by `Access`
   with processes, clients and an operator, and their proofs.

What could follow: a composition of the pipeline with the claims of `JobQueue`.

Liveness stays with TLC throughout: the prover does not handle fairness.

## The modules

| module | what it is |
|---|---|
| `JobQueue` | queue, workers, heartbeats, concurrent creation, crashes, time |
| `AnalysisService` | what a client of the API may rely on, without workers or leases |
| `JobQueueRefinement` | `JobQueue` with `AnalysisService` under a refinement mapping |
| `MCJobQueue` | instances for TLC |
| `JobQueueProofs` | theorems that need no assumption about heartbeats |
| `JobQueueTimelyProofs` | theorems for heartbeats in time, the refinement among them |
| `ExtractionReview` | review, patch, confirmation and analysis of one extraction |
| `MCExtractionReview` | instances for TLC |
| `ExtractionReviewProofs` | theorems for any overlap of requests, then for none |
| `TempStorage` | directories of originals, markers, and the start-up sweep |
| `ExtractionIntake` | both upload routes over `TempStorage`, up to the inserted extraction |
| `MCExtractionIntake` | instances for TLC |
| `ExtractionIntakeProofs` | theorems about storage and intake |
| `Cells` | texts as sequences of cells, and ranks among numbers |
| `ClauseSplitter` | how a text or confirmed pages become clauses |
| `PiiMasking` | detection, priorities, numbering and masking of personal values |
| `EvidenceLinking` | binding of a finding to the text it quotes |
| `OutputSafety` | which generated summaries may be shown |
| `AnalysisProvider` | what a provider may answer, and the checks of an answer |
| `AnalysisPipeline` | one document: upload or confirmed extraction, jobs, runs, results, a reader |
| `MCAnalysisPipeline` | instances for TLC: documents and answers |
| `Induction` | induction over the naturals, stated for sets, and what follows |
| `TextProofs` | what splitting and masking compute, for any text |
| `AnalysisPipelineProofs` | theorems about jobs, runs, results, calls, texts and evidence of the pipeline |
| `Envelopes` | places of encrypted values, their authenticated data, key rings |
| `RateLimiter` | the sliding window of one process |
| `Access` | accounts, tokens, limiter and keys in processes that are restarted |
| `MCAccess` | instances for TLC |
| `AccessProofs` | theorems about keys, places, accounts and windows |

Definitions named `Slip...` are wrong versions of the definition after them, one
plausible programming error each. No specification uses them; each property was
seen to fail when one of them takes the place of the right definition.

### JobQueue

Every action is one committed transaction or one read of the database, so
everything that can happen between two of them is an interleaving of actions.

| code | model |
|---|---|
| row of `analysis_jobs` (`db/models.py`) | `row[j]`; `lease` and `delayed` stand for `lease_expires_at` and `available_at` against the clock |
| rows of `analysis_result_items` | `results[j]`: the attempt that wrote them, 0 for none |
| `ORDER BY available_at` | `earlier` |
| `_enqueue_analysis_job` | `SelectNoActive`, `InsertJob` or `InsertConflict`, `Reselect` |
| `recover_stale_jobs_result` | `Sweep`, `RecoverRead`, `RecoverWrite` |
| `claim_next_job` | `Claim`, `NothingToClaim` |
| `process_job` up to the analysis | `LoadJob`, `DeleteResults` |
| `run_analysis_pipeline` and `finish_job_success` | `FinishSuccess` (one commit) or `AnalysisFails` |
| `finish_job_failure` | `FailureRead`, then `Requeue` or `Abandon` |
| `renew_job_lease` in `_heartbeat_loop` | `Heartbeat`, `HeartbeatDies` |
| killed and restarted container (`compose.yaml`) | `Crash`, `Restart` |

Modelling decisions:

- The database is MySQL/InnoDB as deployed, where a transaction's writes are
  seen at its commit. With SQLite, the development default, the `DELETE` of
  `process_job` would hold the write lock during the whole analysis.
- `recover_stale_jobs_result` compares the value of `lease_expires_at` it read;
  time stamps do not repeat, so this is the same as "still the expired lease".
- The candidates of one `claim_next_job` call are tried in order and a lost one
  is skipped: the first row claimable at the update is taken.
- `finish_job_success` sets `last_error_code` to the NULL it was loaded with.
  SQLAlchemy leaves unchanged attributes out of the UPDATE, so the column is not
  written; this matters only when another worker has changed it since.
- Documents have at least one clause, so a second publication of results meets
  the unique key on (job, clause).
- Worker ids differ between processes and process starts (host name and UUID), so
  a restarted worker does not own what its predecessor claimed. In the model the
  restarted process has the same name but remembers nothing; a row it owned
  before is recovered by expiry only, as in the code.
- A crash is modelled while a job is held; elsewhere a dying process leaves
  nothing behind. The shutdown signal ends a worker between two jobs.

`Timely` chooses the environment. TRUE: a running heartbeat thread renews before
the lease expires (`WorkerConfig.validate` demands lease > heartbeat; the
defaults are 120 s and 30 s) and does not die. FALSE: a process may stall past
its lease, for instance while its host is suspended, clocks may disagree, and
an exception may end the thread.

### ExtractionReview

One extraction, several users. A request is two steps: it reads the rows (one
consistent read under REPEATABLE READ), checks and computes on that copy, and
commits. An UPDATE writes the columns the handler assigned, JSON columns whole,
and has no version in its WHERE clause. The handlers are synchronous functions,
which FastAPI runs in a thread pool, so requests overlap. What a client was
shown (`seen`) can be arbitrarily old.

| code | model |
|---|---|
| `Extraction.status`, `.extra_data` | `status`, `meta` |
| `ExtractionPage.extra_data` | `page` |
| `get_extraction_review` | `Open` |
| `patch_extraction_page_review` | `PatchRead`, `PatchWrite` |
| `confirm_extraction` | `ConfirmRead`, `ConfirmWrite` |
| `_get_extraction_ready_for_analysis` | `AnalyseRead` |
| `_load_or_create_analysis_document`, enqueueing | `AnalyseWrite` |
| `_build_review_summary`, `_build_can_confirm` | `Summary`, `CanConfirm` |
| `_build_confirmation_snapshot` | `Ready`, `FinalText` |

A refused request changes nothing and is no step. Texts are members of a small
set; limits on their length, encryption and ownership are left out. The checksum
of the snapshot is written together with it and always matches, so it is not a
variable. Clients send the versions they were shown. `submitted` is a history
variable: what users sent for each page.

### TempStorage and ExtractionIntake

`TempStorage` has the operations on one directory and the sweep of
`lifespan`; `ExtractionIntake` the two upload handlers that call them.

| code | model |
|---|---|
| a request directory, its `.lease` marker, the original in it | `dir[r]`: `exists`, `marker`, `original` |
| `create_request_directory` | `Begin` (`MakeDirectory`), `Mark` (`WriteMarker`) |
| `refresh_request_directory_lease` | `CanRefresh`, `WriteMarker` |
| `cleanup_request_directory` | `CleanupRemoves`, `CleanupFails`, `CleanupRefused` |
| `sweep_orphan_request_directories`, `_sweep`, `_attempt_remove` | `SweepStart`, `SweepSkip`, `SweepTake`, `SweepRemove`, `SweepEnd` |
| `create_extraction` | `Upload`, `Lease`, `ExtractText`, `ProcessPage`, `CheckLimits`, `Cleanup`, `Escapes`, `Insert` |
| `create_image_extraction` | `Upload`, `Lease`, `PrepareImages`, `ExtractImages`, `Cleanup`, `Insert` |
| a process that dies | `Crash` (`StorageCrash`) |

- The handlers are coroutines that call blocking functions. A process therefore
  runs one of them at a time and switches only where the handler awaits the next
  chunk of an upload: `LoopIsFree`. Another process, and its sweep, interleaves
  with every step.
- The marker is written to a pending file and renamed, so a reader sees the old or
  the new lease. Time is reduced to whether a lease is older than the TTL
  (`fresh`, `expired`); a sweep compares with the time it began (`stale`), which a
  renewal after that passes.
- A removal is not atomic: when it fails, or the process dies in it, any part of
  the directory may be left (`Remnants`). `torn` remembers such directories.
- Directory names, device and inode never repeat, so the identity check of the code
  fails exactly when the directory is gone.
- The handlers name the exceptions that they turn into an answer, and have no
  `finally`. Any other type ends them at once, without cleanup (`Escapes`); what was
  stored stays until a sweep.
- Rendering and recognition may fail or time out at each page. Page texts are
  reduced to whether there is any, and an extraction's pages to the set of their
  kinds: nothing that is derived from them counts them. The thresholds of the
  quality of a text layer are the classes they lead to.

### The analysis

`AnalysisPipeline` takes one document from its upload, or its confirmed pages, to
the results of its jobs. The modules it extends are operators, written so that a
bug of the code would be a wrong value of one of them.

| code | model |
|---|---|
| `upload_document`, `_load_or_create_analysis_document` | `Upload`, `RequestForExtraction` |
| `split_clauses`, `split_clauses_with_snapshot` | `SplitText`, `SplitPages` |
| `create_analysis_job` | `RequestForDocument` (`Enqueue`) |
| `_load_confirmation_snapshot` | `LoadSnapshot` |
| `detect_and_mask`: `detect_entities`, `assign_mask_tokens`, `mask_text` | `DetectEntities`, `Number`, `MaskText` |
| `build_provider_input`, `build_provider_request` with its cuts, `_assert_no_provider_request_residual_pii` | `PrepareClause` (`Masked`, `Sent`, `Sendable`) |
| `execute_provider` | `CallFails` (`Retryable`), `CallAnswers` |
| `AnalysisProviderResponse.validate`, `AnalysisResultData.validate` | `ContractAccepts`, `ResultAccepts` |
| `bind_evidence_to_finding`, `build_evidence_candidates`, `validate_evidence_reference` | `Bind`, `Candidates`, `ReferenceError` |
| `classify_generated_text` | `CheckSummary` |
| commit of results with the job, failure, recovery | `Finish`, `Fails`, `Crash` |
| `get_analysis_results` | `ReadJob`, `ReadItems` |

- A text is a sequence of cells. Digits, dashes and blanks are cells of their own, so
  that two patterns can find parts of the same number, as `ACCOUNT_NUMBER_RE` and
  `PHONE_RE` do in `999-010-1234-5678`. Words, e-mail addresses, labels and tokens are
  one cell each.
- The patterns for numbers are translated from the regular expressions: how long, where
  the dashes are, which ask for a word boundary and which do not, and the order in which
  `finditer` takes matches. E-mail addresses take in the digits before them; labelled
  values reach up to the next label or the line end. The operators were compared with
  the Python on 12,400 random texts without a difference.
- A line has an indent, a head and maybe a carriage return. What it begins with decides
  how it is split (`Heads`): an article, one with a title, a number, a preamble, or
  nothing. These differ in what is kept of the line. `Text` is the stripped line,
  `RawLine` what the code measures, `AsWritten` what stands in the page: the offsets
  are those the code computes, and how far they are off is `Drift`.
- The limits of a request and of a quote, 1800, 4000 and 1200 characters in the code,
  are constants (`SourceLimit`, `TextLimit`, `QuoteLimit`) counted in cells; a token
  counts as two, so that a cut can go through it and leave a piece.
- The provider may answer anything that the checks tell apart; the instance lists a
  good answer, one without citations, answers in the old form, which the contract
  does not compare with the request, and each defect by itself. What questions,
  suggestions and facts cite is kept in the item (`Cited`).
- Clauses lose page, offsets and blocks when they are stored (no columns), and the
  blocks of a stored snapshot have no id. Both are what the code does (see below).
- Who owns a job is the business of `JobQueue`; here a claimed job has one run.

### Access

| code | model |
|---|---|
| rows of `users` | `users`; the lookup hash is the `address` |
| any encrypted column or JSON field, with owner and row | a place in `Places` |
| `build_canonical_aad` and the functions of six modules that call it | `Aad` |
| `EncryptionKeyring`, `encrypt`, `decrypt` | `WellFormed`, `Seal`, `Opens` |
| environment variables, read at the start of a process | `env`, `procs[p].env` |
| `InMemoryRateLimiter.check`, `_remove_expired` | `Check`, `Shrink` |
| `enforce_public_rate_limit`: the clock is read, then the lock is taken | `Arrive`, `Admit` |
| `register`, `login`, `authenticate_user` | `Register`, `Insert`, `Login`, the token check in `Arrive` |
| an upload by a user, a result of a worker | `Upload`, `Work` |
| runbook of `docs/deployment/secret-lifecycle-runbook.md` | `RotateKeys`, `SetActive`, `RetireKey`, `RotateSecret`, `Restart` |

- The cipher is a library and opens with the same key and the same authenticated
  data only. The tables of `Envelopes` list for every kind of place the resource
  type, the field name and the identifiers the code puts into that data.
- Only the API checks the key ring when it starts (`lifespan`); a worker starts with any
  (`Started`). It then claims jobs, `get_encryption_keyring` raises in
  `run_analysis_pipeline`, and each job fails: `Work` with a ring that opens nothing.
  `undone` keeps why the last job failed for want of a key.
- The retirement of a key waits until nothing stored needs it and no process runs
  with another ring, as the runbook demands; the guard is the runbook's, the command
  counts less (see below).
- `admitted` is a history variable: the requests each limiter let in whose time is
  still in the window, without those whose bucket was evicted or went while a time in
  it was live (`lost`). What the limiter promises after such a loss is less than a
  window; the property is about the others.
- Requests that read the clock at the same time are told apart by their number (`nth`).
- Passwords are right or wrong. Nothing in the repository changes `is_active` or
  `auth_version`, so the checks of these always pass.

## What the runs check

| run | instance | result |
|---|---|---|
| `queue_timely` | 2 workers (max_attempts 1 and 2), 2 rows, 2 fingerprints, 2 API requests, `Timely` | `TypeOK`, `ClaimKept`, `OneActivePerRequest`, `PublishedIffCompleted`, `OutcomeIsExplained`, `PendingIsClaimable`, `TerminalIsFinal`, `ImplementsService` hold |
| `queue_stalls` | the same, `Timely` FALSE | `RowShape`, `CompletedHasResults`, `AttemptBudget`, `ResultsNeverLost` hold |
| `queue_liveness` | one API request, no symmetry | `EveryJobFinishes`, `ImplementsFairService` hold |
| `queue_owner` | as `queue_stalls` | `OnlyOwnerCompletes` is violated |
| `queue_stuck` | as `queue_stalls` | `PendingIsClaimable` is violated |
| `review_serial` | 2 users, 2 pages to review, 3 texts, requests one at a time | all seven serial properties hold |
| `review_overlap` | 2 users, 2 pages, 2 texts, overlapping requests | `OnlyReviewedText`, `ClausesAreMadeOnce` hold |
| `review_wiped` | the same | `ConfirmationIsFinal` is violated |
| `intake` | 2 requests, 2 processes, PDFs and images of up to 2 pages, 2 attempts of a removal | `TypeOK`, `LiveDirectoryIsKept`, `NothingIsKept`, `EveryOriginalIsMarked`, `RowIsReviewable`, `SweepReports` hold |
| `analysis` | 79 documents, 18 answers, 2 jobs of 2 attempts, 2 attempts of a call | `TypeOK`, `ResultsAreComplete`, `CallsAreBounded`, `SentIsMasked`, `SplitIsSound`, `ItemsAreSound`, `TextIsAnalysable` hold |
| `confirmed` | the confirmed extractions, 1 job | `ConfirmedTextIsAnalysable` is violated |
| `access` | 1 API, 1 worker, 2 clients, 1 address, 2 keys, 2 secrets | `WindowIsBounded`, `OneAccountPerAddress`, `StoredIsReadable`, `CopiesAreRefused` hold |

*Bounds.* Two rows let jobs compete for the order, for a dedupe key and for two
workers; two workers are what a lost claim needs, and a third would only repeat
one of them. The two settings 1 and 2 of `max_attempts` let every comparison
fall on either side, including a row whose limit is lowered by the claim. Two
fingerprints and two API requests give every conflict of creation. Attempts need
no bound: the code's own limit makes the state space finite. In the review,
`MaxVersion` bounds `review_version`: 5 allows two patches of each page, or a
patch, a confirmation and an attempt after it; the patches and confirmations of
one extraction are otherwise alike. Three texts in the serial run give an edit
that replaces an edit. Two sessions can each hold one stale view and one open
request, which every violation found needs.

Two requests and two processes are what a sweep and a renewal need to meet, and a third
process would sweep like the second. Two pages give every pair of outcomes; the fields
derived from pages ask whether some page is of a kind, so pairs decide them. The
documents of `analysis` are one or two paragraphs or pages of one or two lines, with
each kind of heading, values next to, inside and after each other, overlapping in part,
and tokens the user typed; pages also have indented lines and carriage returns. With
limits of 8 and 10 there are texts that fit both, one or none, with the cut between
cells, through a token and through a run of digits. The limit of ten evidence items per
finding is the code's and is not reached.

`access` limits time to 3 with windows of 2 and two requests in each, so that a window
slides, fills and is evicted: a table keeps one bucket and a client uses several
(register, login, upload). The constraint `Apart` explores windows without accounts or
rotations, and accounts and rotations at the first time with at most one admitted
request: the limiter reads no account and no key, and the handlers read no bucket. All
clients share one network address, the harder case. The worker is restarted at every
stage of a rotation. Two ids and two owners tell apart every pair of places;
`PlacesAreDistinct` is proved for any.

*Deadlock.* The queue is checked for deadlock. The other systems may stop
(everything confirmed and analysed, all requests answered, a bound reached), so
they are not.

*Fairness.* `FairSpec` says that a live worker process goes on, that a dead one
is restarted (`restart: unless-stopped`), that leases end and retry delays
elapse. It does not ask for a heartbeat, a crash or a request. That the analysis
step ends assumes that the provider call returns; the worker sets no timeout for
it. No fairness is assumed per outcome: the analysis may fail every time. The
review has no liveness property; users may stop at any time. Neither has the
intake: no code ever looks again at a directory that a sweep gave up, until the
next start of a process, and nothing makes one start.

## What was found

- **A stalled worker completes another worker's job** (`queue_owner`).
  `finish_job_success` checks the object it loaded before the analysis. The
  damage is limited by the unique key on result rows: `CompletedHasResults` and
  `ResultsNeverLost` still hold. `OneActivePerRequest` and
  `PublishedIffCompleted` do not, although ADR-015 says that active dedupe keys
  prevent duplicate work.
- **A pending job that no worker selects** (`queue_stuck`). The failure path
  writes by primary key after its check; the row can be left pending with no
  attempt left and keeps answering every identical request.
- **A confirmed extraction without a snapshot** (`review_wiped`). A patch that
  overlaps the confirmation writes the JSON of before.
- **A confirmed extraction cannot be analysed** (`confirmed`). Evidence needs
  block ids, the blocks of a confirmation snapshot are stored without, and the ids
  set on clauses are no columns: every analysis of a confirmed extraction fails
  for good with `evidence_block_not_found`. Documents uploaded as text have no
  snapshot and are not affected. `ConfirmedCompletesByFaultOnly` proves it of all
  documents, answers and numbers of attempts.

With overlapping requests `EditIsKept`, `SummaryMatchesPages` and
`ConfirmedIsSeen` are violated by the same missing version in the UPDATE; they
have no runs of their own. A second confirmation after such an overlap gets
`snapshot_version` 1 again and is analysed with the clauses of the first.

### Seen while modelling

Observations that no run is about, most of them where the code says what it does
and no other text says otherwise.

*Queue and worker.* When the job that won the insert ends before the second SELECT of
`_enqueue_analysis_job`, the IntegrityError is raised again and the request fails (the
`error` state of `client`), while `docs/api/v0.8.0-durable-analysis-jobs.md:11` says
that the same active request returns its existing job. The default of
`ProviderExecutionPolicy.max_attempts` is 1, so that a retry happens only in the queue;
`retry_exhausted` is never reached.

*Splitting.* A line that consists of the preamble word "전문" alone makes `_detect_marker`
raise IndexError (the upload ends with 500); numbered lines keep only the number and
titled lines lose their rest; what is stored and analysed of a clause of a confirmed
extraction is the line of its heading alone; its `start_offset` is that of the raw line
while its text is stripped, and each line end counts as one character
(`services/clause_splitter.py:224`), so that the text stands behind its offset when a
line is indented or a line end above it is CR LF, and `end_offset` falls short by as
much; a clause with an empty body fails the whole analysis, though the upload only warns
of it (`empty_body`); offsets of clauses that run over pages are compared without the
page; a text may have no clause at all.

*Masking and provider.* A candidate that overlaps a selected one is dropped whole
(`services/pii_masking.py:294`), and the part of it that nothing else covers stays in
the text: of `999-010-1234-5678` the account number `999-010-1234` is masked and `-5678`
is sent; no later check finds it. `SentIsMasked` therefore speaks of the beginning of a
value. A candidate that overlaps a token already in the text is dropped as well, and all
of it stays. `PHONE_RE` asks for no word boundary: `010-1234-567812345` becomes
`[PHONE_1]12345`, whose digits are found as a postal code, and the text is refused for
good. A request takes 1800 and 4000 characters of the masked text and is searched again:
when a cut goes through a token or leaves five digits, the job fails for good, too.
These are the last two ways in `Refusable`. Titles of clauses are sent as labels without
masking: `SentIsMasked` is about the clause text. Texts with `x:/`, such as a URL, are
refused as paths, for good. The patterns for driving licences and queries of a URL, and
two of those for paths, have doubled backslashes in raw strings and find other things
than their names say. Duplicate ids of questions, suggestions or facts fail the job at
the encryption of its results. A missing clause title becomes the string "None".

*Results.* A failed or pending newest job hides the results of earlier completed
jobs and is answered with the risk `info` and the label `safe`. `top_priorities`
is sorted ascending and takes the three least severe findings. An empty severity
passes the validation of results, and the endpoint raises on it. A result is
always reported as stale when it has a confirmation checksum, because
`confirmation_checksum` and `calculate_snapshot_hash` hash the same snapshot in
different ways (`services/analysis_pipeline.py:534`, `api/documents.py:172`). An
OperationalError in `_load_confirmation_snapshot` is taken for a missing extraction.
`Document.clauses` has no order of its own.

*Limiter and secrets.* The limiter reads its clock before it takes its lock, so a
bucket's last time need not be its newest and the bucket can expire with live
times; a full table evicts a live bucket; each process counts for itself.
`scalar_metadata_verify` counts the keys of four metadata fields, so a key can look
unused that bodies, pages, snapshots or results still need. An API that is
restarted with a new active key before the worker knows it writes what the worker
cannot open, and the job fails for good; the steps of the runbook do not order
the restarts. A ring with no or two active keys keeps an API from starting (`main.py:90`). A
worker checks nothing: restarted in the middle of a rotation it is up with such a ring,
claims jobs, fails each of them for good, and writes nothing.

*Intake.* Both handlers name the exceptions they turn into an answer and clean up after
them; one of another type, such as a `ValueError` in the PDF route, skips the cleanup
(`api/extractions.py:1054`). The original stays, with its marker, until the sweep of a
later start.

## What is proved

Every invariant and every safety or action property that a passing run checks is
also a theorem, in one of eight modules. The theorems hold for any sets of jobs,
workers, requests, clients, pages, texts, sessions, processes, directories, keys,
ids and owners. The assumptions are the named ones of the modules: limits and
bounds are positive numbers, the value that stands for NULL is not one of the
others, `Original` is a text, the places an instance stores in are places.
`DocumentsAssumption` says what a document is: a text of paragraphs that are not
empty, or confirmed pages that do not end with a carriage return alone and of which each
has a line with text, because
`_get_extraction_ready_for_analysis` answers 409 for a snapshot with a blank page
(`api/analysis_jobs.py:246`). TLC evaluates the assumptions in every run.

*Any timing* (`JobQueueProofs`): `TypeCorrect`, `RowsKeepTheirShape`,
`AttemptsAreBounded`, `CompletedJobsHaveResults`, `ResultsAreNeverLost`. These
survive stalled workers because every write of a row, fenced or not, sets status,
owner, lease and key together (`RowStep` says what a step can do to a row,
`WorkStep` to a worker), because the attempt is only increased under
attempt < limit, and because rows are only published by `FinishSuccess`, whose
attempt is positive.

*Heartbeats in time* (`JobQueueTimelyProofs`): `ClaimIsKept` is the core. It is
not inductive: that a claim survives a step needs that its lease is live, which
needs that the worker's heartbeat runs; and that the result of the failure path
is right needs that the comparison it made still holds. `HoldingInv` says this
of every worker that executes a job, and with `TypeOK` and `RowShape` it is
inductive. `RowsInv` says of every row what then remains: attempt and limit
against the status, the error code, the results. From the two
(`TimelyInvariant`) follow `EndedJobsStayAsTheyAre`, `RequestsAreDeduplicated`,
`ResultsAppearWithCompletion`, `FailuresAreExplained` and
`PendingJobsAreClaimable`. These theorems have the form `Timely => (Spec => ...)`.

*Refinement* (`JobQueueTimelyProofs`): `QueueImplementsService`. With the same
invariant every step of the queue is one step of `AnalysisService` or none.

*Review* (`ExtractionReviewProofs`): `ReviewTypeCorrect`,
`OnlyReviewedTextIsUsed`, `AllJobsUseTheSameClauses`, for overlapping requests. The
invariant `ReviewInv` extends the properties from the rows to the copies that
requests hold: every copy was once the rows, so its reviewed pages and its
snapshot were submitted, a confirmation under way has a complete copy
(`Ready`), an analysis under way has a snapshot, and a document once made stays.

*Review, one request at a time* (`ExtractionReviewProofs`): `SerialConfirmationIsFinal`,
`SerialSummaryMatches`, `SerialAnalysedIsConfirmed`, `SerialConfirmedIsSeen`,
`SerialEditIsKept`, `SerialAnalysesWhatWasValidated`, of the form
`Serial => (Spec => ...)`. Views may be of any age. `SerialInv` adds two facts to the
properties: the copy of the request under way is still what is stored
(`FoundInv`), and what a user was shown is still stored when its version is
(`SeenInv`), for each page and for the extraction. The second needs that every
write raises the versions of what it changes, which `CommitStep` asks of both
writers. The first is what overlapping requests lose.

*Intake* (`ExtractionIntakeProofs`): `IntakeTypeCorrect`, `LiveDirectoriesAreKept`,
`OriginalsAreNotKept` (of the answers the handler gives), `OriginalsAreMarked`,
`RowsAreReviewable`, `SweepsReport`. Every part of `IntakeInv` is about one request and
its directory, so a step of another request or of a sweep with another target is calm
for it (`CalmKeeps`). The part that matters is `Untouched`: no sweep, in any process,
holds a live request as stale or as its target, because a sweep compares with the time
it began and a request is expired before that only when it waited too long (`late`).
`SweepsReport` is about the steps that end a sweep: what it found stale is then gone or
reported. `Accounted` says it of the middle of a sweep, where a stale directory may also
be still to do or in hand; all other steps wait for the sweep (`Waits`).

*Analysis* (`AnalysisPipelineProofs`): `PipelineTypeCorrect`,
`CompletedResultsAreWhole`, `StoredItemsAreSound`, `CallsStayBounded`, for any
documents, answers of providers, numbers of attempts and of jobs. None of the four
is inductive. `PipelineInv` adds that a run works on the newest job, which alone
may be active (`JobInv`, `RunInv`), that what a run has collected stands for the
clauses it has passed, one item each (`Covers`), that a job which ended for a reader stays
as it was (`ReaderInv`), and how many calls can have been made at each point of a
run: `Spent` counts the attempts before it, the clauses behind it and the tries at
its clause (`LogInv`). That an accepted answer is sound (`AcceptedIsSound`) comes
from two of the checks in front of the store, those of the output and of the
citations, of questions, suggestions and facts alike.

*Texts* (`TextProofs`, `AnalysisPipelineProofs`): `SplitStaysSound`,
`SentStaysMasked`, `TextStaysAnalysable`, for any documents. What the operators
compute is proved of any text of any length:

- *Splitting* (`TextSplitIsSound`, `PageSplitIsSound`): the clauses of a text are
  numbered 1, 2, ... and with the unclassified ones make up its paragraphs. Those of pages
  have increasing numbers and disjoint extents in the order of the pages, and there is at
  least one. A clause of pages extends from its head to the line before the next one, on
  whatever pages these are. The offsets grow from line to line (`OffsetsInOrder`)
  although they count neither carriage returns nor, at the end, indents; that each text
  stands `Drift` cells behind its offset (`LineAtPlace`) comes from counting the
  returns above a line (`ReturnsGrow`, `ReturnsBetween`).
- *Masking* (`MaskingIsSound`): selection takes a candidate when no selected one that
  precedes it overlaps it. Such a selection exists (`KernelExists`, by induction over
  the place of a candidate in the order of priorities), its members are disjoint
  (`ResolvedApart`) and cover no token the user typed. A candidate that is dropped
  starts no earlier than the one that keeps it out, so its beginning is replaced. What
  every pattern finds is a span of the text (`CandidateShape`); nothing else about the
  patterns is needed. A token's number is the rank of its value among the values of its
  kind, above all numbers the text uses, so that equal values, and only these, get equal
  tokens (`NumbersApart`).
- *In a run*: a clause stored is a clause of the split (`StoredInv`), so what a run
  is about to send is masked soundly, whether or not the text passes the checks that
  follow, and passed those on what was cut from it. That tokens typed by the user are never
  lost (`MaskedKeeps`) rules out the refusal for a collision. `TextInv` adds that a run on
  an uploaded text has no snapshot; a finding then needs no block to be accepted
  (`UnboundIsAccepted`), a text within `SourceLimit` is sent whole (`ShortIsWhole`), and
  an analysis fails for good only for the reasons `Refusable` names.

`Induction` is what these rest on. The library's induction takes an operator as a
parameter, which the provers cannot instantiate; `SetInduction` takes a set, and is
proved from the facts about finite sets: with a number missing, the successor
would map a finite set into itself one to one and miss 0.

*Evidence* (`AnalysisPipelineProofs`): `BoundEvidenceStands`, for any clause, quote
and pages. Evidence that is bound without an error stands verbatim at the place it
names, which is the first one on its page, and every other place overlaps it; it
names blocks of that page, lies within its clause where that has a place, and is not
counted twice. Number 1 is among it, and at most `MaxEvidence` are kept. The
candidates of all pages are joined by a fold (`FlattenedIs`) and renumbered
(`CandidatesAre`); what is kept are those no check refuses (`BoundFrom`), so a
candidate without a place (`HasPlace`) never is (`CheckedIsBound`).

`EvidenceIsNeverPlaced` and `ConfirmedCompletesByFaultOnly` are what remains of this in
the program as it is: no stored result names a place in its document, and the
analysis of a confirmed extraction completes only when a database error was taken
for a missing extraction. `SnapshotInv` says why: a run that has a snapshot is at
its first clause, as the blocks of a snapshot have no id (`NeverBinds`); a run past it
has none, from an upload or by a fault. With `PipelineInv`, `EvidenceInv` is
inductive. No run checks these two, as `confirmed` shows the violation of the claim
they explain; TLC was used to find the invariant.

*Access* (`AccessProofs`): `PlacesAreDistinct`, `StoredStaysReadable`,
`CopiesStayRefused`, `AccountsAreUnique`, `WindowsStayBounded`. The first is about the
tables of resource types and field names: two different places never have the same
authenticated data, from which `CopiesStayRefused` follows. `AccessIsInvariant` says
that every key something was sealed with, or is about to be sealed with by a request
under way, is in the ring of the environment; a retirement keeps it because it asks of
all stored values and processes. A worker may hold a half-rotated ring: it opens and
seals nothing, as `WellFormed` is asked at each use. For `WindowsStayBounded` the number
of admitted requests says too little: the times of a bucket need not be in order, and a
time of one request must not stand for two. `LimiterInv` says that every live request
has a place of its own in the bucket of its key, with its time (`Holds`), and that no
clock was read in the future (`ClockInv`). A check drops only times before the first
live one, and admits only a bucket shorter than the limit.

*Only model-checked:* the two liveness properties, `EveryJobFinishes` and
`ImplementsFairService`, as fairness is out of the prover's reach; and the four
runs that end in a violation, where there is nothing to prove.

## What is not modelled

*Parts:* of `api/documents.py` the presentation of results and the listing; of the
worker its shutdown signal and settings; of the boundary the proxy, host and size
checks, which keep no state; of the review the limits on texts, their encryption
and ownership; of the rotation of secrets the inventory.

*Not at all:* the regular expressions of splitting and output safety (what they find is
the data of the models), of masking those for internet addresses, passports, driving
licences and queries of a URL, blanks at the end of a line, a byte order mark; the
inside of image preparation and of the OCR engine (`services/image_ocr.py`: geometry and
scores without state; its outcomes are in `ExtractionIntake`), rendering, the ciphers,
logging and settings, the front end, spikes, migrations and the operation scripts. They
are data, library code or one-time steps. Migration 0006 turned the old states `queued`
and `processing` into `pending`; the model starts after it. Ownership checks and HTTP
answers are left out where they change no state.
