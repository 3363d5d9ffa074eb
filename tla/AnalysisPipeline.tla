-------------------------- MODULE AnalysisPipeline --------------------------
(***************************************************************************)
(* The analysis of a document, from the upload or the confirmed extraction  *)
(* to the results (services/analysis_pipeline.py, api/documents.py,         *)
(* api/analysis_jobs.py).                                                   *)
(*                                                                          *)
(* One document is analysed by as many jobs as are requested.  Who owns a   *)
(* job is the business of JobQueue: here each claimed job has one run.      *)
(***************************************************************************)
EXTENDS ClauseSplitter, PiiMasking, EvidenceLinking, AnalysisProvider

CONSTANTS
  Documents,         \* the documents a user may bring
  MaxAttempts,       \* attempts of a job
  ProviderAttempts,  \* ProviderExecutionPolicy.max_attempts
  MaxJobs,           \* bound on the jobs of the document
  SourceLimit,       \* characters of a masked text sent as evidence candidate
  TextLimit,         \* and as the text of the clause
  QuoteLimit,        \* MAX_EVIDENCE_SOURCE_TEXT_LENGTH
  None

ASSUME PipelineAssumption ==
  /\ MaxAttempts \in Nat \ {0}
  /\ ProviderAttempts \in Nat \ {0}
  /\ MaxJobs \in Nat \ {0}
  /\ SourceLimit \in Nat \ {0} /\ TextLimit \in Nat /\ SourceLimit <= TextLimit
  /\ QuoteLimit \in Nat \ {0}

VARIABLES
  source,  \* the document as the user has it: [kind, parts]
  stored,  \* its clauses in the database, None before they are made
  jobs,    \* the analysis jobs, oldest first
  run,     \* the run of a job under way, if any
  log,     \* history of the newest job: provider calls, whether an attempt failed
           \* in a way no retry can cure, whether anything went wrong around it
  reader   \* a request for the results

vars == <<source, stored, jobs, run, log, reader>>

\* A text has paragraphs; an extraction was confirmed and has pages.
IsText == source.kind = "text"

NewJob == [status |-> "pending", attempts |-> 0, items |-> {}]

NewLog == [calls |-> 0, fatal |-> FALSE, fault |-> FALSE]

NoRun == [job |-> 0, at |-> "off", snapshot |-> <<>>, next |-> 1, tries |-> 0, items |-> {}]

NewRun(j) == [job |-> j, at |-> "load", snapshot |-> <<>>, next |-> 1, tries |-> 0, items |-> {}]

NoReader == [at |-> "idle", job |-> 0, status |-> "none", got |-> "nothing"]

Init ==
  /\ source \in Documents
  /\ stored = None
  /\ jobs = <<>>
  /\ run = NoRun
  /\ log = NewLog
  /\ reader = NoReader

-----------------------------------------------------------------------------
(* Making the document and its jobs.                                       *)

\* A clause as a worker loads it: reference_id names the document and the
\* ordinal; places and blocks are not columns and are lost.
StoredClause(c) == [reference |-> c.ordinal, text |-> c.text, start |-> NoOffset, end |-> NoOffset,
                    blocks |-> {}]

StoredClauses(clauses) == [i \in 1 .. Len(clauses) |-> StoredClause(clauses[i])]

SplitOf(document) ==
  IF document.kind = "text" THEN SplitText(document.parts) ELSE SplitPages(document.parts)

\* What the pages of a confirmed extraction are: none is without text, and behind
\* a carriage return there is a line.
ConfirmedPages == {pages \in Seq(Seq(Line)) : pages # <<>> /\ \A p \in DOMAIN pages :
                     /\ \E i \in DOMAIN pages[p] : ~Blank(pages[p][i])
                     /\ ~pages[p][Len(pages[p])].crlf}

\* A text has any number of paragraphs, none of them empty.
ASSUME DocumentsAssumption ==
  Documents \subseteq [kind : {"text"}, parts : Seq(Seq(Line) \ {<<>>})]
                      \cup [kind : {"extraction"}, parts : ConfirmedPages]

ASSUME NoneAssumption == \A d \in Documents : StoredClauses(SplitOf(d).clauses) # None

\* The document and its clauses are inserted in one commit, or nothing is.
Upload ==
  /\ IsText /\ stored = None
  /\ ~SplitOf(source).broken
  /\ stored' = StoredClauses(SplitOf(source).clauses)
  /\ UNCHANGED <<source, jobs, run, log, reader>>

IsActive(job) == job.status \in {"pending", "running"}

\* A request while a job is active gets that job.
Enqueue ==
  \/ /\ \E j \in DOMAIN jobs : IsActive(jobs[j])
     /\ UNCHANGED <<jobs, log>>
  \/ /\ \A j \in DOMAIN jobs : ~IsActive(jobs[j])
     /\ Len(jobs) < MaxJobs
     /\ jobs' = Append(jobs, NewJob)
     /\ log' = NewLog

RequestForDocument ==
  /\ stored # None
  /\ Enqueue
  /\ UNCHANGED <<source, stored, run, reader>>

\* The first request for an extraction makes the document, in the commit that
\* inserts the job.
RequestForExtraction ==
  /\ ~IsText /\ stored = None
  /\ ~SplitOf(source).broken
  /\ stored' = StoredClauses(SplitOf(source).clauses)
  /\ Enqueue
  /\ UNCHANGED <<source, run, reader>>

-----------------------------------------------------------------------------
(* A run.                                                                  *)

InRun(at) == run.at = at

\* A wrong version: the failure of an analysis keeps what was done so far.
SlipEnds(job, status) == [job EXCEPT !.status = status, !.items = run.items]

\* A run ends without results: the transaction is rolled back.
Ends(job, status) == [job EXCEPT !.status = status]

\* finish_job_failure: a retryable failure is tried again while attempts are left.
Fails(retryable, calls, fault) ==
  LET job == jobs[run.job]
      again == retryable /\ job.attempts < MaxAttempts
      ended == Ends(job, IF again THEN "pending" ELSE "failed") IN
  /\ jobs' = [jobs EXCEPT ![run.job] = ended]
  /\ log' = [calls |-> log.calls + calls, fatal |-> ~retryable, fault |-> log.fault \/ fault]
  /\ run' = NoRun
  /\ UNCHANGED <<source, stored, reader>>

Claim ==
  /\ InRun("off")
  /\ \E j \in DOMAIN jobs :
       /\ jobs[j].status = "pending"
       /\ jobs' = [jobs EXCEPT ![j].status = "running", ![j].attempts = @ + 1]
       /\ run' = NewRun(j)
  /\ UNCHANGED <<source, stored, log, reader>>

\* Blocks of a confirmed page: those of the recognition, which have no id.
SnapshotOf(pages) ==
  [p \in 1 .. Len(pages) |->
    [text |-> PageText(pages[p]),
     blocks |-> <<[id |-> "", first |-> 0, last |-> Len(PageText(pages[p]))]>>]]

\* A document that was uploaded has no extraction.  A database error is taken for
\* a missing extraction.
LoadSnapshot ==
  /\ InRun("load")
  /\ \/ /\ run' = [run EXCEPT !.at = "next",
                              !.snapshot = IF IsText THEN <<>> ELSE SnapshotOf(source.parts)]
        /\ UNCHANGED log
     \/ /\ run' = [run EXCEPT !.at = "next"]
        /\ log' = [log EXCEPT !.fault = TRUE]
  /\ UNCHANGED <<source, stored, jobs, reader>>

Clause == stored[run.next]

\* Texts that look like a path are refused.
HasPath(text) == \E i \in DOMAIN text : text[i][1] = "path"

\* What masking leaves of a text.
Masked(text) == LET normal == Normalized(text) IN MaskText(normal, DetectEntities(normal))

\* A token has more characters than any other cell: it counts as two.
Width(text) == Len(text) + Cardinality({i \in DOMAIN text : IsToken(text[i])})

\* text[:limit], which may leave a piece of a token.
Cut(text, limit) ==
  LET n == Max({k \in 0 .. Len(text) : Width(SubSeq(text, 1, k)) <= limit})
      whole == SubSeq(text, 1, n) IN
  IF n < Len(text) /\ Width(whole) < limit THEN Append(whole, <<"piece", 0>>) ELSE whole

\* The texts in a request: source_text of the candidate and text of the clause.
Sent(text) == {Cut(Masked(text), limit) : limit \in {SourceLimit, TextLimit}}

\* A text that may be sent: masked without collision, not empty, and neither in
\* the masked text nor in what is cut from it something to mask, or a path.
Sendable(text) ==
  LET normal == Normalized(text) IN
  /\ CollisionAvoided(normal, DetectEntities(normal))
  /\ Masked(text) # <<>>
  /\ DetectEntities(Masked(text)) = {}
  /\ \A sent \in Sent(text) : ~HasPath(sent) /\ DetectEntities(sent) = {}

PrepareClause ==
  /\ InRun("next") /\ run.next <= Len(stored)
  /\ IF Sendable(Clause.text)
     THEN run' = [run EXCEPT !.at = "call", !.tries = 0] /\ UNCHANGED <<source, stored, jobs, log, reader>>
     ELSE Fails(FALSE, 0, FALSE)

\* A wrong version: a retryable error is tried once more than the policy says.
SlipCallFails ==
  \E error \in Errors :
    IF Retryable(error) /\ run.tries < ProviderAttempts
    THEN /\ run' = [run EXCEPT !.tries = @ + 1]
         /\ log' = [log EXCEPT !.calls = @ + 1]
         /\ UNCHANGED <<source, stored, jobs, reader>>
    ELSE Fails(Retryable(error), 1, TRUE)

\* A call that raises: repeated within the policy, or the end of the run.
CallFails ==
  \E error \in Errors :
    IF Retryable(error) /\ run.tries + 1 < ProviderAttempts
    THEN /\ run' = [run EXCEPT !.tries = @ + 1]
         /\ log' = [log EXCEPT !.calls = @ + 1]
         /\ UNCHANGED <<source, stored, jobs, reader>>
    ELSE Fails(Retryable(error), 1, TRUE)

\* What is stored of a response for clause n.
Item(n, r, evidence) ==
  [clause |-> n, evidence |-> {[id |-> e.id, status |-> e.status] : e \in evidence},
   cited |-> Cited(r), summary |-> r.summary]

\* What evidence quotes: the beginning of the clause's own text.
Quote(text) == SubSeq(text, 1, IF Len(text) < QuoteLimit THEN Len(text) ELSE QuoteLimit)

Accepts(r, bound) ==
  /\ ContractAccepts(r) /\ ResultAccepts(r)
  /\ bound.error = ""
  /\ \A e \in bound.items : Sealable(e, Clause)
  /\ CitedEvidence(r, {e.id : e \in bound.items})

\* A call that answers: the response is checked, bound to the text and kept.
CallAnswers ==
  LET bound == Bind(Clause, Quote(Clause.text), run.snapshot) IN
  \E r \in Responses :
    IF Accepts(r, bound)
    THEN /\ run' = [run EXCEPT !.at = "next", !.next = @ + 1,
                               !.items = @ \cup {Item(run.next, r, bound.items)}]
         /\ log' = [log EXCEPT !.calls = @ + 1]
         /\ UNCHANGED <<source, stored, jobs, reader>>
    ELSE Fails(FALSE, 1, ~(ContractAccepts(r) /\ ResultAccepts(r) /\ CitedEvidence(r, {1})))

Call == InRun("call") /\ (CallFails \/ CallAnswers)

\* The items and the completion in one commit; an error of it fails the job.
Finish ==
  /\ InRun("next") /\ run.next > Len(stored)
  /\ \/ /\ jobs' = [jobs EXCEPT ![run.job] = [Ends(@, "completed") EXCEPT !.items = run.items]]
        /\ run' = NoRun
        /\ UNCHANGED <<source, stored, log, reader>>
     \/ Fails(FALSE, 0, TRUE)

\* The worker dies; the recovery of its job makes it pending or failed.
Crash ==
  /\ ~InRun("off")
  /\ jobs' = [jobs EXCEPT ![run.job] =
                Ends(@, IF @.attempts < MaxAttempts THEN "pending" ELSE "failed")]
  /\ log' = [log EXCEPT !.fault = TRUE]
  /\ run' = NoRun
  /\ UNCHANGED <<source, stored, reader>>

-----------------------------------------------------------------------------
(* Reading the results: the newest job, then its items in a query of their  *)
(* own.                                                                     *)

\* The items stand for each clause exactly once.
Whole(items) ==
  /\ Cardinality(items) = Len(stored)
  /\ {item.clause : item \in items} = 1 .. Len(stored)

\* What a reader sees in the items, all the model remembers of them.
Amount(items) == IF items = {} THEN "nothing" ELSE IF Whole(items) THEN "all" ELSE "part"

ReadJob ==
  /\ reader.at # "items" /\ jobs # <<>>
  /\ reader' = [at |-> "items", job |-> Len(jobs), status |-> jobs[Len(jobs)].status,
              got |-> "nothing"]
  /\ UNCHANGED <<source, stored, jobs, run, log>>

ReadItems ==
  /\ reader.at = "items"
  /\ reader' = [reader EXCEPT !.at = "done", !.got = Amount(jobs[reader.job].items)]
  /\ UNCHANGED <<source, stored, jobs, run, log>>

-----------------------------------------------------------------------------

Next ==
  \/ Upload \/ RequestForDocument \/ RequestForExtraction
  \/ Claim \/ LoadSnapshot \/ PrepareClause \/ Call \/ Finish \/ Crash
  \/ ReadJob \/ ReadItems

Spec == Init /\ [][Next]_vars

-----------------------------------------------------------------------------
(* Properties.                                                             *)

Statuses == {"pending", "running", "completed", "failed"}

\* State of the right shape.
TypeOK ==
  /\ source \in Documents
  /\ stored = None \/ DOMAIN stored = 1 .. Len(stored)
  /\ \A j \in DOMAIN jobs : jobs[j].status \in Statuses /\ jobs[j].attempts \in 0 .. MaxAttempts
  /\ Len(jobs) <= MaxJobs
  /\ run.at # "off" => /\ run.job \in DOMAIN jobs /\ run.at \in {"load", "next", "call"}
                       /\ run.next \in 1 .. Len(stored) + 1 /\ run.tries \in 0 .. ProviderAttempts - 1
  /\ reader.at \in {"idle", "items", "done"}

Newest == jobs[Len(jobs)]

\* A completed job has one result for every clause, any other job has none, and
\* whoever reads the results between or during runs never gets a part of them
\* (run_analysis_pipeline: rollback, get_analysis_results: two queries).
ResultsAreComplete ==
  /\ \A j \in DOMAIN jobs : IF jobs[j].status = "completed" THEN Whole(jobs[j].items)
                                                            ELSE jobs[j].items = {}
  /\ reader.at = "done" =>
       /\ reader.got # "part"
       /\ reader.status = "completed" => reader.got = Amount(jobs[reader.job].items)
       /\ reader.status = "failed" => reader.got = "nothing"

\* Retries inside a run and of the job multiply, but not beyond their product,
\* and nothing is tried again after a failure that retrying cannot cure
\* (execute_provider, finish_job_failure).
CallsAreBounded ==
  /\ stored # None => log.calls <= MaxAttempts * ProviderAttempts * Len(stored)
  /\ log.fatal => Newest.status = "failed"

\* Before a text is sent, whatever a pattern finds in it is masked from its
\* beginning on, its tokens can be told from each other and from those of the text,
\* and nothing is found in what is left, cut to the lengths of a request
\* (build_provider_input, assign_mask_tokens, build_provider_request).
SentIsMasked ==
  InRun("call") => /\ SoundMasking(Normalized(Clause.text))
                   /\ \A sent \in Sent(Clause.text) : DetectEntities(sent) = {}

\* The clauses of a document are numbered in the order of its text and none
\* overlaps another one; of a confirmed extraction, each stands at its offset but for
\* the blanks before its line and the carriage returns above it
\* (split_clauses, split_clauses_with_snapshot).
SplitIsSound ==
  /\ stored # None /\ IsText => SoundTextSplit(source.parts, SplitText(source.parts))
  /\ stored # None /\ ~IsText => SoundPageSplit(source.parts, SplitPages(source.parts).clauses)

\* Each question, suggestion and fact of a result names evidence, all of which the
\* result has, and nothing is said with certainty that must not be, whatever a
\* provider answers, in the new form or the old one (execute_provider to
\* _to_customer_value_payload).
ItemsAreSound == \A j \in DOMAIN jobs : \A item \in jobs[j].items :
  /\ \A named \in item.cited : named # {} /\ named \subseteq {e.id : e \in item.evidence}
  /\ \A part \in item.summary.parts : ~Asserts(part)

\* Why a text may be refused for good: it is empty, looks like a path, masking
\* leaves something to mask in it, or it is too long to be sent as a whole.
Refusable(text) ==
  \/ Normalized(text) = <<>> \/ HasPath(text)
  \/ DetectEntities(Masked(text)) # {}
  \/ Width(Masked(text)) > SourceLimit

\* Tokens and evidence never fail the analysis of an uploaded text: without a fault
\* of the provider, the database or the worker it only fails for a clause that may be
\* refused.
TextIsAnalysable ==
  IsText /\ jobs # <<>> /\ Newest.status = "failed" /\ ~log.fault =>
    \E c \in DOMAIN stored : Refusable(stored[c].text)

\* The confirmed text of an extraction can be analysed: without a fault the
\* analysis only fails for such a clause
\* (docs/api/v0.6-extraction-result-contract.md: clause split and analysis use
\* the confirmed text).
ConfirmedTextIsAnalysable ==
  ~IsText /\ jobs # <<>> /\ Newest.status = "failed" /\ ~log.fault =>
    \E c \in DOMAIN stored : Refusable(stored[c].text)
=============================================================================
