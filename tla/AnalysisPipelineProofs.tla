----------------------- MODULE AnalysisPipelineProofs -----------------------
(***************************************************************************)
(* Theorems about AnalysisPipeline, its control and the texts it splits and *)
(* masks, for any documents, answers of providers, numbers of attempts and  *)
(* of jobs.                                                                 *)
(*                                                                          *)
(* A run works on the newest job, which alone is active; what it has        *)
(* collected stands for the clauses it has passed, one item each.  Evidence  *)
(* stands in the pages of the snapshot, and a run that has one gets nowhere. *)
(***************************************************************************)
EXTENDS AnalysisPipeline, TextProofs

USE PipelineAssumption, ResponsesAssumption

-----------------------------------------------------------------------------
(* The invariant.                                                          *)

Snapshots == {<<>>} \cup {SnapshotOf(d.parts) : d \in Documents}

\* Every item a run can make.
Items ==
  {Item(n, r, Bind(StoredClauses(SplitOf(d).clauses)[i],
                   Quote(StoredClauses(SplitOf(d).clauses)[i].text), s).items) :
     n \in Nat, r \in Responses, d \in Documents, i \in Nat, s \in Snapshots}

Job == [status : Statuses, attempts : 0 .. MaxAttempts, items : SUBSET Items]

Run == [job : Nat, at : {"off", "load", "next", "call"}, snapshot : Snapshots, next : Nat,
        tries : 0 .. ProviderAttempts - 1, items : SUBSET Items]

Log == [calls : Nat, fatal : BOOLEAN, fault : BOOLEAN]

Reader == [at : {"idle", "items", "done"}, job : Nat, status : Statuses \cup {"none"},
           got : {"nothing", "all", "part"}]

Shape ==
  /\ source \in Documents
  /\ jobs \in Seq(Job) /\ Len(jobs) <= MaxJobs
  /\ run \in Run /\ log \in Log /\ reader \in Reader

\* The clauses, once made, are those of the document.
StoredInv ==
  /\ stored # None => ~SplitOf(source).broken /\ stored = StoredClauses(SplitOf(source).clauses)
  /\ jobs # <<>> => stored # None

Clauses == Len(stored)

SoundItem(item) ==
  /\ \A named \in item.cited : named # {} /\ named \subseteq {e.id : e \in item.evidence}
  /\ \A part \in item.summary.parts : ~Asserts(part)

\* One item for each of the first n clauses.
Covers(items, n) ==
  /\ IsFiniteSet(items) /\ Cardinality(items) = n
  /\ {item.clause : item \in items} = 1 .. n

JobInv(j) ==
  /\ IF jobs[j].status = "completed" THEN Covers(jobs[j].items, Clauses) ELSE jobs[j].items = {}
  /\ jobs[j].status = "pending" => jobs[j].attempts < MaxAttempts
  /\ jobs[j].status = "running" => jobs[j].attempts > 0
  /\ j # Len(jobs) => ~IsActive(jobs[j])
  /\ \A item \in jobs[j].items : SoundItem(item)

RunInv == run.at # "off" =>
  /\ jobs # <<>> /\ run.job = Len(jobs) /\ Newest.status = "running"
  /\ run.next \in 1 .. Clauses + 1
  /\ run.at = "call" => run.next <= Clauses
  /\ Covers(run.items, run.next - 1)
  /\ \A item \in run.items : SoundItem(item)

\* Calls that the newest job may have made so far.
PerRun == ProviderAttempts * Clauses
Spent ==
  IF run.at = "off" THEN Newest.attempts * PerRun
  ELSE (Newest.attempts - 1) * PerRun + (run.next - 1) * ProviderAttempts
         + IF run.at = "call" THEN run.tries ELSE 0

LogInv ==
  /\ jobs = <<>> => log.calls = 0 /\ ~log.fatal
  /\ jobs # <<>> => log.calls <= Spent
  /\ log.fatal => Newest.status = "failed"

\* What a reader saw of a job that ended stays true.
ReaderInv == reader.at # "idle" =>
  /\ reader.job \in DOMAIN jobs
  /\ reader.status \in {"completed", "failed"} => jobs[reader.job].status = reader.status
  /\ reader.got # "part"
  /\ reader.at = "done" /\ reader.status = "completed" =>
       reader.got = Amount(jobs[reader.job].items)
  /\ reader.at = "done" /\ reader.status = "failed" => reader.got = "nothing"

PipelineInv ==
  /\ Shape /\ StoredInv /\ RunInv /\ LogInv /\ ReaderInv
  /\ \A j \in DOMAIN jobs : JobInv(j)

-----------------------------------------------------------------------------
(* Data.                                                                   *)

\* The split of a document is as it must be, and its clauses are texts.
LEMMA SplitOfDocument ==
  ASSUME NEW d \in Documents
  PROVE  /\ Len(SplitOf(d).clauses) \in Nat
         /\ \A i \in 1 .. Len(SplitOf(d).clauses) : SplitOf(d).clauses[i].text \in Seq(Cell)
         /\ d.kind = "text" => SoundTextSplit(d.parts, SplitText(d.parts))
         /\ d.kind # "text" => /\ SoundPageSplit(d.parts, SplitPages(d.parts).clauses)
                              /\ Len(SplitOf(d).clauses) # 0
<1>1. CASE d \in [kind : {"text"}, parts : Seq(Seq(Line) \ {<<>>})]
  <2>1. d.kind = "text" /\ d.parts \in Seq(Paragraph)
    BY <1>1 DEF Paragraph
  <2>2. SplitOf(d) = SplitText(d.parts)
    BY <2>1 DEF SplitOf
  <2> QED
    BY <2>1, <2>2, TextSplitIsSound
<1>2. CASE d \in [kind : {"extraction"}, parts : ConfirmedPages]
  <2>1. d.kind = "extraction" /\ d.parts \in Seq(Seq(Line)) /\ d.parts # <<>>
    BY <1>2 DEF ConfirmedPages
  <2>2. SplitOf(d) = SplitPages(d.parts) /\ d.kind # "text"
    BY <2>1 DEF SplitOf
  <2> QED
    BY <2>1, <2>2, PageSplitIsSound
<1> QED
  BY <1>1, <1>2, DocumentsAssumption

LEMMA ListOfClauses ==
  ASSUME NEW d \in Documents
  PROVE  LET clauses == StoredClauses(SplitOf(d).clauses) IN
         /\ clauses # None /\ Len(clauses) \in Nat /\ DOMAIN clauses = 1 .. Len(clauses)
         /\ \A i \in DOMAIN clauses : clauses[i].text \in Seq(Cell)
<1> DEFINE list == SplitOf(d).clauses
           n == Len(list)
           clauses == StoredClauses(list)
<1>1. n \in Nat /\ \A i \in 1 .. n : list[i].text \in Seq(Cell)
  BY SplitOfDocument
<1>2. clauses # None
  BY NoneAssumption
<1>3. clauses = [i \in 1 .. n |-> StoredClause(list[i])]
  BY DEF StoredClauses
<1> HIDE DEF n, list, clauses
<1>4. DOMAIN clauses = 1 .. n /\ Len(clauses) = n
  <2>1. clauses = [i \in 1 .. n |-> clauses[i]]
    BY <1>3, Zenon
  <2> QED
    BY <1>1, <2>1, LengthOf
<1>5. \A i \in DOMAIN clauses : clauses[i].text \in Seq(Cell)
  <2> TAKE i \in DOMAIN clauses
  <2>1. PICK c : c = StoredClause(list[i])
    OBVIOUS
  <2>2. c.text = list[i].text
    BY <2>1 DEF StoredClause
  <2> QED
    BY <1>1, <1>3, <1>4, <2>1, <2>2
<1> QED
  BY <1>1, <1>2, <1>4, <1>5 DEF clauses, list

LEMMA StoredList ==
  ASSUME Shape, StoredInv, stored # None
  PROVE  /\ Clauses \in Nat /\ DOMAIN stored = 1 .. Clauses
         /\ \A i \in DOMAIN stored : stored[i].text \in Seq(Cell)
  BY ListOfClauses DEF Shape, StoredInv, Clauses

\* What passes the checks is sound: OutputSafety and the citations.
LEMMA AllowedAssertsNothing ==
  ASSUME NEW summary \in Summary, CheckSummary(summary) = "ALLOW", NEW part \in summary.parts
  PROVE  ~Asserts(part)
<1> SUFFICES ASSUME Asserts(part) PROVE FALSE
  OBVIOUS
<1>1. BlockedFor(summary) = ""
  BY DEF CheckSummary
<1>2. PICK claim \in {"illegality", "invalidity", "refund", "outcome", "legal_safety", "legal_effect"} :
        claim \in part
  BY DEF Asserts
<1>3. \A modes : "certain" \in modes => Determines(summary, {claim}, modes)
  BY <1>2 DEF Asserts, Determines
<1>4. \/ Determines(summary, {"illegality"}, {"certain", "concluded"})
      \/ Determines(summary, {"invalidity"}, {"certain", "concluded"})
      \/ Determines(summary, {"refund"}, {"certain"})
      \/ Determines(summary, {"outcome"}, {"certain"})
      \/ Determines(summary, {"legal_safety"}, {"nothing", "certain", "concluded"})
      \/ Determines(summary, {"legal_effect"}, {"nothing", "certain"})
  BY <1>2, <1>3
<1> HIDE DEF Determines
<1>5. BlockedFor(summary) # ""
  BY <1>4 DEF BlockedFor
<1> QED
  BY <1>1, <1>5

LEMMA AcceptedIsSound ==
  ASSUME NEW n, NEW r \in Responses, NEW bound, Accepts(r, bound)
  PROVE  SoundItem(Item(n, r, bound.items)) /\ Item(n, r, bound.items).clause = n
<1> DEFINE item == Item(n, r, bound.items)
<1>1. r.summary \in Summary
  BY DEF Response
<1>2. /\ item.cited = Cited(r) /\ item.summary = r.summary /\ item.clause = n
      /\ item.evidence = {[id |-> e.id, status |-> e.status] : e \in bound.items}
  BY DEF Item
<1> HIDE DEF item
<1>3. ASSUME NEW e \in bound.items PROVE e.id \in {f.id : f \in item.evidence}
  <2> DEFINE kept == [id |-> e.id, status |-> e.status]
  <2>1. kept \in item.evidence
    BY <1>2
  <2>2. kept.id = e.id
    OBVIOUS
  <2> HIDE DEF kept
  <2> QED
    BY <2>1, <2>2
<1>4. CitedEvidence(r, {e.id : e \in bound.items}) /\ CheckSummary(r.summary) = "ALLOW"
  BY DEF Accepts, ResultAccepts
<1>5. {e.id : e \in bound.items} \subseteq {f.id : f \in item.evidence}
  BY <1>3
<1>6. \A named \in item.cited : named # {} /\ named \subseteq {f.id : f \in item.evidence}
  BY <1>2, <1>4, <1>5 DEF CitedEvidence
<1>7. \A part \in item.summary.parts : ~Asserts(part)
  BY <1>1, <1>2, <1>4, AllowedAssertsNothing
<1> QED
  BY <1>2, <1>6, <1>7 DEF SoundItem, item

LEMMA CoversNext ==
  ASSUME NEW items, NEW n \in Nat, Covers(items, n), NEW item, item.clause = n + 1
  PROVE  Covers(items \cup {item}, n + 1)
<1>1. item \notin items
  <2>1. \A i \in items : i.clause \in 1 .. n
    BY DEF Covers
  <2> QED
    BY <2>1
<1>2. IsFiniteSet(items \cup {item}) /\ Cardinality(items \cup {item}) = n + 1
  BY <1>1, FS_AddElement DEF Covers
<1>3. {i.clause : i \in items \cup {item}} = {i.clause : i \in items} \cup {n + 1}
  OBVIOUS
<1>4. (1 .. n) \cup {n + 1} = 1 .. n + 1
  OBVIOUS
<1> QED
  BY <1>2, <1>3, <1>4 DEF Covers

LEMMA CoversNone == Covers({}, 0)
  BY FS_EmptySet DEF Covers

LEMMA CoversWhole ==
  ASSUME NEW items, Clauses \in Nat
  PROVE  /\ Covers(items, Clauses) => Whole(items) /\ Amount(items) # "part"
         /\ Amount({}) = "nothing" /\ Amount(items) \in {"nothing", "all", "part"}
  BY DEF Covers, Whole, Amount, Clauses

-----------------------------------------------------------------------------
(* Counting calls.                                                         *)

LEMMA Products ==
  ASSUME NEW a \in Nat, NEW b \in Nat
  PROVE  a * b \in Nat /\ (a + 1) * b = a * b + b
  OBVIOUS

LEMMA Monotone ==
  ASSUME NEW a \in Nat, NEW b \in Nat, NEW c \in Nat, a <= b
  PROVE  a * c <= b * c
<1>1. PICK d \in Nat : b = a + d
  BY b - a \in Nat
<1>2. b * c = a * c + d * c
  BY <1>1
<1> QED
  BY <1>2, Products

\* A run may make another call within what is left for its attempt.
LEMMA RoomForCall ==
  ASSUME PipelineInv, run.at # "off"
  PROVE  /\ log.calls <= Newest.attempts * PerRun
         /\ run.at = "call" => log.calls + 1 <= Newest.attempts * PerRun
<1> DEFINE a == Newest.attempts
           done == run.next - 1
           K == PerRun
<1>1. /\ stored # None /\ Clauses \in Nat /\ ProviderAttempts \in Nat /\ K \in Nat
  BY StoredList, Products DEF PipelineInv, RunInv, StoredInv, PerRun
<1>2. a \in Nat /\ a - 1 \in Nat
  <2>1. Len(jobs) \in DOMAIN jobs /\ Newest \in Job
    BY DEF PipelineInv, Shape, RunInv, Newest
  <2> QED
    BY <2>1 DEF PipelineInv, RunInv, JobInv, Newest, Job
<1>3. done \in Nat /\ done <= Clauses /\ (run.at = "call" => done + 1 <= Clauses)
  BY <1>1 DEF PipelineInv, RunInv
<1>4. run.tries \in Nat /\ run.tries + 1 <= ProviderAttempts /\ log.calls \in Nat
  BY DEF PipelineInv, Shape, Run, Log
<1>5. log.calls <= (a - 1) * K + done * ProviderAttempts + IF run.at = "call" THEN run.tries ELSE 0
  BY DEF PipelineInv, RunInv, LogInv, Spent
<1>6. a * K = (a - 1) * K + K /\ (a - 1) * K \in Nat
  <2> DEFINE b == a - 1
  <2>1. b \in Nat /\ a = b + 1
    BY <1>2
  <2> HIDE DEF a, b, K
  <2>2. (b + 1) * K = b * K + K /\ b * K \in Nat
    BY <1>1, <2>1, Products
  <2> QED
    BY <2>1, <2>2 DEF b
<1>7. K = Clauses * ProviderAttempts
  BY <1>1 DEF PerRun
<1>8. done * ProviderAttempts \in Nat /\ done * ProviderAttempts <= K
  BY <1>1, <1>3, <1>7, Monotone, Products
<1>9. run.at = "call" => done * ProviderAttempts + ProviderAttempts <= K
  <2>1. (done + 1) * ProviderAttempts = done * ProviderAttempts + ProviderAttempts
    BY <1>1, <1>3, Products
  <2>2. done + 1 \in Nat
    BY <1>3
  <2> HIDE DEF done, K
  <2> QED
    BY <1>1, <1>3, <1>7, <2>1, <2>2, Monotone
<1> HIDE DEF a, done, K
<1>10. log.calls <= a * K
  <2>1. CASE run.at = "call"
    BY <1>1, <1>4, <1>5, <1>6, <1>8, <1>9, <2>1
  <2>2. CASE run.at # "call"
    BY <1>1, <1>4, <1>5, <1>6, <1>8, <2>2
  <2> QED
    BY <2>1, <2>2
<1>11. run.at = "call" => log.calls + 1 <= a * K
  BY <1>1, <1>4, <1>5, <1>6, <1>8, <1>9
<1> QED
  BY <1>10, <1>11 DEF a, K

-----------------------------------------------------------------------------
(* Three kinds of steps.                                                   *)

LEMMA InitPipeline == Init => PipelineInv
<1> SUFFICES ASSUME Init PROVE PipelineInv
  OBVIOUS
<1>1. NoRun \in Run /\ NewLog \in Log /\ NoReader \in Reader
  BY DEF NoRun, Run, Snapshots, NewLog, Log, NoReader, Reader, Statuses
<1>2. jobs \in Seq(Job) /\ Len(jobs) = 0 /\ DOMAIN jobs = {}
  BY DEF Init
<1>3. Shape
  BY <1>1, <1>2 DEF Init, Shape
<1> QED
  BY <1>2, <1>3 DEF Init, PipelineInv, StoredInv, RunInv, LogInv, ReaderInv, NoRun, NewLog, NoReader

\* Before there are clauses nothing has happened.
LEMMA NothingBefore ==
  ASSUME PipelineInv, stored = None
  PROVE  jobs = <<>> /\ run.at = "off" /\ reader.at = "idle" /\ log.calls = 0 /\ ~log.fatal
  BY DEF PipelineInv, StoredInv, RunInv, ReaderInv, LogInv

\* A new job, or a step that finds an active one; with it the clauses may be made.
LEMMA EnqueueStep ==
  ASSUME PipelineInv, Enqueue, UNCHANGED <<source, run, reader>>, StoredInv',
         stored' # None, stored = None \/ stored' = stored
  PROVE  PipelineInv'
<1>1. CASE UNCHANGED <<jobs, log>>
  <2>1. (\E j \in DOMAIN jobs : TRUE) => stored' = stored
    BY NothingBefore
  <2>2. jobs # <<>> => stored' = stored
    BY NothingBefore
  <2>3. \A j \in DOMAIN jobs : JobInv(j)'
    BY <1>1, <2>1 DEF PipelineInv, JobInv, Clauses
  <2>4. Shape'
    BY <1>1 DEF PipelineInv, Shape
  <2>5. RunInv' /\ LogInv' /\ ReaderInv'
    BY <1>1, <2>2, NothingBefore DEF PipelineInv, RunInv, LogInv, ReaderInv, Newest, Clauses, Spent, PerRun,
                                   Amount, Whole
  <2> QED
    BY <1>1, <2>3, <2>4, <2>5 DEF PipelineInv
<1>2. CASE /\ \A j \in DOMAIN jobs : ~IsActive(jobs[j])
           /\ Len(jobs) < MaxJobs
           /\ jobs' = Append(jobs, NewJob) /\ log' = NewLog
  <2> DEFINE n == Len(jobs)
  <2>1. jobs \in Seq(Job) /\ NewJob \in Job /\ NewLog \in Log
    BY DEF PipelineInv, Shape, NewJob, Job, Statuses, NewLog, Log
  <2>2. /\ n \in Nat /\ jobs' \in Seq(Job) /\ Len(jobs') = n + 1 /\ jobs'[n + 1] = NewJob
        /\ \A j \in 1 .. n : jobs'[j] = jobs[j]
        /\ DOMAIN jobs = 1 .. n /\ DOMAIN jobs' = 1 .. n + 1
    BY <1>2, <2>1
  <2>3. Shape'
    BY <1>2, <2>1, <2>2 DEF PipelineInv, Shape
  <2>4. run.at = "off"
    BY <1>2, <2>2 DEF PipelineInv, RunInv, Newest, IsActive
  <2>5. ASSUME NEW j \in DOMAIN jobs' PROVE JobInv(j)'
    <3>1. CASE j = n + 1
      BY <2>2, <3>1 DEF JobInv, NewJob
    <3>2. CASE j \in DOMAIN jobs
      <4>1. stored' = stored
        BY <2>2, <3>2, NothingBefore
      <4>2. JobInv(j) /\ jobs'[j] = jobs[j] /\ ~IsActive(jobs[j])
        BY <1>2, <2>2, <3>2 DEF PipelineInv
      <4> QED
        BY <4>1, <4>2 DEF JobInv, Clauses
    <3> QED
      BY <2>2, <3>1, <3>2
  <2>6. RunInv'
    BY <2>4 DEF RunInv
  <2>7. Clauses' \in Nat
    BY <2>3, ListOfClauses DEF Shape, StoredInv, Clauses
  <2>8. LogInv'
    <3>1. Newest'.attempts = 0 /\ jobs' # <<>>
      BY <2>2 DEF Newest, NewJob
    <3>2. PerRun' \in Nat
      BY <2>7, Products DEF PerRun
    <3>3. Spent' = Newest'.attempts * PerRun'
      BY <2>4 DEF Spent
    <3>4. Spent' = 0
      <4> HIDE DEF n
      <4>1. \A k \in Nat : 0 * k = 0
        OBVIOUS
      <4> QED
        BY <3>1, <3>2, <3>3, <4>1
    <3> QED
      BY <1>2, <3>1, <3>4 DEF LogInv, NewLog
  <2>9. ReaderInv'
    <3>1. reader.at # "idle" => stored' = stored /\ reader.job \in 1 .. n
      BY <2>2, NothingBefore DEF PipelineInv, ReaderInv
    <3> QED
      BY <2>2, <3>1 DEF PipelineInv, ReaderInv, Amount, Whole
  <2> QED
    BY <2>3, <2>5, <2>6, <2>8, <2>9 DEF PipelineInv
<1> QED
  BY <1>1, <1>2 DEF Enqueue

\* A step within a run.
LEMMA WithinRun ==
  ASSUME PipelineInv, run.at # "off", UNCHANGED <<source, stored, jobs, reader>>,
         run' \in Run, log' \in Log, RunInv', log'.fatal = log.fatal, log'.calls <= Spent'
  PROVE  PipelineInv'
<1>1. Shape' /\ StoredInv'
  BY DEF PipelineInv, Shape, StoredInv
<1>2. \A j \in DOMAIN jobs : JobInv(j)'
  BY DEF PipelineInv, JobInv, Clauses
<1>3. LogInv' /\ ReaderInv'
  BY DEF PipelineInv, RunInv, LogInv, Newest, ReaderInv, Amount, Whole
<1> QED
  BY <1>1, <1>2, <1>3 DEF PipelineInv

\* The end of a run: its job becomes `ended`.
LEMMA EndOfRun ==
  ASSUME PipelineInv, run.at # "off", UNCHANGED <<source, stored, reader>>,
         NEW ended \in Job, jobs' = [jobs EXCEPT ![run.job] = ended], run' = NoRun, log' \in Log,
         ended.attempts = Newest.attempts, ended.status # "running",
         ended.status = "pending" => ended.attempts < MaxAttempts,
         IF ended.status = "completed" THEN ended.items = run.items /\ run.next = Clauses + 1
                                       ELSE ended.items = {},
         log'.calls <= Newest.attempts * PerRun, log'.fatal => ended.status = "failed"
  PROVE  PipelineInv'
<1> DEFINE n == Len(jobs)
<1>1. /\ jobs \in Seq(Job) /\ n \in Nat /\ run.job = n /\ n \in DOMAIN jobs /\ Newest = jobs[n]
      /\ Newest.status = "running" /\ DOMAIN jobs = 1 .. n
  BY DEF PipelineInv, Shape, RunInv, Newest
<1>2. /\ jobs' \in Seq(Job) /\ Len(jobs') = n /\ jobs'[n] = ended /\ DOMAIN jobs' = DOMAIN jobs
      /\ \A j \in DOMAIN jobs \ {n} : jobs'[j] = jobs[j]
  BY <1>1
<1>3. run'.at = "off" /\ NoRun \in Run /\ jobs' # <<>> /\ Newest' = ended
  BY <1>1, <1>2 DEF NoRun, Run, Snapshots, Newest
<1>4. Shape' /\ StoredInv' /\ RunInv'
  BY <1>1, <1>2, <1>3 DEF PipelineInv, Shape, StoredInv, RunInv
<1>5. Clauses \in Nat /\ Clauses' = Clauses /\ PerRun' = PerRun
  BY StoredList DEF PipelineInv, RunInv, StoredInv, Clauses, PerRun
<1>6. ASSUME NEW j \in DOMAIN jobs' PROVE JobInv(j)'
  <2>1. CASE j = n
    <3>1. ended.status = "completed" => Covers(ended.items, Clauses)
      BY <1>5 DEF PipelineInv, RunInv
    <3>2. \A item \in ended.items : SoundItem(item)
      BY DEF PipelineInv, RunInv
    <3> QED
      BY <1>2, <1>5, <2>1, <3>1, <3>2 DEF JobInv
  <2>2. CASE j # n
    BY <1>2, <1>5, <2>2 DEF PipelineInv, JobInv
  <2> QED
    BY <2>1, <2>2
<1>7. LogInv'
  BY <1>3, <1>5 DEF LogInv, Spent
<1>8. ReaderInv'
  <2>1. reader.at # "idle" /\ reader.status \in {"completed", "failed"} => reader.job # n
    BY <1>1 DEF PipelineInv, ReaderInv
  <2> QED
    BY <1>2, <2>1 DEF PipelineInv, ReaderInv, Amount, Whole
<1> QED
  BY <1>4, <1>6, <1>7, <1>8 DEF PipelineInv

-----------------------------------------------------------------------------
(* Every action.                                                           *)

\* The job of a run, and where it may go.
LEMMA JobOfRun ==
  ASSUME PipelineInv, run.at # "off"
  PROVE  /\ jobs[run.job] = Newest /\ Newest \in Job /\ Newest.items = {} /\ Newest.status = "running"
         /\ ~log.fatal /\ stored # None /\ Clauses \in Nat /\ run.next \in Nat /\ run \in Run
         /\ \A status \in Statuses : /\ Ends(Newest, status) \in Job
                                     /\ Ends(Newest, status).status = status
                                     /\ Ends(Newest, status).attempts = Newest.attempts
                                     /\ Ends(Newest, status).items = {}
<1>1. /\ jobs[run.job] = Newest /\ Newest \in Job /\ Newest.status = "running" /\ JobInv(Len(jobs))
  BY DEF PipelineInv, Shape, RunInv, Newest
<1>2. Newest.items = {} /\ ~log.fatal
  BY <1>1 DEF PipelineInv, JobInv, LogInv, Newest
<1>3. stored # None /\ Clauses \in Nat /\ run.next \in Nat /\ run \in Run
  BY StoredList DEF PipelineInv, Shape, RunInv, StoredInv
<1>4. ASSUME NEW status \in Statuses
      PROVE  /\ Ends(Newest, status) \in Job /\ Ends(Newest, status).status = status
             /\ Ends(Newest, status).attempts = Newest.attempts /\ Ends(Newest, status).items = {}
  BY <1>1, <1>2 DEF Ends, Job
<1> QED
  BY <1>1, <1>2, <1>3, <1>4

\* What Spent is made of.
LEMMA BaseIsNumber ==
  ASSUME PipelineInv, run.at # "off"
  PROVE  /\ (Newest.attempts - 1) * PerRun \in Int
         /\ (Newest.attempts - 1) * PerRun + (run.next - 1) * ProviderAttempts \in Int
<1>1. Newest.attempts - 1 \in Int /\ PerRun \in Int /\ run.next - 1 \in Int
  BY JobOfRun DEF Job, PerRun
<1>2. \A a, b \in Int : a * b \in Int
  OBVIOUS
<1> QED
  BY <1>1, <1>2

LEMMA FailsStep ==
  ASSUME PipelineInv, run.at # "off", NEW retryable \in BOOLEAN, NEW calls \in {0, 1},
         NEW fault \in BOOLEAN, Fails(retryable, calls, fault), calls = 1 => run.at = "call"
  PROVE  PipelineInv'
<1> DEFINE again == retryable /\ Newest.attempts < MaxAttempts
           status == IF again THEN "pending" ELSE "failed"
           ended == Ends(Newest, status)
<1>1. status \in Statuses /\ status \notin {"running", "completed"}
      /\ (status = "pending" => retryable /\ Newest.attempts < MaxAttempts)
      /\ (~retryable => status = "failed")
  BY DEF Statuses
<1>2. /\ jobs' = [jobs EXCEPT ![run.job] = ended] /\ run' = NoRun
      /\ log' = [calls |-> log.calls + calls, fatal |-> ~retryable, fault |-> log.fault \/ fault]
      /\ UNCHANGED <<source, stored, reader>>
  BY JobOfRun DEF Fails
<1> HIDE DEF status
<1>3. /\ ended \in Job /\ ended.status = status /\ ended.attempts = Newest.attempts
      /\ ended.items = {}
  BY <1>1, JobOfRun
<1>4. log' \in Log /\ log'.calls = log.calls + calls /\ (log'.fatal => status = "failed")
  <2>1. log.calls + calls \in Nat /\ (log.fault \/ fault) \in BOOLEAN
    BY DEF PipelineInv, Shape, Log
  <2> QED
    BY <1>1, <1>2, <2>1 DEF Log
<1>5. log'.calls <= Newest.attempts * PerRun
  <2>1. log.calls \in Nat
    BY DEF PipelineInv, Shape, Log
  <2> QED
    BY <1>4, <2>1, RoomForCall
<1> HIDE DEF ended
<1> QED
  BY <1>1, <1>2, <1>3, <1>4, <1>5, EndOfRun

LEMMA CrashStep == ASSUME PipelineInv, Crash PROVE PipelineInv'
<1> DEFINE status == IF Newest.attempts < MaxAttempts THEN "pending" ELSE "failed"
           ended == Ends(Newest, status)
<1>1. status \in Statuses /\ status \notin {"running", "completed"}
      /\ (status = "pending" => Newest.attempts < MaxAttempts)
  BY DEF Statuses
<1>2. /\ jobs' = [jobs EXCEPT ![run.job] = ended] /\ run' = NoRun /\ run.at # "off"
      /\ log' = [log EXCEPT !.fault = TRUE] /\ UNCHANGED <<source, stored, reader>>
  BY JobOfRun DEF Crash, InRun
<1> HIDE DEF status
<1>3. /\ ended \in Job /\ ended.status = status /\ ended.attempts = Newest.attempts
      /\ ended.items = {}
  BY <1>1, <1>2, JobOfRun
<1>4. log' \in Log /\ log'.calls = log.calls /\ ~log'.fatal
  BY <1>2, JobOfRun DEF PipelineInv, Shape, Log
<1> HIDE DEF ended
<1> QED
  BY <1>1, <1>2, <1>3, <1>4, RoomForCall, EndOfRun

LEMMA FinishStep == ASSUME PipelineInv, Finish PROVE PipelineInv'
<1>1. run.at = "next" /\ run.next > Len(stored)
  BY DEF Finish, InRun
<1>2. CASE Fails(FALSE, 0, TRUE)
  <2>1. FALSE \in BOOLEAN /\ TRUE \in BOOLEAN /\ 0 \in {0, 1} /\ (0 = 1 => run.at = "call")
    OBVIOUS
  <2>2. run.at # "off"
    BY <1>1
  <2> QED
    BY <1>2, <2>1, <2>2, FailsStep, Zenon
<1>3. CASE /\ jobs' = [jobs EXCEPT ![run.job] = [Ends(@, "completed") EXCEPT !.items = run.items]]
           /\ run' = NoRun
           /\ UNCHANGED <<source, stored, log, reader>>
  <2> DEFINE ended == [Ends(Newest, "completed") EXCEPT !.items = run.items]
  <2>1. jobs' = [jobs EXCEPT ![run.job] = ended]
    BY <1>1, <1>3, JobOfRun
  <2>2. run.items \in SUBSET Items
    BY <1>1, JobOfRun DEF Run
  <2>3. /\ ended \in Job /\ ended.status = "completed" /\ ended.attempts = Newest.attempts
        /\ ended.items = run.items
    <3>1. "completed" \in Statuses
      BY DEF Statuses
    <3> QED
      BY <1>1, <2>2, <3>1, JobOfRun DEF Job
  <2>4. run.next = Clauses + 1
    BY <1>1, JobOfRun DEF PipelineInv, RunInv, Clauses
  <2>5. log' \in Log /\ log'.calls = log.calls /\ ~log'.fatal
    BY <1>1, <1>3, JobOfRun DEF PipelineInv, Shape
  <2> HIDE DEF ended
  <2> QED
    BY <1>1, <1>3, <2>1, <2>3, <2>4, <2>5, RoomForCall, EndOfRun
<1> QED
  BY <1>2, <1>3 DEF Finish

LEMMA ClaimStep == ASSUME PipelineInv, Claim PROVE PipelineInv'
<1>1. run.at = "off" /\ UNCHANGED <<source, stored, log, reader>>
  BY DEF Claim, InRun
<1> DEFINE n == Len(jobs)
<1>2. PICK j \in DOMAIN jobs : /\ jobs[j].status = "pending" /\ run' = NewRun(j)
        /\ jobs' = [jobs EXCEPT ![j].status = "running", ![j].attempts = @ + 1]
  BY DEF Claim
<1>3. /\ jobs \in Seq(Job) /\ n \in Nat /\ j = n /\ jobs # <<>> /\ Newest = jobs[n]
      /\ Newest.status = "pending" /\ DOMAIN jobs = 1 .. n /\ JobInv(n)
  BY <1>2 DEF PipelineInv, Shape, JobInv, IsActive, Newest
<1> DEFINE more == Newest.attempts + 1
           claimed == [Newest EXCEPT !.status = "running", !.attempts = more]
<1>4. Newest \in Job /\ more \in 1 .. MaxAttempts /\ Newest.items = {} /\ Newest.attempts \in Nat
  <2> HIDE DEF claimed, more
  <2>1. Newest \in Job /\ Newest.attempts \in 0 .. MaxAttempts
    <3>1. jobs[n] \in Job
      BY <1>3
    <3>2. \A job \in Job : job.attempts \in 0 .. MaxAttempts
      BY DEF Job
    <3> HIDE DEF n
    <3> QED
      BY <1>3, <3>1, <3>2
  <2>2. Newest.attempts < MaxAttempts /\ Newest.items = {}
    BY <1>3 DEF JobInv
  <2> QED
    BY <2>1, <2>2 DEF more
<1>5. claimed \in Job /\ claimed.status = "running" /\ claimed.attempts = more /\ claimed.items = {}
  <2> HIDE DEF more
  <2>1. more \in 0 .. MaxAttempts
    BY <1>4
  <2> QED
    BY <1>4, <2>1 DEF Job, Statuses
<1>6. jobs' = [jobs EXCEPT ![n] = claimed]
  BY <1>2, <1>3
<1> HIDE DEF claimed, more
<1>7. /\ jobs' \in Seq(Job) /\ Len(jobs') = n /\ jobs'[n] = claimed /\ DOMAIN jobs' = DOMAIN jobs
      /\ \A k \in DOMAIN jobs \ {n} : jobs'[k] = jobs[k]
  BY <1>3, <1>5, <1>6
<1>8. Newest' = claimed /\ jobs' # <<>>
  BY <1>3, <1>7 DEF Newest
<1>9. run' \in Run /\ run'.at = "load" /\ run'.job = n /\ run'.next = 1 /\ run'.items = {}
      /\ run'.tries = 0
  <2>1. 0 \in 0 .. ProviderAttempts - 1 /\ <<>> \in Snapshots
    BY DEF Snapshots
  <2> QED
    BY <1>2, <1>3, <2>1 DEF NewRun, Run
<1>10. Clauses \in Nat /\ Clauses' = Clauses /\ PerRun' = PerRun /\ PerRun \in Nat
  BY <1>1, <1>3, StoredList, Products DEF PipelineInv, StoredInv, Clauses, PerRun
<1>11. Shape' /\ StoredInv'
  BY <1>1, <1>3, <1>7, <1>9 DEF PipelineInv, Shape, StoredInv
<1>12. RunInv'
  <2>1. Covers(run'.items, run'.next - 1)
    BY <1>9, CoversNone
  <2> QED
    BY <1>5, <1>7, <1>8, <1>9, <1>10, <2>1 DEF RunInv
<1>13. ASSUME NEW k \in DOMAIN jobs' PROVE JobInv(k)'
  <2>1. CASE k = n
    BY <1>4, <1>5, <1>7, <2>1 DEF JobInv, more
  <2>2. CASE k # n
    BY <1>7, <1>10, <2>2 DEF PipelineInv, JobInv
  <2> QED
    BY <2>1, <2>2
<1>14. LogInv'
  <2>1. log.calls <= Newest.attempts * PerRun /\ ~log.fatal
    BY <1>1, <1>3 DEF PipelineInv, LogInv, Spent
  <2>2. Spent' = (more - 1) * PerRun + (1 - 1) * ProviderAttempts + 0
    BY <1>5, <1>8, <1>9, <1>10 DEF Spent
  <2>3. more - 1 = Newest.attempts /\ (1 - 1) * ProviderAttempts = 0
    BY <1>4 DEF more
  <2>4. Newest.attempts * PerRun \in Nat
    BY <1>4, <1>10, Products
  <2>5. Spent' = Newest.attempts * PerRun
    BY <2>2, <2>3, <2>4
  <2> QED
    BY <1>1, <1>8, <2>1, <2>5 DEF LogInv
<1>15. ReaderInv'
  <2>1. reader.at # "idle" /\ reader.status \in {"completed", "failed"} => reader.job # n
    BY <1>3 DEF PipelineInv, ReaderInv
  <2> QED
    BY <1>1, <1>7, <2>1 DEF PipelineInv, ReaderInv, Amount, Whole
<1> QED
  BY <1>11, <1>12, <1>13, <1>14, <1>15 DEF PipelineInv

LEMMA LoadStep == ASSUME PipelineInv, LoadSnapshot PROVE PipelineInv'
<1>1. run.at = "load" /\ UNCHANGED <<source, stored, jobs, reader>>
  BY DEF LoadSnapshot, InRun
<1>2. PICK snapshot \in Snapshots : run' = [run EXCEPT !.at = "next", !.snapshot = snapshot]
  <2> DEFINE chosen == IF IsText THEN <<>> ELSE SnapshotOf(source.parts)
  <2>1. chosen \in Snapshots /\ run.snapshot \in Snapshots /\ run \in Run
    BY DEF PipelineInv, Shape, Run, Snapshots
  <2>2. run' = [run EXCEPT !.at = "next", !.snapshot = chosen] \/ run' = [run EXCEPT !.at = "next"]
    BY DEF LoadSnapshot
  <2> HIDE DEF chosen
  <2>3. [run EXCEPT !.at = "next"] = [run EXCEPT !.at = "next", !.snapshot = run.snapshot]
    BY <2>1 DEF Run
  <2> QED
    BY <2>1, <2>2, <2>3
<1>3. /\ run \in Run /\ run' \in Run /\ run'.at = "next" /\ run'.next = run.next
      /\ run'.items = run.items /\ run'.job = run.job
  BY <1>2 DEF PipelineInv, Shape, Run
<1>4. log' \in Log /\ log'.calls = log.calls /\ log'.fatal = log.fatal
  BY DEF LoadSnapshot, PipelineInv, Shape, Log
<1>5. RunInv'
  BY <1>1, <1>3 DEF PipelineInv, RunInv, Newest, Clauses
<1>6. log'.calls <= Spent'
  <2>1. Spent' = Spent
    <3>1. Newest' = Newest /\ PerRun' = PerRun
      BY <1>1 DEF Newest, PerRun, Clauses
    <3> QED
      BY <1>1, <1>3, <3>1 DEF Spent
  <2> QED
    BY <1>1, <1>4, <2>1 DEF PipelineInv, RunInv, LogInv
<1> QED
  BY <1>1, <1>3, <1>4, <1>5, <1>6, WithinRun

LEMMA PrepareStep == ASSUME PipelineInv, PrepareClause PROVE PipelineInv'
<1>1. run.at = "next" /\ run.next <= Clauses
  BY DEF PrepareClause, InRun, Clauses
<1>2. CASE Fails(FALSE, 0, FALSE)
  <2>1. FALSE \in BOOLEAN /\ 0 \in {0, 1} /\ (0 = 1 => run.at = "call")
    OBVIOUS
  <2>2. run.at # "off"
    BY <1>1
  <2> QED
    BY <1>2, <2>1, <2>2, FailsStep, Zenon
<1>3. CASE /\ run' = [run EXCEPT !.at = "call", !.tries = 0]
           /\ UNCHANGED <<source, stored, jobs, log, reader>>
  <2>1. run \in Run /\ 0 \in 0 .. ProviderAttempts - 1
    BY DEF PipelineInv, Shape
  <2>2. /\ run' \in Run /\ run'.at = "call" /\ run'.next = run.next /\ run'.tries = 0
        /\ run'.items = run.items /\ run'.job = run.job
    BY <1>3, <2>1 DEF Run
  <2>3. RunInv'
    BY <1>1, <1>3, <2>2 DEF PipelineInv, RunInv, Newest, Clauses
  <2>4. log' \in Log /\ log'.fatal = log.fatal
    BY <1>3 DEF PipelineInv, Shape
  <2>5. Newest' = Newest /\ PerRun' = PerRun
    BY <1>3 DEF Newest, PerRun, Clauses
  <2>6. Spent' = Spent
    BY <1>1, <2>2, <2>5 DEF Spent
  <2>7. log'.calls <= Spent'
    BY <1>1, <1>3, <2>6 DEF PipelineInv, RunInv, LogInv
  <2>8. run.at # "off"
    BY <1>1
  <2> QED
    BY <1>3, <2>2, <2>3, <2>4, <2>7, <2>8, WithinRun
<1> QED
  BY <1>2, <1>3 DEF PrepareClause

LEMMA RaisesStep == ASSUME PipelineInv, InRun("call"), CallFails PROVE PipelineInv'
<1>0. run.at = "call" /\ run.at # "off"
  BY DEF InRun
<1>1. PICK error \in Errors :
        IF Retryable(error) /\ run.tries + 1 < ProviderAttempts
        THEN /\ run' = [run EXCEPT !.tries = @ + 1] /\ log' = [log EXCEPT !.calls = @ + 1]
             /\ UNCHANGED <<source, stored, jobs, reader>>
        ELSE Fails(Retryable(error), 1, TRUE)
  BY DEF CallFails
<1>2. CASE Fails(Retryable(error), 1, TRUE)
  <2>1. Retryable(error) \in BOOLEAN /\ TRUE \in BOOLEAN /\ 1 \in {0, 1}
    BY DEF Retryable
  <2> QED
    BY <1>0, <1>2, <2>1, FailsStep, Zenon
<1>3. CASE /\ run.tries + 1 < ProviderAttempts
           /\ run' = [run EXCEPT !.tries = @ + 1] /\ log' = [log EXCEPT !.calls = @ + 1]
           /\ UNCHANGED <<source, stored, jobs, reader>>
  <2>1. run \in Run /\ run.tries \in Nat /\ run.tries + 1 \in 0 .. ProviderAttempts - 1
    BY <1>3 DEF PipelineInv, Shape, Run
  <2>2. /\ run' \in Run /\ run'.at = "call" /\ run'.next = run.next /\ run'.tries = run.tries + 1
        /\ run'.items = run.items /\ run'.job = run.job
    BY <1>0, <1>3, <2>1 DEF Run
  <2>3. RunInv'
    BY <1>0, <1>3, <2>2 DEF PipelineInv, RunInv, Newest, Clauses
  <2>4. /\ log' \in Log /\ log'.fatal = log.fatal /\ log'.calls = log.calls + 1 /\ log.calls \in Nat
    BY <1>3 DEF PipelineInv, Shape, Log
  <2>5. log'.calls <= Spent'
    <3> DEFINE base == (Newest.attempts - 1) * PerRun + (run.next - 1) * ProviderAttempts
    <3>1. Newest' = Newest /\ PerRun' = PerRun
      BY <1>3 DEF Newest, PerRun, Clauses
    <3>2. Spent = base + run.tries /\ Spent' = base + (run.tries + 1)
      BY <1>0, <2>2, <3>1 DEF Spent
    <3>3. base \in Int
      BY BaseIsNumber, <1>0
    <3>4. log.calls <= Spent
      BY <1>0 DEF PipelineInv, RunInv, LogInv
    <3> HIDE DEF base
    <3> QED
      BY <2>1, <2>4, <3>2, <3>3, <3>4
  <2> QED
    BY <1>0, <1>3, <2>2, <2>3, <2>4, <2>5, WithinRun
<1> QED
  BY <1>1, <1>2, <1>3

LEMMA ItemKept ==
  ASSUME Shape, StoredInv, stored # None, NEW r \in Responses, NEW i \in Nat
  PROVE  Item(i, r, Bind(stored[i], Quote(stored[i].text), run.snapshot).items) \in Items
  BY DEF Shape, StoredInv, Run, Items

LEMMA AnswersStep == ASSUME PipelineInv, InRun("call"), CallAnswers PROVE PipelineInv'
<1>0. run.at = "call" /\ run.at # "off"
  BY DEF InRun
<1> DEFINE bound == Bind(Clause, Quote(Clause.text), run.snapshot)
<1>1. PICK r \in Responses :
        IF Accepts(r, bound)
        THEN /\ run' = [run EXCEPT !.at = "next", !.next = @ + 1,
                                   !.items = @ \cup {Item(run.next, r, bound.items)}]
             /\ log' = [log EXCEPT !.calls = @ + 1]
             /\ UNCHANGED <<source, stored, jobs, reader>>
        ELSE Fails(FALSE, 1, ~(ContractAccepts(r) /\ ResultAccepts(r) /\ CitedEvidence(r, {1})))
  BY DEF CallAnswers
<1> DEFINE fault == ~(ContractAccepts(r) /\ ResultAccepts(r) /\ CitedEvidence(r, {1}))
           item == Item(run.next, r, bound.items)
<1>2. CASE Fails(FALSE, 1, fault)
  <2>1. FALSE \in BOOLEAN /\ fault \in BOOLEAN /\ 1 \in {0, 1}
    OBVIOUS
  <2> HIDE DEF fault
  <2> QED
    BY <1>0, <1>2, <2>1, FailsStep, Zenon
<1>3. CASE /\ Accepts(r, bound)
           /\ run' = [run EXCEPT !.at = "next", !.next = @ + 1, !.items = @ \cup {item}]
           /\ log' = [log EXCEPT !.calls = @ + 1]
           /\ UNCHANGED <<source, stored, jobs, reader>>
  <2>1. SoundItem(item) /\ item.clause = run.next
    BY <1>3, AcceptedIsSound
  <2>2. item \in Items
    BY <1>0, JobOfRun, ItemKept DEF Clause, PipelineInv
  <2> HIDE DEF item
  <2>3. run \in Run /\ run.next \in Nat /\ run.next + 1 \in Nat /\ run.items \cup {item} \in SUBSET Items
    BY <1>0, <2>2, JobOfRun DEF Run
  <2>4. /\ run' \in Run /\ run'.at = "next" /\ run'.next = run.next + 1
        /\ run'.items = run.items \cup {item} /\ run'.job = run.job
    BY <1>3, <2>3 DEF Run
  <2>5. Covers(run'.items, run'.next - 1)
    <3> DEFINE n == run.next - 1
    <3>1. n \in Nat /\ Covers(run.items, n) /\ item.clause = n + 1 /\ run'.next - 1 = n + 1
      BY <1>0, <2>1, <2>3, <2>4 DEF PipelineInv, RunInv
    <3> HIDE DEF n
    <3>2. Covers(run.items \cup {item}, n + 1)
      BY <3>1, CoversNext
    <3> QED
      BY <2>4, <3>1, <3>2
  <2>6. RunInv'
    <3>1. Clauses' = Clauses /\ Clauses \in Nat /\ Newest' = Newest
      BY <1>0, <1>3, JobOfRun DEF Clauses, Newest
    <3>2. run'.next \in 1 .. Clauses' + 1
      BY <1>0, <2>3, <2>4, <3>1 DEF PipelineInv, RunInv
    <3>3. \A i \in run'.items : SoundItem(i)
      BY <1>0, <2>1, <2>4 DEF PipelineInv, RunInv
    <3> QED
      BY <1>0, <1>3, <2>4, <2>5, <3>1, <3>2, <3>3 DEF PipelineInv, RunInv
  <2>7. /\ log' \in Log /\ log'.fatal = log.fatal /\ log'.calls = log.calls + 1 /\ log.calls \in Nat
    BY <1>3 DEF PipelineInv, Shape, Log
  <2>8. log'.calls <= Spent'
    <3> DEFINE first == (Newest.attempts - 1) * PerRun
               done == run.next - 1
    <3>1. Newest' = Newest /\ PerRun' = PerRun
      BY <1>3 DEF Newest, PerRun, Clauses
    <3>2. /\ Spent = first + done * ProviderAttempts + run.tries
          /\ Spent' = first + (run.next + 1 - 1) * ProviderAttempts + 0
      <4>1. Spent = first + done * ProviderAttempts + run.tries
        BY <1>0 DEF Spent
      <4>2. Spent' = (Newest'.attempts - 1) * PerRun' + (run'.next - 1) * ProviderAttempts + 0
        <5>1. run'.at # "off" /\ run'.at # "call"
          BY <2>4
        <5> QED
          BY <5>1, Zenon DEF Spent
      <4> HIDE DEF done
      <4>3. Spent' = (Newest.attempts - 1) * PerRun + (run.next + 1 - 1) * ProviderAttempts + 0
        <5>1. Newest'.attempts = Newest.attempts /\ PerRun' = PerRun /\ run'.next = run.next + 1
          BY <2>4, <3>1
        <5>2. run'.next - 1 = run.next + 1 - 1 /\ Newest'.attempts - 1 = Newest.attempts - 1
          <6>1. run'.next - 1 = run.next + 1 - 1
            BY <2>3, <2>4
          <6>2. Newest'.attempts - 1 = Newest.attempts - 1
            BY <3>1, Zenon
          <6> QED
            BY <6>1, <6>2
        <5>3. (run'.next - 1) * ProviderAttempts = (run.next + 1 - 1) * ProviderAttempts
          BY <5>2
        <5>4. (Newest'.attempts - 1) * PerRun' = (Newest.attempts - 1) * PerRun
          BY <5>1, <5>2
        <5> QED
          BY <4>2, <5>3, <5>4
      <4> QED
        BY <4>1, <4>3
    <3>3. first \in Int /\ done \in Nat /\ run.next = done + 1
      BY <1>0, <2>3, BaseIsNumber DEF PipelineInv, RunInv
    <3>4. log.calls <= Spent /\ run.tries \in Nat /\ run.tries + 1 <= ProviderAttempts
      BY <1>0, <2>3 DEF PipelineInv, RunInv, LogInv, Run
    <3> HIDE DEF first, done
    <3>5. (done + 1) * ProviderAttempts = done * ProviderAttempts + ProviderAttempts
          /\ done * ProviderAttempts \in Nat
      BY <3>3, Products
    <3>6. run.next + 1 - 1 = done + 1
      BY <3>3
    <3>7. Spent' = first + (done * ProviderAttempts + ProviderAttempts)
      BY <3>2, <3>3, <3>5, <3>6
    <3> QED
      BY <2>7, <3>2, <3>3, <3>4, <3>5, <3>7
  <2> QED
    BY <1>0, <1>3, <2>4, <2>6, <2>7, <2>8, WithinRun
<1> QED
  BY <1>1, <1>2, <1>3

\* The clauses that are made are those of the document.
LEMMA ClausesMade ==
  ASSUME PipelineInv, ~SplitOf(source).broken, source' = source,
         stored' = StoredClauses(SplitOf(source).clauses)
  PROVE  StoredInv' /\ stored' # None
<1>1. source \in Documents
  BY DEF PipelineInv, Shape
<1>2. stored' # None
  BY <1>1, ListOfClauses
<1>3. ~SplitOf(source').broken /\ stored' = StoredClauses(SplitOf(source').clauses)
  OBVIOUS
<1> QED
  BY <1>2, <1>3 DEF StoredInv

LEMMA UploadStep == ASSUME PipelineInv, Upload PROVE PipelineInv'
<1>1. /\ stored = None /\ ~SplitOf(source).broken /\ UNCHANGED <<source, jobs, run, log, reader>>
      /\ stored' = StoredClauses(SplitOf(source).clauses)
  BY DEF Upload
<1>2. jobs = <<>> /\ run.at = "off" /\ reader.at = "idle" /\ log.calls = 0 /\ ~log.fatal
  BY <1>1, NothingBefore
<1>3. StoredInv'
  BY <1>1, ClausesMade
<1>4. Shape'
  BY <1>1 DEF PipelineInv, Shape
<1>5. RunInv' /\ LogInv' /\ ReaderInv'
  BY <1>1, <1>2 DEF RunInv, LogInv, ReaderInv
<1>6. \A j \in DOMAIN jobs' : JobInv(j)'
  <2>1. DOMAIN jobs' = {}
    BY <1>1, <1>2
  <2> QED
    BY <2>1
<1> QED
  BY <1>3, <1>4, <1>5, <1>6 DEF PipelineInv

LEMMA RequestStep ==
  ASSUME PipelineInv, RequestForDocument \/ RequestForExtraction PROVE PipelineInv'
<1>1. CASE RequestForDocument
  <2>1. /\ stored # None /\ stored' = stored /\ Enqueue /\ UNCHANGED <<source, run, reader>>
    BY <1>1 DEF RequestForDocument
  <2>2. StoredInv'
    <3>1. ~SplitOf(source).broken /\ stored = StoredClauses(SplitOf(source).clauses)
      BY <2>1 DEF PipelineInv, StoredInv
    <3> QED
      BY <2>1, <3>1, ClausesMade
  <2> QED
    BY <2>1, <2>2, EnqueueStep
<1>2. CASE RequestForExtraction
  <2>1. /\ stored = None /\ ~SplitOf(source).broken /\ Enqueue /\ UNCHANGED <<source, run, reader>>
        /\ stored' = StoredClauses(SplitOf(source).clauses)
    BY <1>2 DEF RequestForExtraction
  <2> QED
    BY <2>1, ClausesMade, EnqueueStep
<1> QED
  BY <1>1, <1>2

\* What a reader may find in a job.
LEMMA AmountOfJob ==
  ASSUME PipelineInv, NEW j \in DOMAIN jobs
  PROVE  /\ Amount(jobs[j].items) \in {"nothing", "all"} /\ jobs[j].status \in Statuses
         /\ jobs[j].status = "failed" => Amount(jobs[j].items) = "nothing"
<1>1. jobs[j] \in Job /\ JobInv(j) /\ jobs # <<>>
  BY DEF PipelineInv, Shape
<1>2. Clauses \in Nat
  BY <1>1, StoredList DEF PipelineInv, StoredInv
<1>3. CASE jobs[j].status = "completed"
  BY <1>1, <1>2, <1>3, CoversWhole DEF JobInv, Job
<1>4. CASE jobs[j].status # "completed"
  BY <1>1, <1>2, <1>4, CoversWhole DEF JobInv, Job
<1> QED
  BY <1>3, <1>4

\* A step of the reader changes nothing of the rest.
LEMMA ReadStep ==
  ASSUME PipelineInv, ReadJob \/ ReadItems PROVE PipelineInv'
<1>1. UNCHANGED <<source, stored, jobs, run, log>>
  BY DEF ReadJob, ReadItems
<1>2. reader' \in Reader /\ ReaderInv'
  <2>1. CASE ReadJob
    <3> DEFINE n == Len(jobs)
    <3>1. n \in Nat /\ n \in DOMAIN jobs
      BY <2>1 DEF ReadJob, PipelineInv, Shape
    <3>2. jobs[n].status \in Statuses
      BY <3>1, AmountOfJob
    <3>3. reader' = [at |-> "items", job |-> n, status |-> jobs[n].status, got |-> "nothing"]
      BY <2>1 DEF ReadJob
    <3> HIDE DEF n
    <3> QED
      BY <1>1, <3>1, <3>2, <3>3 DEF Reader, ReaderInv
  <2>2. CASE ReadItems
    <3> DEFINE j == reader.job
               seen == Amount(jobs[j].items)
    <3>1. reader \in Reader /\ reader.at = "items" /\ j \in DOMAIN jobs
          /\ (reader.status \in {"completed", "failed"} => jobs[j].status = reader.status)
      BY <2>2 DEF ReadItems, PipelineInv, Shape, ReaderInv
    <3>2. seen \in {"nothing", "all"} /\ (jobs[j].status = "failed" => seen = "nothing")
      BY <3>1, AmountOfJob
    <3>3. reader' = [reader EXCEPT !.at = "done", !.got = seen]
      BY <2>2 DEF ReadItems
    <3> HIDE DEF seen
    <3>4. /\ reader' \in Reader /\ reader'.at = "done" /\ reader'.job = reader.job
          /\ reader'.status = reader.status /\ reader'.got = seen
      BY <3>1, <3>2, <3>3 DEF Reader
    <3>5. seen = Amount(jobs[reader.job].items)'
      BY <1>1, <3>4 DEF Amount, Whole, seen
    <3> QED
      BY <1>1, <3>1, <3>2, <3>4, <3>5 DEF ReaderInv
  <2> QED
    BY <2>1, <2>2
<1>3. Shape' /\ StoredInv' /\ RunInv' /\ LogInv'
  BY <1>1, <1>2 DEF PipelineInv, Shape, StoredInv, RunInv, LogInv, Spent, PerRun, Newest, Clauses
<1>4. \A j \in DOMAIN jobs' : JobInv(j)'
  BY <1>1 DEF PipelineInv, JobInv, Clauses
<1> QED
  BY <1>2, <1>3, <1>4 DEF PipelineInv

LEMMA PipelineStep == PipelineInv /\ [Next]_vars => PipelineInv'
<1> SUFFICES ASSUME PipelineInv, [Next]_vars PROVE PipelineInv'
  OBVIOUS
<1>1. CASE UNCHANGED vars
  <2>1. UNCHANGED <<source, stored, jobs, run, log, reader>>
    BY <1>1 DEF vars
  <2>2. Shape' /\ StoredInv' /\ RunInv' /\ LogInv' /\ ReaderInv'
    BY <2>1 DEF PipelineInv, Shape, StoredInv, RunInv, LogInv, Spent, PerRun, Newest, Clauses,
                ReaderInv, Amount, Whole
  <2>3. \A j \in DOMAIN jobs' : JobInv(j)'
    BY <2>1 DEF PipelineInv, JobInv, Clauses
  <2> QED
    BY <2>2, <2>3 DEF PipelineInv
<1>2. CASE Upload
  BY <1>2, UploadStep
<1>3. CASE RequestForDocument \/ RequestForExtraction
  BY <1>3, RequestStep
<1>4. CASE Claim
  BY <1>4, ClaimStep
<1>5. CASE LoadSnapshot
  BY <1>5, LoadStep
<1>6. CASE PrepareClause
  BY <1>6, PrepareStep
<1>7. CASE Call
  BY <1>7, RaisesStep, AnswersStep DEF Call
<1>8. CASE Finish
  BY <1>8, FinishStep
<1>9. CASE Crash
  BY <1>9, CrashStep
<1>10. CASE ReadJob \/ ReadItems
  BY <1>10, ReadStep
<1> QED
  BY <1>1, <1>2, <1>3, <1>4, <1>5, <1>6, <1>7, <1>8, <1>9, <1>10 DEF Next

-----------------------------------------------------------------------------
(* Theorems.                                                               *)

\* The invariant holds however the requests, the runs, the crashes and the
\* readings of a document interleave.
THEOREM PipelineIsInvariant == Spec => []PipelineInv
<1>1. Init => PipelineInv
  BY InitPipeline
<1>2. PipelineInv /\ [Next]_vars => PipelineInv'
  BY PipelineStep
<1> QED
  BY <1>1, <1>2, PTL DEF Spec

\* State keeps its shape, and a run is at a clause of its document
\* (run_analysis_pipeline).
THEOREM PipelineTypeCorrect == Spec => []TypeOK
<1>1. PipelineInv => TypeOK
  <2> SUFFICES ASSUME PipelineInv PROVE TypeOK
    OBVIOUS
  <2>1. stored = None \/ DOMAIN stored = 1 .. Len(stored)
    BY StoredList DEF PipelineInv, Clauses
  <2>2. \A j \in DOMAIN jobs : jobs[j].status \in Statuses /\ jobs[j].attempts \in 0 .. MaxAttempts
    <3>1. \A j \in DOMAIN jobs : jobs[j] \in Job
      BY DEF PipelineInv, Shape
    <3> QED
      BY <3>1 DEF Job
  <2>3. source \in Documents /\ Len(jobs) <= MaxJobs /\ reader.at \in {"idle", "items", "done"}
    BY DEF PipelineInv, Shape, Reader
  <2>4. run.at # "off" => /\ run.job \in DOMAIN jobs /\ run.at \in {"load", "next", "call"}
                          /\ run.next \in 1 .. Len(stored) + 1
                          /\ run.tries \in 0 .. ProviderAttempts - 1
    BY DEF PipelineInv, Shape, Run, RunInv, Clauses
  <2> QED
    BY <2>1, <2>2, <2>3, <2>4 DEF TypeOK
<1> QED
  BY <1>1, PipelineIsInvariant, PTL

\* A completed job has one result for every clause and no other job has any, so
\* that a reader whose two queries fall between any steps gets all or nothing
\* (run_analysis_pipeline, get_analysis_results).
THEOREM CompletedResultsAreWhole == Spec => []ResultsAreComplete
<1>1. PipelineInv => ResultsAreComplete
  <2> SUFFICES ASSUME PipelineInv PROVE ResultsAreComplete
    OBVIOUS
  <2>1. ASSUME NEW j \in DOMAIN jobs
        PROVE  IF jobs[j].status = "completed" THEN Whole(jobs[j].items) ELSE jobs[j].items = {}
    <3>1. JobInv(j) /\ jobs # <<>>
      BY DEF PipelineInv
    <3>2. Clauses \in Nat
      BY <3>1, StoredList DEF PipelineInv, StoredInv
    <3> QED
      BY <3>1, <3>2, CoversWhole DEF JobInv
  <2>2. reader.at = "done" =>
          /\ reader.got # "part"
          /\ reader.status = "completed" => reader.got = Amount(jobs[reader.job].items)
          /\ reader.status = "failed" => reader.got = "nothing"
    BY DEF PipelineInv, ReaderInv
  <2> QED
    BY <2>1, <2>2 DEF ResultsAreComplete
<1> QED
  BY <1>1, PipelineIsInvariant, PTL

\* Whatever the form of an answer, each question, suggestion and fact stored of it
\* names evidence, all of which the item has, and the summary asserts nothing it must
\* not (_ensure_reference_ids, _ensure_fact_evidence, _to_customer_value_payload).
THEOREM StoredItemsAreSound == Spec => []ItemsAreSound
<1>1. PipelineInv => ItemsAreSound
  BY DEF PipelineInv, JobInv, SoundItem, ItemsAreSound
<1> QED
  BY <1>1, PipelineIsInvariant, PTL

\* The calls of a job stay within attempts x policy x clauses, and a job whose
\* attempt failed for good has failed (execute_provider, finish_job_failure).
THEOREM CallsStayBounded == Spec => []CallsAreBounded
<1>1. PipelineInv => CallsAreBounded
  <2> SUFFICES ASSUME PipelineInv PROVE CallsAreBounded
    OBVIOUS
  <2>1. ASSUME stored # None PROVE log.calls <= MaxAttempts * ProviderAttempts * Len(stored)
    <3>1. Clauses \in Nat /\ PerRun \in Nat
      BY <2>1, StoredList, Products DEF PipelineInv, PerRun
    <3>2. MaxAttempts * PerRun \in Nat
      BY <3>1, Products
    <3>3. log.calls \in Nat /\ log.calls <= MaxAttempts * PerRun
      <4>1. CASE jobs = <<>>
        BY <3>2, <4>1 DEF PipelineInv, Shape, Log, LogInv
      <4>2. CASE jobs # <<>>
        <5>1. Newest \in Job
          BY <4>2 DEF PipelineInv, Shape, Newest
        <5>2. Newest.attempts \in Nat /\ Newest.attempts <= MaxAttempts
          BY <5>1 DEF Job
        <5>3. Newest.attempts * PerRun <= MaxAttempts * PerRun /\ Newest.attempts * PerRun \in Nat
          BY <3>1, <5>2, Monotone, Products
        <5>4. log.calls <= Newest.attempts * PerRun /\ log.calls \in Nat
          <6>1. CASE run.at = "off"
            BY <4>2, <6>1 DEF PipelineInv, Shape, Log, LogInv, Spent
          <6>2. CASE run.at # "off"
            BY <6>2, RoomForCall DEF PipelineInv, Shape, Log
          <6> QED
            BY <6>1, <6>2
        <5> QED
          BY <3>2, <5>3, <5>4
      <4> QED
        BY <4>1, <4>2
    <3>4. MaxAttempts * PerRun = MaxAttempts * ProviderAttempts * Clauses
      BY <3>1 DEF PerRun
    <3> QED
      BY <3>3, <3>4 DEF Clauses
  <2>2. log.fatal => Newest.status = "failed"
    BY DEF PipelineInv, LogInv
  <2> QED
    BY <2>1, <2>2 DEF CallsAreBounded
<1> QED
  BY <1>1, PipelineIsInvariant, PTL

\* The clauses of a document, whatever its lines and pages, are numbered in the
\* order of its text and do not overlap; of a confirmed extraction each is a whole
\* page, or stands behind the offset stored for it by the blanks before its line and
\* one for each carriage return above it (split_clauses, split_clauses_with_snapshot).
THEOREM SplitStaysSound == Spec => []SplitIsSound
<1>1. PipelineInv => SplitIsSound
  BY SplitOfDocument DEF PipelineInv, Shape, SplitIsSound, IsText
<1> QED
  BY <1>1, PipelineIsInvariant, PTL

-----------------------------------------------------------------------------
(* What is sent.                                                           *)

\* A clause that is being sent passed the checks before.
SendInv == run.at = "call" => Sendable(Clause.text)

LEMMA SendKept == ASSUME PipelineInv, SendInv, [Next]_vars PROVE SendInv'
<1>1. run \in Run
  BY DEF PipelineInv, Shape
<1>2. CASE UNCHANGED <<stored, run>>
  BY <1>2 DEF SendInv, Clause
<1>3. CASE run'.at # "call"
  BY <1>3 DEF SendInv
<1>4. CASE Upload \/ RequestForExtraction
  <2>1. run.at = "off" /\ run' = run
    BY <1>4, NothingBefore DEF Upload, RequestForExtraction
  <2> QED
    BY <2>1 DEF SendInv
<1>5. CASE PrepareClause
  <2>1. CASE Sendable(Clause.text)
    <3>1. run' = [run EXCEPT !.at = "call", !.tries = 0] /\ stored' = stored
      BY <1>5, <2>1 DEF PrepareClause
    <3>2. run'.next = run.next
      BY <1>1, <3>1 DEF Run
    <3>3. Clause' = Clause
      BY <3>1, <3>2 DEF Clause
    <3> QED
      BY <2>1, <3>3 DEF SendInv
  <2>2. CASE ~Sendable(Clause.text)
    BY <1>3, <1>5, <2>2 DEF PrepareClause, Fails, NoRun
  <2> QED
    BY <2>1, <2>2
<1>6. CASE InRun("call") /\ CallFails
  <2>1. CASE run' = NoRun
    BY <1>3, <2>1 DEF NoRun
  <2>2. CASE run' = [run EXCEPT !.tries = @ + 1] /\ stored' = stored
    <3>1. run'.next = run.next
      BY <1>1, <2>2 DEF Run
    <3>2. Clause' = Clause
      BY <2>2, <3>1 DEF Clause
    <3> QED
      BY <1>6, <3>2 DEF SendInv, InRun
  <2> QED
    BY <1>6, <2>1, <2>2 DEF CallFails, Fails
<1>7. CASE InRun("call") /\ CallAnswers
  <2>1. CASE run' = NoRun
    BY <1>3, <2>1 DEF NoRun
  <2>2. ASSUME NEW more, run' = [run EXCEPT !.at = "next", !.next = @ + 1, !.items = more]
        PROVE  run'.at # "call"
    BY <1>1, <2>2 DEF Run
  <2>3. run' = NoRun \/ \E more : run' = [run EXCEPT !.at = "next", !.next = @ + 1, !.items = more]
    <3>1. \/ run' = NoRun
          \/ \E item : run' = [run EXCEPT !.at = "next", !.next = @ + 1, !.items = @ \cup {item}]
      BY <1>7, Zenon DEF CallAnswers, Fails
    <3> QED
      BY <3>1
  <2> QED
    BY <1>3, <2>1, <2>2, <2>3
<1>8. CASE Claim
  BY <1>3, <1>8 DEF Claim, NewRun
<1>9. CASE LoadSnapshot
  <2>1. run'.at = "next"
    BY <1>1, <1>9 DEF LoadSnapshot, Run
  <2> QED
    BY <1>3, <2>1
<1>10. CASE Finish \/ Crash
  BY <1>3, <1>10 DEF Finish, Fails, Crash, NoRun
<1>11. CASE UNCHANGED vars \/ RequestForDocument \/ ReadJob \/ ReadItems
  BY <1>2, <1>11 DEF vars, RequestForDocument, ReadJob, ReadItems
<1> QED
  BY <1>4, <1>5, <1>6, <1>7, <1>8, <1>9, <1>10, <1>11 DEF Next, Call

\* Of whatever a run is about to send, each value that a pattern finds is masked from
\* its beginning on, tokens stand for values one to one, and in the texts as they are
\* cut for the request the patterns find nothing more (build_provider_input,
\* assign_mask_tokens, build_provider_request).
THEOREM SentStaysMasked == Spec => []SentIsMasked
<1>1. PipelineInv /\ SendInv => SentIsMasked
  <2> SUFFICES ASSUME PipelineInv, SendInv, run.at = "call"
               PROVE  /\ SoundMasking(Normalized(Clause.text))
                      /\ \A sent \in Sent(Clause.text) : DetectEntities(sent) = {}
    BY DEF SentIsMasked, InRun
  <2>1. stored # None /\ run.next \in 1 .. Clauses
    BY StoredList DEF PipelineInv, StoredInv, RunInv
  <2>2. stored[run.next].text \in Seq(Cell)
    BY <2>1, StoredList DEF PipelineInv
  <2>3. SoundMasking(Normalized(Clause.text))
    BY <2>2, NormalTyped, MaskingIsSound DEF Clause
  <2> QED
    BY <2>3 DEF SendInv, Sendable
<1>2. Init => SendInv
  BY DEF Init, NoRun, SendInv
<1>3. PipelineInv /\ SendInv /\ [Next]_vars => SendInv'
  BY SendKept
<1> QED
  BY <1>1, <1>2, <1>3, PipelineIsInvariant, PTL DEF Spec

-----------------------------------------------------------------------------
(* The analysis of an uploaded text.                                       *)

\* A text that is short enough is not cut.
LEMMA ShortIsWhole ==
  ASSUME NEW text \in Seq(Cell), NEW limit \in Nat, Width(text) <= limit
  PROVE  Cut(text, limit) = text
<1>1. PICK n \in Nat : n = Len(text)
  OBVIOUS
<1>2. SubSeq(text, 1, n) = text
  BY <1>1
<1>3. PICK S : S = {k \in 0 .. n : Width(SubSeq(text, 1, k)) <= limit}
  OBVIOUS
<1>4. n \in S /\ S \subseteq Nat /\ \A k \in S : k <= n
  <2>1. n \in 0 .. n
    BY <1>1
  <2>2. Width(SubSeq(text, 1, n)) = Width(text)
    BY <1>2
  <2>3. n \in S
    BY <1>3, <2>1, <2>2
  <2> QED
    BY <1>3, <2>3
<1>5. IsFiniteSet(S)
  <2>1. 0 \in Int /\ n \in Int
    OBVIOUS
  <2>2. IsFiniteSet(0 .. n)
    BY <2>1, FS_Interval
  <2> QED
    BY <1>3, <2>2, FS_Subset
<1>6. Max(S) = n
  <2>1. Max(S) \in S /\ n <= Max(S)
    BY <1>4, <1>5, LargestOf
  <2>2. Max(S) \in Nat /\ Max(S) <= n
    BY <1>4, <2>1
  <2> QED
    BY <2>1, <2>2
<1>7. ~(n < n)
  OBVIOUS
<1> QED
  BY <1>1, <1>2, <1>3, <1>6, <1>7 DEF Cut

LEMMA EmptyStays ==
  ASSUME NEW text \in Seq(Cell), text = <<>>
  PROVE  Normalized(text) = <<>>
<1>1. PICK normal \in Seq(Cell) : normal = Normalized(text)
  BY NormalTyped
<1>2. ASSUME NEW x \in DOMAIN normal PROVE FALSE
  <2>1. PICK i \in DOMAIN text : normal[x] = text[i]
    BY <1>1, NormalTyped
  <2> QED
    OBVIOUS
<1>3. normal # <<>> => 1 \in DOMAIN normal
  OBVIOUS
<1>4. normal = <<>>
  BY <1>2, <1>3
<1> QED
  BY <1>1, <1>4

\* A text is refused only for one of these reasons.
LEMMA OthersAreSendable ==
  ASSUME NEW text \in Seq(Cell), ~Refusable(text)
  PROVE  Sendable(text)
<1>1. PICK normal : normal = Normalized(text)
  OBVIOUS
<1>2. PICK masked : masked = MaskText(normal, DetectEntities(normal))
  OBVIOUS
<1>3. /\ normal \in Seq(Cell)
      /\ \A x \in DOMAIN normal : \E i \in DOMAIN text : normal[x] = text[i]
  BY <1>1, NormalTyped
<1>4. /\ CollisionAvoided(normal, DetectEntities(normal)) /\ (normal # <<>> => masked # <<>>)
      /\ \A x \in DOMAIN masked : masked[x][1] = "path" => \E i \in DOMAIN normal : normal[i][1] = "path"
  BY <1>2, <1>3, MaskedKeeps, Zenon
<1>5. masked \in Seq(Cell)
  BY <1>2, <1>3, MaskedCells
<1>6. masked = Masked(text)
  BY <1>1, <1>2 DEF Masked
<1>7. /\ normal # <<>> /\ ~HasPath(text) /\ DetectEntities(masked) = {}
      /\ ~(Width(masked) > SourceLimit)
  BY <1>1, <1>6, Zenon DEF Refusable
<1>8. ~HasPath(masked)
  BY <1>3, <1>4, <1>7 DEF HasPath
<1>9. \A limit \in {SourceLimit, TextLimit} : Cut(masked, limit) = masked
  <2>1. Width(masked) \in Nat
    <3>1. IsFiniteSet({i \in DOMAIN masked : IsToken(masked[i])})
      BY <1>5, FiniteDomain
    <3>2. Cardinality({i \in DOMAIN masked : IsToken(masked[i])}) \in Nat
      BY <3>1, FS_CardinalityType
    <3> QED
      BY <1>5, <3>2 DEF Width
  <2>2. Width(masked) <= SourceLimit /\ Width(masked) <= TextLimit
    BY <1>7, <2>1
  <2> QED
    BY <1>5, <2>2, ShortIsWhole
<1>10. \A sent \in Sent(text) : sent = masked
  BY <1>6, <1>9 DEF Sent
<1>11. \A sent \in Sent(text) : ~HasPath(sent) /\ DetectEntities(sent) = {}
  BY <1>7, <1>8, <1>10
<1> QED
  BY <1>1, <1>4, <1>6, <1>7, <1>11, Zenon DEF Sendable

LEMMA QuoteTyped ==
  ASSUME NEW text \in Seq(Cell)
  PROVE  Quote(text) \in Seq(Cell) /\ (text # <<>> => Quote(text) # <<>>)
<1>1. PICK n : n = IF Len(text) < QuoteLimit THEN Len(text) ELSE QuoteLimit
  OBVIOUS
<1>2. n \in Nat /\ n <= Len(text) /\ (text # <<>> => n # 0)
  BY <1>1
<1>3. Quote(text) = SubSeq(text, 1, n)
  BY <1>1 DEF Quote
<1> QED
  BY <1>2, <1>3

\* Without a snapshot the evidence of a clause is that there is none, which every
\* check accepts.
LEMMA UnboundIsAccepted ==
  ASSUME NEW clause, clause.text \in Seq(Cell), clause.text # <<>>, NEW bound, bound = Bind(clause, Quote(clause.text), <<>>),
         NEW r \in Responses, ContractAccepts(r), ResultAccepts(r), CitedEvidence(r, {1})
  PROVE  /\ bound.error = "" /\ \A e \in bound.items : Sealable(e, clause)
         /\ CitedEvidence(r, {e.id : e \in bound.items})
<1>1. PICK e : e = [id |-> 1, page |-> 1, clause |-> clause.reference, quote |-> Quote(clause.text),
                    start |-> 0, end |-> 0, blocks |-> {}, status |-> "not_available"]
  OBVIOUS
<1>2. bound = [error |-> "", items |-> {e}]
  BY <1>1 DEF Bind
<1>3. bound.error = "" /\ bound.items = {e}
  <2>1. PICK I : I = {e}
    OBVIOUS
  <2>2. PICK b : b = [error |-> "", items |-> I]
    OBVIOUS
  <2>3. b.error = "" /\ b.items = I
    BY <2>2
  <2>4. bound = b
    BY <1>2, <2>1, <2>2
  <2> QED
    BY <2>1, <2>3, <2>4
<1>4. Sealable(e, clause)
  <2>1. Quote(clause.text) # <<>>
    BY QuoteTyped
  <2> QED
    BY <1>1, <2>1 DEF Sealable
<1>5. 1 \in {f.id : f \in bound.items}
  <2>1. e.id = 1
    BY <1>1
  <2> QED
    BY <1>3, <2>1
<1>6. CitedEvidence(r, {f.id : f \in bound.items})
  BY <1>5 DEF CitedEvidence
<1> QED
  BY <1>3, <1>4, <1>6

\* A run of a text has no snapshot, and one that failed without a fault met a
\* clause that may be refused.
TextInv == IsText =>
  /\ run.snapshot = <<>>
  /\ TextIsAnalysable

\* What is left to see of a step: that no run of a text gets a snapshot, and that
\* a failure without a fault has its reason.
LEMMA TextKept ==
  ASSUME PipelineInv', TextInv, source' = source,
         IsText => run'.snapshot = <<>>,
         IsText /\ run'.at = "off" => TextIsAnalysable'
  PROVE  TextInv'
<1>1. CASE run'.at # "off"
  BY <1>1 DEF PipelineInv, RunInv, TextInv, TextIsAnalysable, IsText
<1>2. CASE run'.at = "off"
  BY <1>2 DEF TextInv, IsText
<1> QED
  BY <1>1, <1>2

LEMMA FaultIsReason ==
  ASSUME log'.fault PROVE TextIsAnalysable'
  BY DEF TextIsAnalysable

LEMMA TextPrepare == ASSUME PipelineInv, PipelineInv', TextInv, PrepareClause PROVE TextInv'
<1>1. run.at = "next" /\ run \in Run /\ stored # None /\ run.next \in DOMAIN stored
  BY JobOfRun, StoredList DEF PrepareClause, InRun, PipelineInv, RunInv, Clauses
<1>2. CASE Sendable(Clause.text)
  <2>1. run' = [run EXCEPT !.at = "call", !.tries = 0] /\ source' = source
    BY <1>2 DEF PrepareClause
  <2>2. run'.snapshot = run.snapshot /\ run'.at = "call"
    BY <1>1, <2>1 DEF Run
  <2> QED
    BY <2>1, <2>2, TextKept DEF TextInv
<1>3. CASE ~Sendable(Clause.text)
  <2>1. Fails(FALSE, 0, FALSE)
    BY <1>3 DEF PrepareClause
  <2>2. run' = NoRun /\ UNCHANGED <<source, stored>>
    BY <2>1 DEF Fails
  <2>3. run'.snapshot = <<>>
    BY <2>2 DEF NoRun
  <2>4. stored[run.next].text \in Seq(Cell)
    BY <1>1, StoredList DEF PipelineInv
  <2>5. Refusable(stored[run.next].text)
    BY <1>3, <2>4, OthersAreSendable DEF Clause
  <2>6. TextIsAnalysable'
    BY <1>1, <2>2, <2>5 DEF TextIsAnalysable
  <2> QED
    BY <2>2, <2>3, <2>6, TextKept
<1> QED
  BY <1>2, <1>3

LEMMA TextCallFails ==
  ASSUME PipelineInv, PipelineInv', TextInv, InRun("call"), CallFails PROVE TextInv'
<1>1. run \in Run
  BY DEF PipelineInv, Shape
<1>2. PICK error \in Errors :
        IF Retryable(error) /\ run.tries + 1 < ProviderAttempts
        THEN /\ run' = [run EXCEPT !.tries = @ + 1]
             /\ UNCHANGED <<source, stored, jobs, reader>>
        ELSE Fails(Retryable(error), 1, TRUE)
  BY DEF CallFails
<1>3. CASE Retryable(error) /\ run.tries + 1 < ProviderAttempts
  <2>1. run'.snapshot = run.snapshot /\ run'.at = "call" /\ source' = source
    BY <1>1, <1>2, <1>3 DEF Run, InRun
  <2> QED
    BY <2>1, TextKept DEF TextInv
<1>4. CASE ~(Retryable(error) /\ run.tries + 1 < ProviderAttempts)
  <2>1. Fails(Retryable(error), 1, TRUE)
    BY <1>2, <1>4
  <2>2. run' = NoRun /\ source' = source /\ log'.fault
    BY <2>1 DEF Fails
  <2>3. run'.snapshot = <<>>
    BY <2>2 DEF NoRun
  <2> QED
    BY <2>2, <2>3, FaultIsReason, TextKept
<1> QED
  BY <1>3, <1>4

LEMMA TextCallAnswers ==
  ASSUME PipelineInv, PipelineInv', TextInv, InRun("call"), CallAnswers PROVE TextInv'
<1>1. run \in Run /\ stored # None /\ run.next \in DOMAIN stored
  BY JobOfRun, StoredList DEF InRun, PipelineInv, RunInv, Clauses
<1>2. PICK bound : bound = Bind(Clause, Quote(Clause.text), run.snapshot)
  OBVIOUS
<1>3. PICK r \in Responses :
        IF Accepts(r, bound)
        THEN /\ run' = [run EXCEPT !.at = "next", !.next = @ + 1,
                                   !.items = @ \cup {Item(run.next, r, bound.items)}]
             /\ UNCHANGED <<source, stored, jobs, reader>>
        ELSE Fails(FALSE, 1, ~(ContractAccepts(r) /\ ResultAccepts(r) /\ CitedEvidence(r, {1})))
  BY <1>2 DEF CallAnswers
<1>4. CASE Accepts(r, bound)
  <2>1. run'.snapshot = run.snapshot /\ run'.at = "next" /\ source' = source
    BY <1>1, <1>3, <1>4 DEF Run
  <2> QED
    BY <2>1, TextKept DEF TextInv
<1>5. CASE ~Accepts(r, bound)
  <2>1. Fails(FALSE, 1, ~(ContractAccepts(r) /\ ResultAccepts(r) /\ CitedEvidence(r, {1})))
    BY <1>3, <1>5
  <2>2. run' = NoRun /\ UNCHANGED <<source, stored>>
    BY <2>1 DEF Fails
  <2>3. run'.snapshot = <<>>
    BY <2>2 DEF NoRun
  <2>4. ASSUME IsText PROVE TextIsAnalysable'
    <3>0. Clause.text \in Seq(Cell)
      BY <1>1, StoredList DEF PipelineInv, Clause
    <3>1. CASE Clause.text = <<>>
      <4>1. Normalized(Clause.text) = <<>>
        BY <3>0, <3>1, EmptyStays
      <4>2. Refusable(stored[run.next].text)
        BY <4>1 DEF Refusable, Clause
      <4> QED
        BY <1>1, <2>2, <4>2 DEF TextIsAnalysable
    <3>2. CASE Clause.text # <<>>
      <4>1. bound = Bind(Clause, Quote(Clause.text), <<>>)
        BY <1>2, <2>4 DEF TextInv
      <4>2. ~(ContractAccepts(r) /\ ResultAccepts(r) /\ CitedEvidence(r, {1}))
        <5>1. SUFFICES ASSUME ContractAccepts(r), ResultAccepts(r), CitedEvidence(r, {1}) PROVE FALSE
          OBVIOUS
        <5>2. /\ bound.error = "" /\ \A e \in bound.items : Sealable(e, Clause)
              /\ CitedEvidence(r, {e.id : e \in bound.items})
          BY <3>0, <3>2, <4>1, <5>1, UnboundIsAccepted
        <5> QED
          BY <1>5, <5>1, <5>2 DEF Accepts
      <4>3. Fails(FALSE, 1, TRUE)
        BY <2>1, <4>2
      <4>4. log'.fault
        BY <4>3 DEF Fails
      <4> QED
        BY <4>4, FaultIsReason
    <3> QED
      BY <3>1, <3>2
  <2> QED
    BY <2>2, <2>3, <2>4, TextKept
<1> QED
  BY <1>4, <1>5

LEMMA TextFinish == ASSUME PipelineInv, PipelineInv', TextInv, Finish PROVE TextInv'
<1>1. run.at = "next"
  BY DEF Finish, InRun
<1>2. run' = NoRun /\ source' = source
  BY DEF Finish, Fails
<1>3. run'.snapshot = <<>>
  BY <1>2 DEF NoRun
<1>4. CASE Fails(FALSE, 0, TRUE)
  <2>1. log'.fault
    BY <1>4 DEF Fails
  <2> QED
    BY <1>2, <1>3, <2>1, FaultIsReason, TextKept
<1>5. CASE jobs' = [jobs EXCEPT ![run.job] = [Ends(@, "completed") EXCEPT !.items = run.items]]
  <2>1. PICK ended : ended = [Ends(Newest, "completed") EXCEPT !.items = run.items]
    OBVIOUS
  <2>2. ended.status = "completed"
    <3>1. "completed" \in Statuses
      BY DEF Statuses
    <3> QED
      BY <1>1, <2>1, <3>1, JobOfRun DEF Job
  <2>3. jobs' = [jobs EXCEPT ![run.job] = ended]
    BY <1>1, <1>5, <2>1, JobOfRun
  <2>4. run.job = Len(jobs) /\ jobs # <<>> /\ jobs \in Seq(Job)
    BY <1>1 DEF PipelineInv, RunInv, Shape
  <2>5. Newest' = ended
    BY <2>3, <2>4 DEF Newest
  <2>6. TextIsAnalysable'
    BY <2>2, <2>5 DEF TextIsAnalysable
  <2> QED
    BY <1>2, <1>3, <2>6, TextKept
<1> QED
  BY <1>4, <1>5 DEF Finish

LEMMA TextOthers ==
  ASSUME PipelineInv, PipelineInv', TextInv,
         \/ UNCHANGED vars \/ Upload \/ RequestForDocument \/ RequestForExtraction
         \/ Claim \/ LoadSnapshot \/ Crash \/ ReadJob \/ ReadItems
  PROVE  TextInv'
<1>1. CASE UNCHANGED <<source, stored, jobs, run, log>>
  <2>1. TextIsAnalysable' <=> TextIsAnalysable
    BY <1>1 DEF TextIsAnalysable, IsText, Newest
  <2> QED
    BY <1>1, <2>1, TextKept DEF TextInv
<1>2. CASE Upload
  <2>1. jobs' = <<>> /\ UNCHANGED <<source, run>>
    BY <1>2, NothingBefore DEF Upload
  <2> QED
    BY <2>1, TextKept DEF TextInv, TextIsAnalysable
<1>3. CASE RequestForExtraction
  BY <1>3, TextKept DEF RequestForExtraction
<1>4. CASE RequestForDocument
  <2>1. UNCHANGED <<source, stored, run>> /\ Enqueue
    BY <1>4 DEF RequestForDocument
  <2>2. CASE UNCHANGED <<jobs, log>>
    BY <1>1, <2>1, <2>2
  <2>3. CASE jobs' = Append(jobs, NewJob)
    <3>1. jobs \in Seq(Job) /\ NewJob \in Job /\ NewJob.status = "pending"
      BY DEF PipelineInv, Shape, NewJob, Job, Statuses
    <3>2. Newest' = NewJob
      BY <2>3, <3>1 DEF Newest
    <3>3. TextIsAnalysable'
      BY <3>1, <3>2 DEF TextIsAnalysable
    <3> QED
      BY <2>1, <3>3, TextKept DEF TextInv
  <2> QED
    BY <2>1, <2>2, <2>3 DEF Enqueue
<1>5. CASE Claim
  <2>1. PICK j : run' = NewRun(j) /\ source' = source
    BY <1>5 DEF Claim
  <2>2. run'.snapshot = <<>> /\ run'.at = "load"
    BY <2>1 DEF NewRun
  <2> QED
    BY <2>1, <2>2, TextKept
<1>6. CASE LoadSnapshot
  <2>1. run \in Run /\ source' = source
    BY <1>6 DEF LoadSnapshot, PipelineInv, Shape
  <2>2. run'.at = "next" /\ (IsText => run'.snapshot = <<>>)
    BY <1>6, <2>1 DEF LoadSnapshot, Run, TextInv
  <2> QED
    BY <2>1, <2>2, TextKept
<1>7. CASE Crash
  <2>1. run' = NoRun /\ source' = source /\ log' = [log EXCEPT !.fault = TRUE]
    BY <1>7 DEF Crash
  <2>2. run'.snapshot = <<>> /\ log'.fault
    BY <2>1 DEF NoRun, PipelineInv, Shape, Log
  <2> QED
    BY <2>1, <2>2, FaultIsReason, TextKept
<1>8. CASE UNCHANGED vars \/ ReadJob \/ ReadItems
  BY <1>1, <1>8 DEF vars, ReadJob, ReadItems
<1> QED
  BY <1>2, <1>3, <1>4, <1>5, <1>6, <1>7, <1>8

\* The analysis of an uploaded text fails without a fault of the provider, the
\* database or the worker only for a clause that is empty, looks like a path, has
\* something to mask beside a token, or is longer than what is sent of it: masking
\* collides with nothing, and the evidence of a document without a snapshot is always
\* accepted (build_provider_input, build_provider_request, bind_evidence).
THEOREM TextStaysAnalysable == Spec => []TextIsAnalysable
<1>1. Init => TextInv
  BY DEF Init, NoRun, TextInv, TextIsAnalysable
<1>2. PipelineInv /\ PipelineInv' /\ TextInv /\ [Next]_vars => TextInv'
  BY TextPrepare, TextCallFails, TextCallAnswers, TextFinish, TextOthers DEF Next, Call
<1>3. TextInv => TextIsAnalysable
  BY DEF TextInv, TextIsAnalysable
<1> QED
  BY <1>1, <1>2, <1>3, PipelineIsInvariant, PTL DEF Spec

-----------------------------------------------------------------------------
(* Evidence.                                                               *)

\* f joins the first n of seqs.
Flattens(f, seqs, n) ==
  f = [i \in 1 .. n |-> IF i = 1 THEN seqs[i] ELSE f[i - 1] \o seqs[i]]

LEMMA FlatteningExists ==
  ASSUME NEW S, NEW seqs \in Seq(Seq(S)), NEW n \in Nat, n <= Len(seqs)
  PROVE  \E f : Flattens(f, seqs, n) /\ \A i \in 1 .. n : f[i] \in Seq(S)
<1> DEFINE Good(m) == \E f : Flattens(f, seqs, m) /\ \A i \in 1 .. m : f[i] \in Seq(S)
           K == {m \in Nat : m <= Len(seqs) => Good(m)}
<1>1. 0 \in K
  <2> DEFINE h == [i \in 1 .. 0 |-> <<>>]
  <2>1. h = [i \in 1 .. 0 |-> IF i = 1 THEN seqs[i] ELSE h[i - 1] \o seqs[i]]
    OBVIOUS
  <2> HIDE DEF h
  <2>2. Good(0)
    BY <2>1 DEF Flattens
  <2> QED
    BY <2>2
<1>2. ASSUME NEW m \in K \cap Nat PROVE m + 1 \in K
  <2> SUFFICES ASSUME m + 1 <= Len(seqs) PROVE Good(m + 1)
    OBVIOUS
  <2>0. m \in Nat
    OBVIOUS
  <2>1. PICK f : Flattens(f, seqs, m) /\ \A i \in 1 .. m : f[i] \in Seq(S)
    OBVIOUS
  <2> DEFINE last == IF m = 0 THEN seqs[1] ELSE f[m] \o seqs[m + 1]
             g == [i \in 1 .. m + 1 |-> IF i = m + 1 THEN last ELSE f[i]]
  <2>2. seqs[m + 1] \in Seq(S) /\ (m = 0 => seqs[1] \in Seq(S)) /\ (m # 0 => f[m] \in Seq(S))
    BY <2>1
  <2>3. last \in Seq(S)
    BY <2>2, ConcatProperties
  <2> HIDE DEF last
  <2>4. \A i \in 1 .. m + 1 : g[i] \in Seq(S)
    BY <2>1, <2>3
  <2>5. g = [i \in 1 .. m + 1 |-> g[i]] /\ g[m + 1] = last /\ \A i \in 1 .. m : g[i] = f[i]
    OBVIOUS
  <2> HIDE DEF g, K, Good
  <2>6. ASSUME NEW i \in 1 .. m + 1
        PROVE  g[i] = IF i = 1 THEN seqs[i] ELSE g[i - 1] \o seqs[i]
    <3>1. CASE i = m + 1
      <4>1. i # 1 => m # 0 /\ g[i - 1] = f[m]
        <5>1. i - 1 = m /\ (i # 1 => m \in 1 .. m)
          BY <2>0, <3>1
        <5>2. \A k \in 1 .. m : g[k] = f[k]
          BY <2>5
        <5> QED
          BY <2>0, <5>1, <5>2
      <4>2. i = 1 => m = 0
        BY <2>0, <3>1
      <4> QED
        BY <2>5, <3>1, <4>1, <4>2 DEF last
    <3>2. CASE i \in 1 .. m
      <4>1. g[i] = f[i] /\ (i # 1 => g[i - 1] = f[i - 1])
        <5>1. i # 1 => i - 1 \in 1 .. m
          BY <2>0, <3>2
        <5>2. \A k \in 1 .. m : g[k] = f[k]
          BY <2>5
        <5> QED
          BY <3>2, <5>1, <5>2
      <4>2. f[i] = IF i = 1 THEN seqs[i] ELSE f[i - 1] \o seqs[i]
        BY <2>1, <3>2 DEF Flattens
      <4> QED
        BY <4>1, <4>2
    <3> QED
      BY <2>0, <3>1, <3>2
  <2>7. Flattens(g, seqs, m + 1)
    BY <2>5, <2>6 DEF Flattens
  <2> QED
    BY <2>4, <2>7 DEF Good
<1>3. Nat \subseteq K
  <2> HIDE DEF K
  <2> QED
    BY <1>1, <1>2, SetInduction
<1>4. n \in K
  BY <1>3
<1> QED
  BY <1>4

\* What has been flattened has only members of what it was made of.
LEMMA FlattenedIs ==
  ASSUME NEW S, NEW seqs \in Seq(Seq(S)), seqs # <<>>
  PROVE  FlattenSeq(seqs) \in Seq(S)
<1>1. PICK n \in Nat : n = Len(seqs) /\ n # 0
  OBVIOUS
<1>2. PICK h : h = CHOOSE f : Flattens(f, seqs, n)
  OBVIOUS
<1>3. Flattens(h, seqs, n)
  BY <1>1, <1>2, FlatteningExists
<1>4. FlattenSeq(seqs) = h[n]
  BY <1>1, <1>2 DEF FlattenSeq, Flattens
<1> DEFINE K == {i \in Nat : i \in 1 .. n => h[i] \in Seq(S)}
<1>5. 0 \in K
  OBVIOUS
<1>6. ASSUME NEW i \in K \cap Nat PROVE i + 1 \in K
  <2> SUFFICES ASSUME i + 1 \in 1 .. n PROVE h[i + 1] \in Seq(S)
    OBVIOUS
  <2> DEFINE j == i + 1
  <2>1. seqs[j] \in Seq(S) /\ j \in 1 .. n /\ (j # 1 => h[j - 1] \in Seq(S))
    BY <1>1
  <2> HIDE DEF j
  <2>2. h[j] = IF j = 1 THEN seqs[j] ELSE h[j - 1] \o seqs[j]
    BY <1>3, <2>1 DEF Flattens
  <2>3. h[j] \in Seq(S)
    BY <2>1, <2>2, ConcatProperties
  <2> QED
    BY <2>3 DEF j
<1>7. Nat \subseteq K
  <2> HIDE DEF K
  <2> QED
    BY <1>5, <1>6, SetInduction
<1> QED
  BY <1>1, <1>4, <1>7

LEMMA LeastOf ==
  ASSUME NEW S, S \subseteq Nat, S # {}
  PROVE  \E x \in S : \A y \in S : x <= y
  BY SmallestOf

\* The places of a quote are within the text, and one that counts as exact has a
\* first place and no other that does not overlap it.
LEMMA QuoteStands ==
  ASSUME NEW text \in Seq(Cell), NEW quote \in Seq(Cell), QuoteMatch(text, quote) = "exact_match"
  PROVE  /\ quote # <<>>
         /\ QuoteStart(text, quote) \in Places(text, quote) /\ QuoteStart(text, quote) \in Nat
         /\ QuoteStart(text, quote) + Len(quote) <= Len(text)
         /\ \A i \in Places(text, quote) :
              QuoteStart(text, quote) <= i /\ i < QuoteStart(text, quote) + Len(quote)
<1>1. PICK P : P = Places(text, quote)
  OBVIOUS
<1>2. Len(text) \in Nat /\ Len(quote) \in Nat
  OBVIOUS
<1>3. P \subseteq Nat /\ \A i \in P : i + Len(quote) <= Len(text)
  BY <1>1, <1>2 DEF Places
<1>4. /\ quote # <<>> /\ P # {}
      /\ \A i, j \in P : ~(j >= i + Len(quote))
  BY <1>1, SMTT(30) DEF QuoteMatch
<1>5. PICK s : s = QuoteStart(text, quote)
  OBVIOUS
<1>6. s \in P /\ \A j \in P : s <= j
  <2>1. s = CHOOSE i \in P : \A j \in P : i <= j
    BY <1>1, <1>5 DEF QuoteStart
  <2> QED
    BY <1>3, <1>4, <2>1, LeastOf
<1>7. \A i \in P : i < s + Len(quote)
  BY <1>2, <1>3, <1>4, <1>6
<1> QED
  BY <1>1, <1>3, <1>4, <1>5, <1>6, <1>7

\* Evidence number i of a clause, of the quote from start to end on page p.
Entry(i, p, reference, quote, start, end, blocks, status) ==
  [id |-> i, page |-> p, clause |-> reference, quote |-> quote, start |-> start, end |-> end,
   blocks |-> blocks, status |-> status]

\* What a candidate says of the place of the quote.
HasPlace(text, quote, start, end, status) ==
  \/ /\ status = "exact_match" /\ QuoteMatch(text, quote) = "exact_match"
     /\ start = QuoteStart(text, quote) /\ end = start + Len(quote)
  \/ status = "evidence_ambiguous" /\ start = 0 /\ end = 0

LEMMA CandidateIs ==
  ASSUME NEW clause, NEW quote, NEW page, NEW p, Candidate(clause, quote, page, p) # <<>>
  PROVE  \E start, end, blocks, status :
           /\ Candidate(clause, quote, page, p) =
                <<Entry(0, p, clause.reference, quote, start, end, blocks, status)>>
           /\ HasPlace(page.text, quote, start, end, status)
<1>1. PICK start : start = QuoteStart(page.text, quote)
  OBVIOUS
<1>2. PICK end : end = start + Len(quote)
  OBVIOUS
<1>3. PICK blocks : blocks = LET here == Overlapping(page.blocks, start, end) IN
                             IF here # {} THEN here ELSE clause.blocks \cap BlockIds(page.blocks)
  OBVIOUS
<1>4. CASE QuoteMatch(page.text, quote) = "exact_match"
  <2>1. Candidate(clause, quote, page, p) =
          <<Entry(0, p, clause.reference, quote, start, end, blocks, "exact_match")>>
    BY <1>1, <1>2, <1>3, <1>4 DEF Candidate, Entry
  <2>2. HasPlace(page.text, quote, start, end, "exact_match")
    BY <1>1, <1>2, <1>4 DEF HasPlace
  <2> QED
    BY <2>1, <2>2
<1>5. CASE QuoteMatch(page.text, quote) = "ambiguous_match"
  <2>1. Candidate(clause, quote, page, p) =
          <<Entry(0, p, clause.reference, quote, 0, 0, {}, "evidence_ambiguous")>>
    BY <1>5 DEF Candidate, Entry
  <2>2. HasPlace(page.text, quote, 0, 0, "evidence_ambiguous")
    BY DEF HasPlace
  <2> QED
    BY <2>1, <2>2
<1>6. CASE QuoteMatch(page.text, quote) \notin {"exact_match", "ambiguous_match"}
  BY <1>6 DEF Candidate
<1> QED
  BY <1>4, <1>5, <1>6

\* Numbering changes the number only.
LEMMA Renumbered ==
  ASSUME NEW i, NEW p, NEW r, NEW q, NEW s, NEW t, NEW b, NEW u
  PROVE  [Entry(0, p, r, q, s, t, b, u) EXCEPT !.id = i] = Entry(i, p, r, q, s, t, b, u)
  BY DEF Entry

\* What a list of candidates is, whatever the pages.
AreCandidates(list, clause, quote, snapshot) ==
  /\ \E S : list \in Seq(S)
  /\ \A i \in DOMAIN list : \E p \in DOMAIN snapshot : \E start, end, blocks, status :
       /\ list[i] = Entry(i, p, clause.reference, quote, start, end, blocks, status)
       /\ HasPlace(snapshot[p].text, quote, start, end, status)

LEMMA CandidatesAre ==
  ASSUME NEW clause, NEW quote, NEW Page, NEW snapshot \in Seq(Page), snapshot # <<>>
  PROVE  AreCandidates(Candidates(clause, quote, snapshot), clause, quote, snapshot)
<1> DEFINE of(p) == Candidate(clause, quote, snapshot[p], p)
<1>1. PICK n \in Nat : n = Len(snapshot) /\ n # 0 /\ DOMAIN snapshot = 1 .. n
  OBVIOUS
<1>2. PICK S : S = {of(p)[1] : p \in {x \in 1 .. n : of(x) # <<>>}}
  OBVIOUS
<1>3. PICK seqs : seqs = [p \in 1 .. n |-> of(p)]
  OBVIOUS
<1>4. ASSUME NEW p \in 1 .. n PROVE of(p) \in Seq(S)
  <2> HIDE DEF of
  <2>1. CASE of(p) = <<>>
    BY <2>1
  <2>2. CASE of(p) # <<>>
    <3>1. PICK x : of(p) = <<x>>
      BY <2>2, CandidateIs DEF of
    <3>2. of(p)[1] = x
      BY <3>1
    <3>3. x \in S
      BY <1>2, <2>2, <3>2
    <3> QED
      BY <3>1, <3>3
  <2> QED
    BY <2>1, <2>2
<1>5. seqs \in Seq(Seq(S)) /\ seqs # <<>>
  <2> HIDE DEF of
  <2>1. seqs \in Seq(Seq(S)) /\ Len(seqs) = n
    BY <1>1, <1>3, <1>4
  <2> QED
    BY <1>1, <2>1
<1>6. PICK found : found = FlattenSeq(seqs)
  OBVIOUS
<1>7. found \in Seq(S)
  BY <1>5, <1>6, FlattenedIs
<1>8. PICK m \in Nat : m = Len(found) /\ \A i \in 1 .. m : found[i] \in S
  BY <1>7
<1>9. PICK list : list = [i \in 1 .. m |-> [found[i] EXCEPT !.id = i]]
  OBVIOUS
<1>10. Candidates(clause, quote, snapshot) = list
  BY <1>1, <1>3, <1>6, <1>8, <1>9 DEF Candidates
<1>11. DOMAIN list = 1 .. m /\ \E T : list \in Seq(T)
  <2>1. DOMAIN list = 1 .. m
    BY <1>9
  <2>2. PICK T : T = {list[i] : i \in 1 .. m}
    OBVIOUS
  <2>3. list = [i \in 1 .. m |-> list[i]] /\ \A i \in 1 .. m : list[i] \in T
    BY <1>9, <2>2
  <2>4. list \in Seq(T)
    BY <2>3
  <2> QED
    BY <2>1, <2>4
<1>12. ASSUME NEW i \in 1 .. m
       PROVE  \E p \in DOMAIN snapshot : \E start, end, blocks, status :
                /\ list[i] = Entry(i, p, clause.reference, quote, start, end, blocks, status)
                /\ HasPlace(snapshot[p].text, quote, start, end, status)
  <2>1. PICK p \in 1 .. n : of(p) # <<>> /\ found[i] = of(p)[1]
    BY <1>2, <1>8
  <2>2. PICK start, end, blocks, status :
          /\ of(p) = <<Entry(0, p, clause.reference, quote, start, end, blocks, status)>>
          /\ HasPlace(snapshot[p].text, quote, start, end, status)
    BY <2>1, CandidateIs
  <2> HIDE DEF of
  <2>3. found[i] = Entry(0, p, clause.reference, quote, start, end, blocks, status)
    BY <2>1, <2>2
  <2>4. list[i] = [found[i] EXCEPT !.id = i]
    BY <1>9
  <2>5. list[i] = Entry(i, p, clause.reference, quote, start, end, blocks, status)
    BY <2>3, <2>4, Renumbered
  <2> QED
    BY <1>1, <2>2, <2>5
<1> QED
  BY <1>10, <1>11, <1>12 DEF AreCandidates

\* The evidence e stands for the quote of the clause: verbatim at its place, the first
\* one on its page, where no other place is free of it; in blocks of the page,
\* and within the clause, when that has a place.
BoundTo(e, clause, quote, snapshot) ==
  LET page == snapshot[e.page] IN
  /\ e.page \in DOMAIN snapshot
  /\ e.clause = clause.reference /\ e.quote = quote /\ e.status = "exact_match"
  /\ e.start \in Nat /\ e.end = e.start + Len(quote) /\ e.end <= Len(page.text)
  /\ StandsAt(page.text, quote, e.start)
  /\ \A i \in Places(page.text, quote) : e.start <= i /\ i < e.end
  /\ e.blocks # {} /\ e.blocks \subseteq BlockIds(page.blocks)
  /\ clause.start # NoOffset => clause.start <= e.start /\ e.end <= clause.end

\* No check of e fails, and the binding is no error.
Passes(e, clause, snapshot) == ReferenceError(e, clause, snapshot) = ""

Succeeds(bound) == bound.error = ""

\* What the checks let pass is bound: those without a place do not pass.
LEMMA CheckedIsBound ==
  ASSUME NEW clause, NEW quote \in Seq(Cell), NEW snapshot,
         NEW p \in DOMAIN snapshot, snapshot[p].text \in Seq(Cell),
         NEW i, NEW start, NEW end, NEW blocks, NEW status,
         NEW e, e = Entry(i, p, clause.reference, quote, start, end, blocks, status),
         HasPlace(snapshot[p].text, quote, start, end, status),
         Passes(e, clause, snapshot)
  PROVE  quote # <<>> /\ BoundTo(e, clause, quote, snapshot)
<1>1. /\ e.id = i /\ e.page = p /\ e.clause = clause.reference /\ e.quote = quote
      /\ e.start = start /\ e.end = end /\ e.blocks = blocks /\ e.status = status
  BY DEF Entry
<1>2. PICK text \in Seq(Cell) : text = snapshot[p].text
  OBVIOUS
<1>3. /\ ~(e.start < 0 \/ e.end <= e.start \/ e.end > Len(snapshot[e.page].text))
      /\ ~(e.blocks = {} \/ ~(e.blocks \subseteq BlockIds(snapshot[e.page].blocks)))
      /\ ~(clause.start # NoOffset /\ ~(clause.start <= e.start /\ e.end <= clause.end))
  BY Zenon DEF Passes, ReferenceError
<1>4. CASE /\ status = "exact_match" /\ QuoteMatch(text, quote) = "exact_match"
           /\ start = QuoteStart(text, quote) /\ end = start + Len(quote)
  <2>1. /\ quote # <<>> /\ start \in Places(text, quote) /\ start \in Nat
        /\ start + Len(quote) <= Len(text)
        /\ \A j \in Places(text, quote) : start <= j /\ j < start + Len(quote)
    BY <1>4, QuoteStands
  <2>2. StandsAt(text, quote, start)
    BY <2>1 DEF Places
  <2>3. snapshot[e.page].text = text /\ e.page \in DOMAIN snapshot
    BY <1>1, <1>2
  <2>4. /\ e.start \in Nat /\ e.end = e.start + Len(quote) /\ e.end <= Len(text)
        /\ StandsAt(text, quote, e.start)
        /\ \A j \in Places(text, quote) : e.start <= j /\ j < e.end
    BY <1>1, <1>4, <2>1, <2>2
  <2>5. e.clause = clause.reference /\ e.quote = quote /\ e.status = "exact_match"
    BY <1>1, <1>4
  <2> QED
    BY <1>3, <2>1, <2>3, <2>4, <2>5, Zenon DEF BoundTo
<1>5. CASE status = "evidence_ambiguous" /\ start = 0 /\ end = 0
  <2>1. e.start = 0 /\ e.end = 0
    BY <1>1, <1>5
  <2>2. e.end <= e.start
    BY <2>1
  <2> QED
    BY <1>3, <2>2
<1>6. HasPlace(text, quote, start, end, status)
  BY <1>2
<1> QED
  BY <1>4, <1>5, <1>6, Zenon DEF HasPlace

\* The evidence of a binding: each stands for the quote, the first number is among
\* them, there are not more than may be kept, and neither number nor place is
\* there twice.
SoundBinding(items, clause, quote, snapshot) ==
  /\ quote # <<>>
  /\ \A e \in items : BoundTo(e, clause, quote, snapshot)
  /\ \A e \in items : e.id \in 1 .. MaxEvidence
  /\ \E e \in items : e.id = 1
  /\ \A e, f \in items : e.id = f.id => e = f
  /\ \A e, f \in items : <<e.page, e.start, e.end>> = <<f.page, f.start, f.end>> => e = f

\* Without an error the candidates that are kept have passed every check.
LEMMA BoundFrom ==
  ASSUME NEW clause, NEW quote, NEW snapshot, snapshot # <<>>, Succeeds(Bind(clause, quote, snapshot))
  PROVE  LET found == Candidates(clause, quote, snapshot)
             n == IF Len(found) < MaxEvidence THEN Len(found) ELSE MaxEvidence
             list == SubSeq(found, 1, n) IN
         /\ quote # <<>> /\ found # <<>>
         /\ DOMAIN list \subseteq Nat =>
              /\ Bind(clause, quote, snapshot).items = Distinct(list)
              /\ \A i \in DOMAIN list : Passes(list[i], clause, snapshot)
<1> DEFINE found == Candidates(clause, quote, snapshot)
           n == IF Len(found) < MaxEvidence THEN Len(found) ELSE MaxEvidence
           list == SubSeq(found, 1, n)
           bad == {i \in DOMAIN list : ReferenceError(list[i], clause, snapshot) # ""}
           first == CHOOSE i \in bad : \A j \in bad : i <= j
           wrong == [error |-> ReferenceError(list[first], clause, snapshot), items |-> {}]
           right == [error |-> "", items |-> Distinct(list)]
           bound == Bind(clause, quote, snapshot)
<1>1. quote # <<>> /\ found # <<>> /\ bound = IF bad # {} THEN wrong ELSE right
  <2>1. CASE quote = <<>>
    <3>1. bound = [error |-> "evidence_reference_invalid", items |-> {}]
      BY <2>1 DEF Bind
    <3>2. bound.error = "evidence_reference_invalid"
      BY <3>1
    <3> QED
      BY <3>2, Zenon DEF Succeeds
  <2>2. CASE quote # <<>> /\ found = <<>>
    <3>1. bound = [error |-> "evidence_missing", items |-> {}]
      BY <2>2 DEF Bind
    <3>2. bound.error = "evidence_missing"
      BY <3>1
    <3> QED
      BY <3>2, Zenon DEF Succeeds
  <2>3. CASE quote # <<>> /\ found # <<>>
    BY <2>3 DEF Bind
  <2> QED
    BY <2>1, <2>2, <2>3
<1>2. bound.error = "" /\ wrong.error = ReferenceError(list[first], clause, snapshot)
  BY Zenon DEF Succeeds
<1>3. right.items = Distinct(list)
  OBVIOUS
<1>4. ASSUME DOMAIN list \subseteq Nat PROVE bad = {}
  <2> SUFFICES ASSUME bad # {} PROVE FALSE
    OBVIOUS
  <2>1. bad \subseteq Nat
    BY <1>4
  <2>2. first \in bad
    <3> HIDE DEF bad
    <3> QED
      BY <2>1, LeastOf
  <2>3. ReferenceError(list[first], clause, snapshot) # ""
    <3> HIDE DEF list, first
    <3> QED
      BY <2>2
  <2> HIDE DEF bad, bound, wrong, right
  <2> QED
    BY <1>1, <1>2, <2>3
<1>5. ASSUME DOMAIN list \subseteq Nat
      PROVE  bound.items = Distinct(list) /\ \A i \in DOMAIN list : Passes(list[i], clause, snapshot)
  <2>1. bad = {}
    BY <1>4, <1>5
  <2>2. \A i \in DOMAIN list : Passes(list[i], clause, snapshot)
    <3> HIDE DEF list
    <3> QED
      BY <2>1, Zenon DEF Passes
  <2>3. bound = right
    <3> HIDE DEF bad, bound, right, wrong
    <3> QED
      BY <1>1, <2>1
  <2> QED
    BY <1>3, <2>2, <2>3, Zenon
<1> QED
  BY <1>1, <1>5, Zenon

\* Whatever a clause, a quote and the pages are, evidence that is bound without an error
\* stands for the quote, and is never missing or counted twice (bind_clause_to_snapshot,
\* validate_evidence_reference, deduplicate_evidence).
THEOREM BoundEvidenceStands ==
  ASSUME NEW clause, NEW quote \in Seq(Cell), NEW Blocks,
         NEW snapshot \in Seq([text : Seq(Cell), blocks : Blocks]), snapshot # <<>>,
         Succeeds(Bind(clause, quote, snapshot))
  PROVE  SoundBinding(Bind(clause, quote, snapshot).items, clause, quote, snapshot)
<1>1. PICK found : found = Candidates(clause, quote, snapshot)
  OBVIOUS
<1>2. AreCandidates(found, clause, quote, snapshot)
  BY <1>1, CandidatesAre
<1>3. PICK S : found \in Seq(S)
  BY <1>2 DEF AreCandidates
<1>4. Len(found) \in Nat /\ DOMAIN found = 1 .. Len(found)
  BY <1>3
<1>5. PICK n : n = IF Len(found) < MaxEvidence THEN Len(found) ELSE MaxEvidence
  OBVIOUS
<1>6. n \in Nat /\ n <= Len(found) /\ n <= MaxEvidence
  BY <1>4, <1>5 DEF MaxEvidence
<1>7. PICK list : list = SubSeq(found, 1, n)
  OBVIOUS
<1>8. DOMAIN list = 1 .. n /\ \A i \in 1 .. n : list[i] = found[i]
  BY <1>3, <1>4, <1>6, <1>7, SubSeqProperties
<1>9. PICK items : items = Bind(clause, quote, snapshot).items
  OBVIOUS
<1>10. /\ quote # <<>> /\ found # <<>> /\ items = Distinct(list)
      /\ \A i \in DOMAIN list : Passes(list[i], clause, snapshot)
  <2>1. DOMAIN list \subseteq Nat
    BY <1>6, <1>8
  <2> QED
    BY <1>1, <1>5, <1>7, <1>9, <2>1, BoundFrom
<1>11. n > 0
  <2>1. Len(found) # 0
    BY <1>3, <1>10
  <2> QED
    BY <1>4, <1>5, <2>1 DEF MaxEvidence
<1>12. ASSUME NEW i \in 1 .. n
       PROVE  BoundTo(list[i], clause, quote, snapshot) /\ list[i].id = i
  <2>1. i \in DOMAIN found /\ i \in DOMAIN list /\ list[i] = found[i]
    BY <1>4, <1>6, <1>8
  <2>2. PICK p \in DOMAIN snapshot : \E start, end, blocks, status :
          /\ list[i] = Entry(i, p, clause.reference, quote, start, end, blocks, status)
          /\ HasPlace(snapshot[p].text, quote, start, end, status)
    BY <1>2, <2>1 DEF AreCandidates
  <2>3. snapshot[p].text \in Seq(Cell)
    <3>1. PICK Page : Page = [text : Seq(Cell), blocks : Blocks]
      OBVIOUS
    <3>2. snapshot \in Seq(Page)
      BY <3>1
    <3>3. snapshot[p] \in Page
      BY <3>2
    <3> QED
      BY <3>1, <3>3
  <2>4. PICK start, end, blocks, status :
          /\ list[i] = Entry(i, p, clause.reference, quote, start, end, blocks, status)
          /\ HasPlace(snapshot[p].text, quote, start, end, status)
    BY <2>2
  <2>5. list[i].id = i
    BY <2>4 DEF Entry
  <2>6. Passes(list[i], clause, snapshot)
    BY <1>10, <2>1
  <2>7. BoundTo(list[i], clause, quote, snapshot)
    BY <2>3, <2>4, <2>6, CheckedIsBound
  <2> QED
    BY <2>5, <2>7
<1>13. \A i \in 1 .. n : list[i].id = i
  BY <1>12
<1>14. Range(list) = {list[i] : i \in 1 .. n}
  BY <1>8, Zenon DEF Range
<1>15. \A e : e \in items <=>
        /\ e \in Range(list)
        /\ \A j \in 1 .. e.id - 1 :
             <<list[j].page, list[j].start, list[j].end>> # <<e.page, e.start, e.end>>
  BY <1>10, Zenon DEF Distinct
<1>16. ASSUME NEW e \in items PROVE \E i \in 1 .. n : e = list[i] /\ e.id = i
  <2>1. e \in Range(list)
    BY <1>15, Zenon
  <2>2. PICK i \in 1 .. n : e = list[i]
    BY <1>14, <2>1, Zenon
  <2> QED
    BY <1>13, <2>2, Zenon
<1>17. \E e \in items : e.id = 1
  <2>1. 1 \in 1 .. n
    BY <1>6, <1>11
  <2>2. list[1].id = 1 /\ list[1] \in Range(list)
    BY <1>13, <1>14, <2>1, Zenon
  <2>3. 1 .. list[1].id - 1 = {}
    BY <2>2
  <2>4. list[1] \in items
    BY <1>15, <2>2, <2>3, Zenon
  <2> QED
    BY <2>2, <2>4, Zenon
<1>18. ASSUME NEW e \in items, NEW f \in items, e.id = f.id PROVE e = f
  <2>1. PICK i \in 1 .. n : e = list[i] /\ e.id = i
    BY <1>16
  <2>2. PICK j \in 1 .. n : f = list[j] /\ f.id = j
    BY <1>16
  <2>3. i = j
    BY <1>18, <2>1, <2>2, Zenon
  <2> QED
    BY <2>1, <2>2, <2>3, Zenon
<1>19. ASSUME NEW e \in items, NEW f \in items,
              <<e.page, e.start, e.end>> = <<f.page, f.start, f.end>>
       PROVE  e = f
  <2>1. PICK i \in 1 .. n : e = list[i] /\ e.id = i
    BY <1>16
  <2>2. PICK j \in 1 .. n : f = list[j] /\ f.id = j
    BY <1>16
  <2>3. /\ \A k \in 1 .. i - 1 : <<list[k].page, list[k].start, list[k].end>> # <<e.page, e.start, e.end>>
        /\ \A k \in 1 .. j - 1 : <<list[k].page, list[k].start, list[k].end>> # <<f.page, f.start, f.end>>
    BY <1>15, <2>1, <2>2, Zenon
  <2>4. ~(j < i) /\ ~(i < j)
    <3>1. j < i => j \in 1 .. i - 1
      OBVIOUS
    <3>2. i < j => i \in 1 .. j - 1
      OBVIOUS
    <3> QED
      BY <1>19, <2>1, <2>2, <2>3, <3>1, <3>2, Zenon
  <2>5. i = j
    BY <1>6, <2>4
  <2> QED
    BY <2>1, <2>2, <2>5
<1>20. \A e \in items : BoundTo(e, clause, quote, snapshot) /\ e.id \in 1 .. MaxEvidence
  <2> TAKE e \in items
  <2>1. PICK i \in 1 .. n : e = list[i]
    BY <1>16
  <2>2. i \in 1 .. MaxEvidence
    BY <1>6 DEF MaxEvidence
  <2> QED
    BY <1>12, <2>1, <2>2
<1>21. SoundBinding(items, clause, quote, snapshot)
  BY <1>10, <1>17, <1>18, <1>19, <1>20, Zenon DEF SoundBinding
<1> QED
  BY <1>9, <1>21

-----------------------------------------------------------------------------
(* The evidence of a confirmed extraction.  Its blocks have no id, so no      *)
(* candidate passes, and only a run that found no snapshot gets results.     *)

Unplaced(item) == \A e \in item.evidence : e.status = "not_available"

\* No result of a document names a place in it (SnapshotOf, bind_clause_to_snapshot).
NoEvidenceIsPlaced == \A j \in DOMAIN jobs : \A item \in jobs[j].items : Unplaced(item)

\* The analysis of a confirmed extraction completes only by a fault: a run that took a
\* database error for a missing extraction (load_extraction_snapshot).
ConfirmedNeedsFault == ~IsText /\ jobs # <<>> /\ Newest.status = "completed" => log.fault

\* A run that has a snapshot does not get past its first clause.
SnapshotInv ==
  /\ run.at = "load" => run.next = 1
  /\ run.at \in {"next", "call"} /\ run.snapshot # <<>> => run.next = 1
  /\ run.at \in {"next", "call"} /\ run.snapshot = <<>> /\ ~IsText => log.fault
  /\ \A item \in run.items : Unplaced(item)

EvidenceInv == SnapshotInv /\ NoEvidenceIsPlaced /\ ConfirmedNeedsFault

LEMMA OnlyOne ==
  ASSUME NEW b PROVE DOMAIN <<b>> = {1} /\ <<b>>[1] = b
  OBVIOUS

LEMMA NeverBinds ==
  ASSUME NEW pages \in Seq(Seq(Line)), NEW clause, NEW quote \in Seq(Cell),
         NEW snapshot, snapshot = SnapshotOf(pages), snapshot # <<>>
  PROVE  ~Succeeds(Bind(clause, quote, snapshot))
<1> SUFFICES ASSUME Succeeds(Bind(clause, quote, snapshot)) PROVE FALSE
  OBVIOUS
<1> DEFINE textOf(p) == PageText(pages[p])
           blocksOf(p) == <<[id |-> "", first |-> 0, last |-> Len(textOf(p))]>>
<1>1. PICK n \in Nat : n = Len(pages)
  OBVIOUS
<1>2. snapshot = [p \in 1 .. n |-> [text |-> textOf(p), blocks |-> blocksOf(p)]]
  BY <1>1, Zenon DEF SnapshotOf
<1>3. \A p \in 1 .. n : textOf(p) \in Seq(Cell)
  BY <1>1, PageTextTyped
<1>4. \A p \in 1 .. n : BlockIds(blocksOf(p)) = {}
  <2> TAKE p \in 1 .. n
  <2>1. ASSUME NEW id \in BlockIds(blocksOf(p)) PROVE FALSE
    <3>1. PICK i \in DOMAIN blocksOf(p) : id = blocksOf(p)[i].id
      BY <2>1, Zenon DEF BlockIds
    <3>2. id # ""
      BY <2>1, Zenon DEF BlockIds
    <3>3. PICK b : b = [id |-> "", first |-> 0, last |-> Len(textOf(p))]
      BY Zenon
    <3>4. blocksOf(p) = <<b>> /\ b.id = ""
      BY <3>3, Zenon
    <3>5. i = 1
      <4> HIDE DEF blocksOf
      <4> QED
        BY <3>1, <3>4, OnlyOne, Zenon
    <3>6. blocksOf(p)[i] = b
      <4> HIDE DEF blocksOf
      <4> QED
        BY <3>4, <3>5, OnlyOne, Zenon
    <3> HIDE DEF blocksOf
    <3> QED
      BY <3>1, <3>2, <3>4, <3>6, Zenon
  <2> QED
    BY <2>1
<1> HIDE DEF textOf, blocksOf
<1>5. PICK Blocks : Blocks = {blocksOf(p) : p \in 1 .. n}
  OBVIOUS
<1>6. snapshot \in Seq([text : Seq(Cell), blocks : Blocks])
  <2>1. PICK Page : Page = [text : Seq(Cell), blocks : Blocks]
    OBVIOUS
  <2>2. \A p \in 1 .. n : [text |-> textOf(p), blocks |-> blocksOf(p)] \in Page
    BY <1>3, <1>5, <2>1
  <2>3. snapshot \in Seq(Page)
    BY <1>2, <2>2
  <2> QED
    BY <2>1, <2>3
<1>7. SoundBinding(Bind(clause, quote, snapshot).items, clause, quote, snapshot)
  BY <1>6, BoundEvidenceStands
<1>8. PICK e : BoundTo(e, clause, quote, snapshot)
  BY <1>7, Zenon DEF SoundBinding
<1>9. e.page \in DOMAIN snapshot /\ e.blocks # {} /\ e.blocks \subseteq BlockIds(snapshot[e.page].blocks)
  BY <1>8, Zenon DEF BoundTo
<1>10. e.page \in 1 .. n /\ snapshot[e.page].blocks = blocksOf(e.page)
  BY <1>2, <1>9
<1> QED
  BY <1>4, <1>9, <1>10

\* What a run with a snapshot gets for its clause is refused, and what one without
\* keeps has no place.
LEMMA AcceptedIsUnplaced ==
  ASSUME PipelineInv, run.at = "call", NEW bound, bound = Bind(Clause, Quote(Clause.text), run.snapshot),
         NEW r, Accepts(r, bound)
  PROVE  run.snapshot = <<>> /\ Unplaced(Item(run.next, r, bound.items))
<1>1. stored # None /\ run \in Run /\ run.next \in DOMAIN stored
  BY StoredList DEF PipelineInv, Shape, StoredInv, RunInv, Clauses
<1>2. Quote(Clause.text) \in Seq(Cell)
  BY <1>1, StoredList, QuoteTyped DEF PipelineInv, Clause
<1>3. Succeeds(bound)
  BY Zenon DEF Accepts, Succeeds
<1>4. run.snapshot = <<>>
  <2> SUFFICES ASSUME run.snapshot # <<>> PROVE FALSE
    OBVIOUS
  <2>1. PICK d \in Documents : run.snapshot = SnapshotOf(d.parts)
    BY <1>1 DEF Run, Snapshots
  <2>2. d.parts \in Seq(Seq(Line))
    <3>1. CASE d \in [kind : {"text"}, parts : Seq(Seq(Line) \ {<<>>})]
      BY <3>1
    <3>2. CASE d \in [kind : {"extraction"}, parts : ConfirmedPages]
      BY <3>2 DEF ConfirmedPages
    <3> QED
      BY <3>1, <3>2, DocumentsAssumption
  <2> QED
    BY <1>2, <1>3, <2>1, <2>2, NeverBinds
<1>5. PICK e : e = [id |-> 1, page |-> 1, clause |-> Clause.reference, quote |-> Quote(Clause.text),
                    start |-> 0, end |-> 0, blocks |-> {}, status |-> "not_available"]
  OBVIOUS
<1>6. bound.items = {e}
  <2>1. bound = Bind(Clause, Quote(Clause.text), <<>>)
    BY <1>4
  <2>2. PICK I : I = {e}
    OBVIOUS
  <2>3. PICK b : b = [error |-> "", items |-> I]
    BY Zenon
  <2>4. b.items = I
    BY <2>3, Zenon
  <2>5. bound = b
    BY <1>5, <2>1, <2>2, <2>3, Zenon DEF Bind
  <2> QED
    BY <2>2, <2>4, <2>5
<1>7. e.status = "not_available"
  BY <1>5
<1>8. Item(run.next, r, bound.items).evidence = {[id |-> f.id, status |-> f.status] : f \in bound.items}
  BY DEF Item
<1>9. ASSUME NEW f \in Item(run.next, r, bound.items).evidence PROVE f.status = "not_available"
  <2>1. f = [id |-> e.id, status |-> e.status]
    BY <1>6, <1>8
  <2> QED
    BY <1>7, <2>1
<1> QED
  BY <1>4, <1>9 DEF Unplaced

\* A run ends without results.
LEMMA EvidenceEnds ==
  ASSUME PipelineInv, EvidenceInv, run.at # "off", NEW status \in {"pending", "failed"},
         jobs' = [jobs EXCEPT ![run.job] = Ends(Newest, status)], run' = NoRun, source' = source
  PROVE  EvidenceInv'
<1> DEFINE ended == Ends(Newest, status)
           n == Len(jobs)
<1>1. /\ ended \in Job /\ ended.status = status /\ ended.items = {}
  BY JobOfRun DEF Statuses
<1>2. jobs \in Seq(Job) /\ n \in DOMAIN jobs /\ run.job = n
  BY DEF PipelineInv, Shape, RunInv
<1> HIDE DEF ended
<1>3. /\ Len(jobs') = n /\ DOMAIN jobs' = DOMAIN jobs /\ jobs'[n] = ended
      /\ \A j \in DOMAIN jobs \ {n} : jobs'[j] = jobs[j]
  BY <1>2 DEF ended
<1>4. NoEvidenceIsPlaced'
  BY <1>1, <1>3 DEF EvidenceInv, NoEvidenceIsPlaced
<1>5. Newest' = ended
  BY <1>3 DEF Newest
<1>6. ConfirmedNeedsFault'
  BY <1>1, <1>5 DEF ConfirmedNeedsFault
<1>7. SnapshotInv'
  BY DEF SnapshotInv, NoRun
<1> QED
  BY <1>4, <1>6, <1>7 DEF EvidenceInv

LEMMA EvidenceFails ==
  ASSUME PipelineInv, EvidenceInv, run.at # "off", NEW retryable, NEW calls, NEW fault,
         Fails(retryable, calls, fault)
  PROVE  EvidenceInv'
<1>1. PICK status \in {"pending", "failed"} :
        jobs' = [jobs EXCEPT ![run.job] = Ends(Newest, status)]
  BY JobOfRun DEF Fails
<1> QED
  BY <1>1, EvidenceEnds DEF Fails

\* A run goes on.
LEMMA EvidenceWithin ==
  ASSUME PipelineInv, EvidenceInv, run.at # "off", UNCHANGED <<source, jobs>>, SnapshotInv'
  PROVE  EvidenceInv'
<1>1. Newest' = Newest /\ Newest.status = "running"
  BY JobOfRun DEF Newest
<1> QED
  BY <1>1 DEF EvidenceInv, NoEvidenceIsPlaced, ConfirmedNeedsFault

LEMMA EvidenceLoad == ASSUME PipelineInv, EvidenceInv, LoadSnapshot PROVE EvidenceInv'
<1>1. run.at = "load" /\ run \in Run /\ log \in Log /\ UNCHANGED <<source, jobs>> /\ run.next = 1
  BY DEF LoadSnapshot, InRun, PipelineInv, Shape, EvidenceInv, SnapshotInv
<1>2. /\ run'.at = "next" /\ run'.next = 1 /\ run'.items = run.items
      /\ run'.snapshot = <<>> /\ ~IsText => log'.fault
  <2>1. CASE run' = [run EXCEPT !.at = "next"] /\ log' = [log EXCEPT !.fault = TRUE]
    BY <1>1, <2>1 DEF Run, Log
  <2>2. CASE run' = [run EXCEPT !.at = "next",
                                !.snapshot = IF IsText THEN <<>> ELSE SnapshotOf(source.parts)]
    <3>1. PICK s : s = IF IsText THEN <<>> ELSE SnapshotOf(source.parts)
      OBVIOUS
    <3>2. run'.at = "next" /\ run'.next = 1 /\ run'.items = run.items /\ run'.snapshot = s
      BY <1>1, <2>2, <3>1 DEF Run
    <3>3. ASSUME ~IsText PROVE s # <<>>
      <4>1. source \in [kind : {"extraction"}, parts : ConfirmedPages]
        BY <3>3, DocumentsAssumption DEF PipelineInv, Shape, IsText
      <4>2. PICK pages : pages = source.parts /\ pages \in Seq(Seq(Line)) /\ pages # <<>>
        BY <4>1 DEF ConfirmedPages
      <4>3. Len(pages) \in Nat /\ Len(pages) # 0
        BY <4>2
      <4>4. DOMAIN s = 1 .. Len(pages)
        BY <3>1, <3>3, <4>2, Zenon DEF SnapshotOf
      <4> QED
        BY <4>3, <4>4
    <3> QED
      BY <3>2, <3>3
  <2> QED
    BY <2>1, <2>2 DEF LoadSnapshot
<1>3. SnapshotInv'
  BY <1>1, <1>2 DEF EvidenceInv, SnapshotInv, IsText
<1> QED
  BY <1>1, <1>3, EvidenceWithin

LEMMA EvidencePrepare == ASSUME PipelineInv, EvidenceInv, PrepareClause PROVE EvidenceInv'
<1>1. run.at = "next" /\ run.at # "off" /\ run \in Run
  BY DEF PrepareClause, InRun, PipelineInv, Shape
<1>2. CASE run' = [run EXCEPT !.at = "call", !.tries = 0] /\ UNCHANGED <<source, stored, jobs, log, reader>>
  <2>1. run'.at = "call" /\ run'.next = run.next /\ run'.items = run.items /\ run'.snapshot = run.snapshot
    BY <1>1, <1>2 DEF Run
  <2>2. SnapshotInv'
    BY <1>1, <1>2, <2>1 DEF EvidenceInv, SnapshotInv, IsText
  <2> QED
    BY <1>1, <1>2, <2>2, EvidenceWithin
<1>3. CASE Fails(FALSE, 0, FALSE)
  BY <1>1, <1>3, EvidenceFails
<1> QED
  BY <1>2, <1>3 DEF PrepareClause

LEMMA EvidenceCallFails == ASSUME PipelineInv, EvidenceInv, InRun("call"), CallFails PROVE EvidenceInv'
<1>1. run.at = "call" /\ run.at # "off" /\ run \in Run /\ log \in Log
  BY DEF InRun, PipelineInv, Shape
<1>2. PICK error \in Errors :
        \/ /\ run' = [run EXCEPT !.tries = @ + 1] /\ log' = [log EXCEPT !.calls = @ + 1]
           /\ UNCHANGED <<source, jobs>>
        \/ Fails(Retryable(error), 1, TRUE)
  BY DEF CallFails
<1>3. CASE /\ run' = [run EXCEPT !.tries = @ + 1] /\ log' = [log EXCEPT !.calls = @ + 1]
           /\ UNCHANGED <<source, jobs>>
  <2>1. /\ run'.at = run.at /\ run'.next = run.next /\ run'.items = run.items
        /\ run'.snapshot = run.snapshot /\ log'.fault = log.fault
    BY <1>1, <1>3 DEF Run, Log
  <2>2. SnapshotInv'
    BY <1>3, <2>1 DEF EvidenceInv, SnapshotInv, IsText
  <2> QED
    BY <1>1, <1>3, <2>2, EvidenceWithin
<1>4. CASE Fails(Retryable(error), 1, TRUE)
  BY <1>1, <1>4, EvidenceFails
<1> QED
  BY <1>2, <1>3, <1>4

LEMMA EvidenceCallAnswers ==
  ASSUME PipelineInv, EvidenceInv, InRun("call"), CallAnswers PROVE EvidenceInv'
<1>1. run.at = "call" /\ run.at # "off" /\ run \in Run /\ log \in Log
  BY DEF InRun, PipelineInv, Shape
<1>2. PICK bound : bound = Bind(Clause, Quote(Clause.text), run.snapshot)
  OBVIOUS
<1>3. PICK r \in Responses :
        IF Accepts(r, bound)
        THEN /\ run' = [run EXCEPT !.at = "next", !.next = @ + 1,
                                   !.items = @ \cup {Item(run.next, r, bound.items)}]
             /\ log' = [log EXCEPT !.calls = @ + 1]
             /\ UNCHANGED <<source, stored, jobs, reader>>
        ELSE Fails(FALSE, 1, ~(ContractAccepts(r) /\ ResultAccepts(r) /\ CitedEvidence(r, {1})))
  BY <1>2 DEF CallAnswers
<1>4. CASE Accepts(r, bound)
  <2>1. PICK item : item = Item(run.next, r, bound.items)
    OBVIOUS
  <2>2. run.snapshot = <<>> /\ Unplaced(item)
    BY <1>1, <1>2, <1>4, <2>1, AcceptedIsUnplaced
  <2>3. run' = [run EXCEPT !.at = "next", !.next = @ + 1, !.items = @ \cup {item}]
    BY <1>3, <1>4, <2>1
  <2>4. /\ run'.at = "next" /\ run'.items = run.items \cup {item} /\ run'.snapshot = run.snapshot
    BY <1>1, <2>3 DEF Run
  <2>5. log'.fault = log.fault /\ UNCHANGED <<source, jobs>>
    BY <1>1, <1>3, <1>4 DEF Log
  <2>6. SnapshotInv'
    BY <1>1, <2>2, <2>4, <2>5 DEF EvidenceInv, SnapshotInv, IsText
  <2> QED
    BY <1>1, <2>5, <2>6, EvidenceWithin
<1>5. CASE ~Accepts(r, bound)
  BY <1>1, <1>3, <1>5, EvidenceFails
<1> QED
  BY <1>4, <1>5

LEMMA EvidenceFinish == ASSUME PipelineInv, EvidenceInv, Finish PROVE EvidenceInv'
<1>1. run.at = "next" /\ run.at # "off" /\ run.next > Clauses
  BY DEF Finish, InRun, Clauses
<1>2. CASE Fails(FALSE, 0, TRUE)
  BY <1>1, <1>2, EvidenceFails
<1>3. CASE /\ jobs' = [jobs EXCEPT ![run.job] = [Ends(@, "completed") EXCEPT !.items = run.items]]
           /\ run' = NoRun
           /\ UNCHANGED <<source, log>>
  <2>1. PICK ended : ended = [Ends(Newest, "completed") EXCEPT !.items = run.items]
    OBVIOUS
  <2>2. ended.items = run.items
    <3>1. "completed" \in Statuses
      BY DEF Statuses
    <3> QED
      BY <1>1, <2>1, <3>1, JobOfRun DEF Job
  <2>3. jobs' = [jobs EXCEPT ![run.job] = ended]
    BY <1>1, <1>3, <2>1, JobOfRun
  <2> DEFINE n == Len(jobs)
  <2>4. jobs \in Seq(Job) /\ n \in DOMAIN jobs /\ run.job = n
    BY <1>1 DEF PipelineInv, Shape, RunInv
  <2>5. /\ DOMAIN jobs' = DOMAIN jobs /\ jobs'[n] = ended
        /\ \A j \in DOMAIN jobs \ {n} : jobs'[j] = jobs[j]
    BY <2>3, <2>4
  <2>6. NoEvidenceIsPlaced'
    BY <2>2, <2>5 DEF EvidenceInv, SnapshotInv, NoEvidenceIsPlaced
  <2>7. ASSUME ~IsText PROVE log.fault
    <3>1. stored # None /\ source \in Documents /\ Clauses \in Nat
      BY <1>1, JobOfRun DEF PipelineInv, Shape
    <3>2. source.kind = "extraction"
      BY <2>7, <3>1, DocumentsAssumption DEF IsText
    <3>3. PICK list : list = SplitOf(source).clauses
      OBVIOUS
    <3>4. Len(list) \in Nat /\ Len(list) # 0
      BY <3>1, <3>2, <3>3, SplitOfDocument
    <3>5. stored = [i \in 1 .. Len(list) |-> StoredClause(list[i])]
      BY <3>1, <3>3, Zenon DEF PipelineInv, StoredInv, StoredClauses
    <3>6. Clauses = Len(list)
      BY <3>4, <3>5, LengthOf DEF Clauses
    <3>7. run.next # 1
      BY <1>1, <3>4, <3>6, JobOfRun
    <3> QED
      BY <1>1, <2>7, <3>7 DEF EvidenceInv, SnapshotInv
  <2>8. ConfirmedNeedsFault'
    BY <1>3, <2>7 DEF ConfirmedNeedsFault, IsText
  <2>9. SnapshotInv'
    BY <1>3 DEF SnapshotInv, NoRun
  <2> QED
    BY <2>6, <2>8, <2>9 DEF EvidenceInv
<1> QED
  BY <1>2, <1>3 DEF Finish

LEMMA EvidenceClaim == ASSUME PipelineInv, EvidenceInv, Claim PROVE EvidenceInv'
<1> DEFINE n == Len(jobs)
<1>1. PICK j \in DOMAIN jobs :
        /\ jobs[j].status = "pending" /\ run' = NewRun(j) /\ source' = source
        /\ jobs' = [jobs EXCEPT ![j].status = "running", ![j].attempts = @ + 1]
  BY DEF Claim
<1>2. jobs \in Seq(Job) /\ j = n
  BY <1>1 DEF PipelineInv, Shape, JobInv, IsActive
<1>3. PICK claimed : claimed = [jobs[j] EXCEPT !.status = "running", !.attempts = @ + 1]
  OBVIOUS
<1>4. jobs[j] \in Job
  BY <1>1, <1>2
<1>5. claimed.status = "running" /\ claimed.items = jobs[j].items
  BY <1>3, <1>4 DEF Job
<1>6. jobs' = [jobs EXCEPT ![j] = claimed]
  BY <1>1, <1>3, <1>4 DEF Job
<1>7. /\ DOMAIN jobs' = DOMAIN jobs /\ Len(jobs') = n /\ jobs'[n] = claimed
      /\ \A i \in DOMAIN jobs \ {n} : jobs'[i] = jobs[i]
  BY <1>1, <1>2, <1>6
<1>8. NoEvidenceIsPlaced'
  BY <1>2, <1>5, <1>7 DEF EvidenceInv, NoEvidenceIsPlaced
<1>9. Newest'.status = "running"
  BY <1>5, <1>7 DEF Newest
<1>10. SnapshotInv'
  BY <1>1 DEF SnapshotInv, NewRun
<1> QED
  BY <1>8, <1>9, <1>10 DEF EvidenceInv, ConfirmedNeedsFault

\* A request between runs, or one that finds an active job.
LEMMA EvidenceEnqueue ==
  ASSUME PipelineInv, PipelineInv', EvidenceInv, Enqueue, UNCHANGED <<source, run>>
  PROVE  EvidenceInv'
<1>1. CASE UNCHANGED <<jobs, log>>
  <2>1. Newest' = Newest
    BY <1>1 DEF Newest
  <2> QED
    BY <1>1, <2>1 DEF EvidenceInv, SnapshotInv, NoEvidenceIsPlaced, ConfirmedNeedsFault, IsText
<1>2. CASE jobs' = Append(jobs, NewJob)
  <2> DEFINE n == Len(jobs)
  <2>1. jobs \in Seq(Job) /\ NewJob \in Job /\ NewJob.status = "pending" /\ NewJob.items = {}
    BY PipelineAssumption DEF PipelineInv, Shape, NewJob, Job, Statuses
  <2>2. /\ n \in Nat /\ Len(jobs') = n + 1 /\ jobs'[n + 1] = NewJob /\ DOMAIN jobs' = 1 .. n + 1
        /\ \A j \in 1 .. n : jobs'[j] = jobs[j] /\ j \in DOMAIN jobs
    BY <1>2, <2>1
  <2>3. NoEvidenceIsPlaced'
    <3>1. ASSUME NEW j \in DOMAIN jobs' PROVE \A item \in jobs'[j].items : Unplaced(item)
      <4>1. CASE j = n + 1
        BY <2>1, <2>2, <4>1
      <4>2. CASE j # n + 1
        <5>1. j \in 1 .. n
          BY <2>2, <4>2
        <5> QED
          BY <2>2, <5>1 DEF EvidenceInv, NoEvidenceIsPlaced
      <4> QED
        BY <4>1, <4>2
    <3> QED
      BY <3>1 DEF NoEvidenceIsPlaced
  <2>4. Newest'.status = "pending"
    BY <2>1, <2>2 DEF Newest
  <2>5. run.at = "off"
    <3>1. RunInv'
      BY DEF PipelineInv
    <3>2. run'.at # "off" => Newest'.status = "running"
      BY <3>1 DEF RunInv
    <3> QED
      BY <2>4, <3>2
  <2>6. SnapshotInv'
    BY <2>5 DEF EvidenceInv, SnapshotInv
  <2> QED
    BY <2>3, <2>4, <2>6 DEF EvidenceInv, ConfirmedNeedsFault
<1> QED
  BY <1>1, <1>2 DEF Enqueue

LEMMA EvidenceOthers ==
  ASSUME PipelineInv, PipelineInv', EvidenceInv,
         \/ UNCHANGED vars \/ Upload \/ RequestForDocument \/ RequestForExtraction
         \/ Crash \/ ReadJob \/ ReadItems
  PROVE  EvidenceInv'
<1>1. CASE UNCHANGED <<source, jobs, run, log>>
  <2>1. Newest' = Newest
    BY <1>1 DEF Newest
  <2> QED
    BY <1>1, <2>1 DEF EvidenceInv, SnapshotInv, NoEvidenceIsPlaced, ConfirmedNeedsFault, IsText
<1>2. CASE RequestForDocument \/ RequestForExtraction
  BY <1>2, EvidenceEnqueue DEF RequestForDocument, RequestForExtraction
<1>3. CASE Crash
  <2>1. run.at # "off" /\ run' = NoRun /\ source' = source
    BY <1>3 DEF Crash, InRun
  <2>2. PICK status \in {"pending", "failed"} :
          jobs' = [jobs EXCEPT ![run.job] = Ends(Newest, status)]
    BY <1>3, <2>1, JobOfRun DEF Crash
  <2> QED
    BY <2>1, <2>2, EvidenceEnds
<1>4. CASE UNCHANGED vars \/ Upload \/ ReadJob \/ ReadItems
  BY <1>1, <1>4 DEF vars, Upload, ReadJob, ReadItems
<1> QED
  BY <1>2, <1>3, <1>4

LEMMA EvidenceIsInvariant == Spec => []EvidenceInv
<1>1. Init => EvidenceInv
  BY DEF Init, NoRun, EvidenceInv, SnapshotInv, NoEvidenceIsPlaced, ConfirmedNeedsFault
<1>2. PipelineInv /\ PipelineInv' /\ EvidenceInv /\ [Next]_vars => EvidenceInv'
  BY EvidenceLoad, EvidencePrepare, EvidenceCallFails, EvidenceCallAnswers, EvidenceFinish,
     EvidenceClaim, EvidenceOthers DEF Next, Call
<1> QED
  BY <1>1, <1>2, PipelineIsInvariant, PTL DEF Spec

\* Whatever the documents and the answers, no result ever names a place in the
\* document: of an upload there is no snapshot, and the blocks of a confirmed
\* extraction have no id (load_extraction_snapshot, validate_evidence_reference).
THEOREM EvidenceIsNeverPlaced == Spec => []NoEvidenceIsPlaced
<1>1. EvidenceInv => NoEvidenceIsPlaced
  BY DEF EvidenceInv
<1> QED
  BY <1>1, EvidenceIsInvariant, PTL

\* Why ConfirmedTextIsAnalysable fails is no matter of the instance: no confirmed
\* extraction is ever analysed unless something went wrong around it (run_analysis_pipeline).
THEOREM ConfirmedCompletesByFaultOnly == Spec => []ConfirmedNeedsFault
<1>1. EvidenceInv => ConfirmedNeedsFault
  BY DEF EvidenceInv
<1> QED
  BY <1>1, EvidenceIsInvariant, PTL
=============================================================================
