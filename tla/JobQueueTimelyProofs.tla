------------------------ MODULE JobQueueTimelyProofs ------------------------
(***************************************************************************)
(* What holds of JobQueue when a running heartbeat keeps its lease         *)
(* (Timely), for any jobs, workers, requests, clients and settings, and    *)
(* that the queue then implements AnalysisService.                         *)
(***************************************************************************)
EXTENDS JobQueueRefinement, JobQueueProofs

USE QueueAssumption

-----------------------------------------------------------------------------
(* A worker that executes a job owns its row and keeps its lease live, so  *)
(* that neither time nor another worker can touch the row.                 *)

Holding(w) ==
  LET j == work[w].job
      pc == work[w].pc
  IN  pc \in Executing =>
        /\ Owns(w, j) /\ row[j].lease = "live"
        /\ pc # "claimed" => work[w].beating /\ work[w].attempt = row[j].attempt
        /\ pc = "requeueing" => row[j].attempt < row[j].limit
        /\ pc = "abandoning" /\ work[w].retryable => row[j].attempt >= row[j].limit

HoldingInv == \A w \in Workers : Holding(w)

\* The row of a job in execution is written by its worker alone.
LEMMA OwnedRowKept ==
  ASSUME Timely, TypeOK, RowShape, HoldingInv, [Next]_vars,
         NEW v \in Workers, work[v].pc \in Executing
  PROVE  work'[v].pc \notin Executing \/ row'[work[v].job] = row[work[v].job]
<1> DEFINE j == work[v].job
<1>1. j \in Jobs /\ row[j] \in Row /\ row[j].status = "running" /\ row[j].owner = v
      /\ row[j].lease = "live" /\ Beating(j)
  BY DEF HoldingInv, Holding, Owns, Beating, TypeOK
<1>2. CASE UNCHANGED <<row, results>>
  BY <1>2
<1>3. ASSUME NEW k \in Jobs, Change(k), OthersKept(k), k # j PROVE row'[j] = row[j]
  BY <1>1, <1>3 DEF OthersKept
<1>4. ASSUME Change(j) PROVE row'[j] = row[j] \/ work'[v].pc \notin Executing
  <2>1. ASSUME NEW c \in Clients PROVE ~ Inserts(c, j)
    BY <1>1 DEF Inserts
  <2>2. ~ ExpireLease(j) /\ ~ DelayElapses(j)
    BY <1>1 DEF ExpireLease, DelayElapses
  <2>3. ASSUME NEW w \in Workers PROVE ~ Claims(w, j)
    BY <1>1 DEF Claims, Claimable, Due
  <2>4. ~ Stale(j)
    BY <1>1 DEF Stale
  <2>5. ASSUME NEW w \in Workers, Writes(w, j), FinishSuccess(w) \/ Requeue(w) \/ Abandon(w)
        PROVE  work'[v].pc \notin Executing
    <3>1. work[w].pc \in Executing /\ work' = [work EXCEPT ![w] = Polling]
      BY <2>5 DEF FinishSuccess, Requeue, Abandon, Executing
    <3>2. w = v
      BY <1>1, <2>5, <3>1 DEF HoldingInv, Holding, Owns, Writes
    <3> QED BY <3>1, <3>2 DEF Polling, Executing, TypeOK
  <2>6. CASE row'[j] = [row[j] EXCEPT !.lease = "live"]
    BY <1>1, <2>6 DEF Row
  <2> QED BY <1>4, <2>1, <2>2, <2>3, <2>4, <2>5, <2>6 DEF Change, Writes
<1> QED BY <1>2, <1>3, <1>4, RowStep

LEMMA HoldingStep ==
  Timely /\ TypeOK /\ RowShape /\ HoldingInv /\ [Next]_vars => HoldingInv'
<1> SUFFICES ASSUME Timely, TypeOK, RowShape, HoldingInv, [Next]_vars,
                    NEW v \in Workers, work'[v].pc \in Executing
             PROVE  Holding(v)'
  BY DEF HoldingInv, Holding
<1> DEFINE j == work[v].job
<1>a. work[v] \in Work /\ Holding(v) /\ work \in [Workers -> Work]
  BY DEF HoldingInv, TypeOK
<1>b. work[v].pc \in Executing => j \in Jobs /\ row'[j] = row[j] /\ row[j] \in Row
  BY OwnedRowKept DEF TypeOK
<1>1. CASE work'[v] = work[v]
  BY <1>a, <1>b, <1>1 DEF Holding, Owns
<1>2. ASSUME NEW k \in Jobs, Claims(v, k) PROVE Holding(v)'
  <2>1. work'[v].job = k /\ work'[v].pc = "claimed"
    BY <1>a, <1>2 DEF Claims, Work
  <2>2. row'[k].status = "running" /\ row'[k].owner = v /\ row'[k].lease = "live"
    BY <1>2 DEF Claims, ClaimedBy, Row, TypeOK
  <2> QED BY <2>1, <2>2 DEF Holding, Owns
<1>3. CASE LoadJob(v)
  <2>1. work[v].pc = "claimed" /\ Owns(v, j)
    BY <1>a, <1>3 DEF LoadJob, Holding, Executing
  <2>2. work' = [work EXCEPT ![v] =
          [@ EXCEPT !.pc = "loaded", !.beating = TRUE, !.attempt = row[j].attempt]]
    BY <1>3, <2>1 DEF LoadJob
  <2>3. /\ work'[v].pc = "loaded" /\ work'[v].job = j /\ work'[v].beating
        /\ work'[v].attempt = row[j].attempt
    BY <1>a, <2>2 DEF Work
  <2>4. row'[j] = row[j]
    BY <1>3 DEF LoadJob
  <2> QED BY <1>a, <2>1, <2>3, <2>4 DEF Holding, Owns, Executing
<1>4. CASE DeleteResults(v)
  <2>1. /\ work[v].pc = "loaded" /\ work'[v].pc = "analysing" /\ work'[v].job = j
        /\ work'[v].beating = work[v].beating /\ work'[v].attempt = work[v].attempt
    BY <1>a, <1>4 DEF DeleteResults, Work
  <2> QED BY <1>a, <1>b, <2>1 DEF Holding, Owns, Executing
<1>5. CASE AnalysisFails(v)
  <2>1. /\ work[v].pc = "analysing" /\ work'[v].pc = "failing" /\ work'[v].job = j
        /\ work'[v].beating = work[v].beating /\ work'[v].attempt = work[v].attempt
    BY <1>a, <1>5 DEF AnalysisFails, Work
  <2> QED BY <1>a, <1>b, <2>1 DEF Holding, Owns, Executing
<1>6. CASE FailureRead(v)
  <2>1. work[v].pc = "failing" /\ Owns(v, j)
    BY <1>a, <1>6 DEF FailureRead, Holding, Executing
  <2>2. work' = [work EXCEPT ![v].pc =
          IF work[v].retryable /\ row[j].attempt < row[j].limit
            THEN "requeueing" ELSE "abandoning"]
    BY <1>6, <2>1 DEF FailureRead
  <2>3. /\ work'[v].pc = IF work[v].retryable /\ row[j].attempt < row[j].limit
                           THEN "requeueing" ELSE "abandoning"
        /\ work'[v].job = j /\ work'[v].beating = work[v].beating
        /\ work'[v].attempt = work[v].attempt /\ work'[v].retryable = work[v].retryable
    BY <1>a, <2>2 DEF Work
  <2>4. row[j].attempt \in Nat /\ row[j].limit \in Nat
    BY <1>b, <2>1 DEF Row, Executing
  <2> QED BY <1>a, <1>b, <2>1, <2>3, <2>4 DEF Holding, Owns, Executing
<1>7. ASSUME Heartbeat(v), ~ Owns(v, j) PROVE FALSE
  <2>1. work'[v].pc = work[v].pc
    BY <1>a, <1>7 DEF Heartbeat, Work
  <2> QED BY <1>a, <1>7, <2>1 DEF Holding
<1>8. ~ HeartbeatDies(v)
  BY DEF HeartbeatDies
<1> QED BY <1>1, <1>2, <1>3, <1>4, <1>5, <1>6, <1>7, <1>8, WorkStep

\* As long as heartbeats are in time, nobody recovers, re-claims or finishes a
\* job under the worker that executes it: every write of process_job meets the
\* row as its owner left it.
THEOREM ClaimIsKept == Timely => (Spec => []ClaimKept)
<1> SUFFICES ASSUME Timely PROVE Spec => []ClaimKept
  OBVIOUS
<1>1. Init => HoldingInv
  BY DEF Init, HoldingInv, Holding, Polling, Executing
<1>2. TypeOK /\ RowShape /\ HoldingInv /\ [Next]_vars => HoldingInv'
  BY HoldingStep
<1>3. HoldingInv => ClaimKept
  BY DEF HoldingInv, Holding, ClaimKept
<1> QED
  BY <1>1, <1>2, <1>3, TypeCorrect, RowsKeepTheirShape, PTL DEF Spec

-----------------------------------------------------------------------------
(* What a row says about its job.                                          *)

\* A finished job is out of reach of every step.
THEOREM EndedJobsStayAsTheyAre == Timely => (Spec => TerminalIsFinal)
<1> SUFFICES ASSUME Timely PROVE Spec => TerminalIsFinal
  OBVIOUS
<1> DEFINE Kept == \A j \in Jobs : Terminal(j) => row'[j] = row[j] /\ results'[j] = results[j]
<1>1. ASSUME TypeOK, RowShape, HoldingInv, [Next]_vars PROVE Kept
  <2> SUFFICES ASSUME NEW j \in Jobs, Terminal(j)
               PROVE  row'[j] = row[j] /\ results'[j] = results[j]
    OBVIOUS
  <2>1. ~ Change(j)
    <3>1. row[j].status \in {"completed", "failed"} /\ row[j].lease = "none"
      BY <1>1 DEF Terminal, RowShape
    <3>2. ASSUME NEW w \in Workers, work[w].job = j PROVE work[w].pc \notin Executing
      BY <1>1, <3>1, <3>2 DEF HoldingInv, Holding, Owns
    <3>3. ASSUME NEW w \in Workers PROVE ~ Writes(w, j)
      BY <3>1, <3>2 DEF Writes, Stale, Owns, FinishSuccess, Requeue, Abandon, Executing
    <3> QED
      BY <3>1, <3>3 DEF Change, Inserts, ExpireLease, DelayElapses, Claims, Claimable, Due
  <2> QED BY <1>1, <2>1, RowStep DEF OthersKept
<1>2. Init => HoldingInv
  BY DEF Init, HoldingInv, Holding, Polling, Executing
<1>3. TypeOK /\ RowShape /\ HoldingInv /\ [Next]_vars => HoldingInv'
  BY HoldingStep
<1>4. TypeOK /\ RowShape /\ HoldingInv /\ [Next]_vars
        => [\A j \in Jobs : Terminal(j) => row'[j] = row[j] /\ results'[j] = results[j]]_vars
  BY <1>1
<1> QED
  BY <1>2, <1>3, <1>4, TypeCorrect, RowsKeepTheirShape, PTL DEF Spec, TerminalIsFinal

JobInv(j) ==
  LET r == row[j] IN
  /\ r.status = "absent" => r.attempt = 0
  /\ r.status \in {"pending", "running"} => r.dedupe = r.request /\ r.request # None
  /\ results[j] = IF r.status = "completed" THEN r.attempt ELSE 0
  /\ r.status = "pending" => r.attempt < r.limit
  /\ r.status \in {"running", "completed"} => r.error = "none"
  /\ r.status = "failed" => \/ r.error = "fatal"
                            \/ r.error = "max_attempts" /\ r.attempt >= r.limit

RowsInv ==
  /\ \A j \in Jobs : JobInv(j)
  /\ \A c \in Clients : client[c].pc = "inserting" => client[c].request # None

LEMMA ChangeKeepsJobInv ==
  ASSUME TypeOK, RowShape, HoldingInv, RowsInv, [Next]_vars, NEW j \in Jobs, Change(j)
  PROVE  JobInv(j)'
<1>a. row[j] \in Row /\ row[j].attempt \in Nat /\ row[j].limit \in Nat /\ JobInv(j)
      /\ results \in [Jobs -> Nat]
  BY DEF Row, RowsInv, TypeOK
<1>1. ASSUME NEW c \in Clients, Inserts(c, j) PROVE JobInv(j)'
  <2>1. /\ row'[j].status = "pending" /\ row'[j].attempt = 0 /\ row'[j].limit = InitialMax
        /\ row'[j].dedupe = client[c].request /\ row'[j].request = client[c].request
    BY <1>1 DEF Inserts, Created, NoRow
  <2>2. client[c].request # None /\ results' = results /\ row[j].status = "absent"
    BY <1>1 DEF Inserts, InsertJob, RowsInv
  <2>3. 0 < InitialMax /\ results[j] = 0
    BY <1>a, <2>2 DEF JobInv
  <2> QED BY <2>1, <2>2, <2>3 DEF JobInv
<1>2. CASE ExpireLease(j) /\ row'[j] = [row[j] EXCEPT !.lease = "expired"]
  BY <1>a, <1>2 DEF JobInv, ExpireLease, Row
<1>3. CASE DelayElapses(j) /\ row'[j] = [row[j] EXCEPT !.delayed = FALSE]
  BY <1>a, <1>3 DEF JobInv, DelayElapses, Row
<1>4. ASSUME NEW w \in Workers, Claims(w, j) PROVE JobInv(j)'
  <2>1. /\ row'[j].status = "running" /\ row'[j].error = "none"
        /\ row'[j].dedupe = row[j].dedupe /\ row'[j].request = row[j].request
    BY <1>a, <1>4 DEF Claims, ClaimedBy, Row
  <2>2. results' = results /\ row[j].status = "pending"
    BY <1>4 DEF Claims, Claim, Claimable, Due
  <2> QED BY <1>a, <2>1, <2>2 DEF JobInv
<1>5. ASSUME NEW w \in Workers, Writes(w, j) PROVE JobInv(j)'
  <2>1. CASE RecoverWrite(w) /\ Stale(j) /\ row'[j] = Recovered(row[j])
    <3>1. results' = results /\ row[j].status = "running"
      BY <2>1 DEF RecoverWrite, Stale
    <3>2. CASE row[j].attempt >= row[j].limit
      <4>1. /\ row'[j].status = "failed" /\ row'[j].error = "max_attempts"
            /\ row'[j].attempt = row[j].attempt /\ row'[j].limit = row[j].limit
        BY <1>a, <2>1, <3>2 DEF Recovered, Row
      <4> QED BY <1>a, <3>1, <3>2, <4>1 DEF JobInv
    <3>3. CASE ~ (row[j].attempt >= row[j].limit)
      <4>1. /\ row'[j].status = "pending"
            /\ row'[j].dedupe = row[j].dedupe /\ row'[j].request = row[j].request
            /\ row'[j].attempt = row[j].attempt /\ row'[j].limit = row[j].limit
        BY <1>a, <2>1, <3>3 DEF Recovered, Row
      <4> QED BY <1>a, <3>1, <3>3, <4>1 DEF JobInv
    <3> QED BY <3>2, <3>3
  <2>2. CASE FinishSuccess(w) /\ row'[j] = Completed(row[j])
    <3>1. work[w].pc = "analysing" /\ work[w].job = j
      BY <1>5, <2>2 DEF FinishSuccess, Writes
    <3>2. row[j].status = "running" /\ work[w].attempt = row[j].attempt
      BY <3>1 DEF HoldingInv, Holding, Owns, Executing
    <3>3. /\ row'[j].status = "completed" /\ row'[j].error = row[j].error
          /\ row'[j].attempt = row[j].attempt
      BY <1>a, <2>2 DEF Completed, Row
    <3>4. results'[j] = work[w].attempt
      BY <1>a, <2>2, <3>1 DEF FinishSuccess
    <3> QED BY <1>a, <3>2, <3>3, <3>4 DEF JobInv
  <2>3. CASE Requeue(w) /\ row'[j] = Requeued(row[j])
    <3>1. work[w].pc = "requeueing" /\ work[w].job = j /\ results' = results
      BY <1>5, <2>3 DEF Requeue, Writes
    <3>2. row[j].status = "running" /\ row[j].attempt < row[j].limit
      BY <3>1 DEF HoldingInv, Holding, Owns, Executing
    <3>3. /\ row'[j].status = "pending"
          /\ row'[j].dedupe = row[j].dedupe /\ row'[j].request = row[j].request
          /\ row'[j].attempt = row[j].attempt /\ row'[j].limit = row[j].limit
      BY <1>a, <2>3 DEF Requeued, Row
    <3> QED BY <1>a, <3>1, <3>2, <3>3 DEF JobInv
  <2>4. CASE Abandon(w) /\ row'[j] = Abandoned(row[j], work[w].retryable)
    <3>1. work[w].pc = "abandoning" /\ work[w].job = j /\ results' = results
      BY <1>5, <2>4 DEF Abandon, Writes
    <3>2. row[j].status = "running" /\ (work[w].retryable => row[j].attempt >= row[j].limit)
      BY <3>1 DEF HoldingInv, Holding, Owns, Executing
    <3>3. /\ row'[j].status = "failed"
          /\ row'[j].error = IF work[w].retryable THEN "max_attempts" ELSE "fatal"
          /\ row'[j].attempt = row[j].attempt /\ row'[j].limit = row[j].limit
      BY <1>a, <2>4 DEF Abandoned, Row
    <3> QED BY <1>a, <3>1, <3>2, <3>3 DEF JobInv
  <2>5. CASE Heartbeat(w) /\ Owns(w, j) /\ row'[j] = [row[j] EXCEPT !.lease = "live"]
    BY <1>a, <2>5 DEF JobInv, Heartbeat, Row
  <2> QED BY <1>5, <2>1, <2>2, <2>3, <2>4, <2>5 DEF Writes
<1> QED BY <1>1, <1>2, <1>3, <1>4, <1>5 DEF Change

LEMMA RequestKnown ==
  ASSUME TypeOK, RowsInv, [Next]_vars, NEW c \in Clients, client'[c].pc = "inserting"
  PROVE  client'[c].request # None
<1>a. client \in [Clients -> Client]
  BY DEF TypeOK
<1>1. ASSUME NEW d \in Clients, NEW r \in Requests, SelectNoActive(d, r)
      PROVE  client'[c].request # None
  <2>1. c = d => client'[c] = [pc |-> "inserting", request |-> r]
    BY <1>a, <1>1 DEF SelectNoActive
  <2>2. c # d => client'[c] = client[c]
    BY <1>a, <1>1 DEF SelectNoActive
  <2>3. r # None
    OBVIOUS
  <2> QED BY <2>1, <2>2, <2>3 DEF RowsInv
<1>2. ASSUME NEW d \in Clients, InsertJob(d) \/ InsertConflict(d) \/ Reselect(d)
      PROVE  client'[c] = client[c]
  BY <1>a, <1>2, SMTT(30) DEF InsertJob, InsertConflict, Reselect, IdleClient, Client
<1>3. \/ UNCHANGED client
      \/ \E d \in Clients : ClientStep(d)
  BY DEF Next, WorkerStep, vars, ExpireLease, DelayElapses, Sweep, RecoverRead, RecoverWrite,
         Claim, NothingToClaim, LoadJob, DeleteResults, FinishSuccess, AnalysisFails,
         FailureRead, Requeue, Abandon, Heartbeat, HeartbeatDies, Crash, Restart
<1> QED BY <1>1, <1>2, <1>3 DEF ClientStep, RowsInv

LEMMA RowsStep ==
  TypeOK /\ RowShape /\ HoldingInv /\ RowsInv /\ [Next]_vars => RowsInv'
<1> SUFFICES ASSUME TypeOK, RowShape, HoldingInv, RowsInv, [Next]_vars PROVE RowsInv'
  OBVIOUS
<1>1. ASSUME NEW j \in Jobs PROVE JobInv(j)'
  <2>1. CASE row'[j] = row[j] /\ results'[j] = results[j]
    BY <2>1 DEF RowsInv, JobInv
  <2>2. CASE Change(j)
    BY <2>2, ChangeKeepsJobInv
  <2> QED BY <2>1, <2>2, RowStep DEF OthersKept
<1> QED BY <1>1, RequestKnown DEF RowsInv

\* The conjunction every theorem below rests on.
LEMMA TimelyInvariant == Timely => (Spec => [](RowShape /\ HoldingInv /\ RowsInv))
<1> SUFFICES ASSUME Timely PROVE Spec => [](RowShape /\ HoldingInv /\ RowsInv)
  OBVIOUS
<1>1. Init => HoldingInv
  BY DEF Init, HoldingInv, Holding, Polling, Executing
<1>2. Init => RowsInv
  <2>1. NoRow.status = "absent" /\ NoRow.attempt = 0 /\ IdleClient.pc = "idle"
    BY DEF NoRow, IdleClient
  <2> QED BY <2>1 DEF Init, RowsInv, JobInv
<1>3. TypeOK /\ RowShape /\ HoldingInv /\ [Next]_vars => HoldingInv'
  BY HoldingStep
<1> QED
  BY <1>1, <1>2, <1>3, RowsStep, TypeCorrect, RowsKeepTheirShape, PTL DEF Spec

\* A request has at most one pending or running job: the unique key of an active
\* row is never given up before the job ends.
THEOREM RequestsAreDeduplicated == Timely => (Spec => []OneActivePerRequest)
<1>1. RowShape /\ RowsInv => OneActivePerRequest
  BY DEF RowShape, RowsInv, JobInv, OneActivePerRequest, Active
<1> QED BY <1>1, TimelyInvariant, PTL

\* Result rows are committed together with the completion, by the attempt that
\* the row counts last.
THEOREM ResultsAppearWithCompletion == Timely => (Spec => []PublishedIffCompleted)
<1>1. RowsInv => PublishedIffCompleted
  BY DEF RowsInv, JobInv, PublishedIffCompleted
<1> QED BY <1>1, TimelyInvariant, PTL

\* A failed job failed fatally or after its last attempt.
THEOREM FailuresAreExplained == Timely => (Spec => []OutcomeIsExplained)
<1>1. RowsInv => OutcomeIsExplained
  BY DEF RowsInv, JobInv, OutcomeIsExplained
<1> QED BY <1>1, TimelyInvariant, PTL

\* The queue holds no pending row that no worker will ever select.
THEOREM PendingJobsAreClaimable == Timely => (Spec => []PendingIsClaimable)
<1>1. RowsInv => PendingIsClaimable
  BY DEF RowsInv, JobInv, PendingIsClaimable
<1> QED BY <1>1, TimelyInvariant, PTL

-----------------------------------------------------------------------------
(* With timely heartbeats every step of the queue is a step of             *)
(* AnalysisService as its clients see it, or changes nothing they see.     *)

USE MaxTriesAssumption

\* A step that writes row j maps to a step that sets the fields of j.
Sees(j, s, q, n, p) ==
  /\ statusBar' = [statusBar EXCEPT ![j] = s]
  /\ requestBar' = [requestBar EXCEPT ![j] = q]
  /\ triesBar' = [triesBar EXCEPT ![j] = n]
  /\ publishedBar' = [publishedBar EXCEPT ![j] = p]

LEMMA SeenRow ==
  ASSUME NEW j \in Jobs, OthersKept(j)
  PROVE  Sees(j, row'[j].status, row'[j].request, row'[j].attempt, results'[j] # 0)
BY DEF Sees, OthersKept, statusBar, requestBar, triesBar, publishedBar

\* What does not change is not written.
LEMMA SeenField ==
  ASSUME NEW j \in Jobs
  PROVE  /\ statusBar[j] = row[j].status /\ requestBar[j] = row[j].request
         /\ triesBar[j] = row[j].attempt /\ publishedBar[j] = (results[j] # 0)
         /\ [statusBar EXCEPT ![j] = row[j].status] = statusBar
         /\ [requestBar EXCEPT ![j] = row[j].request] = requestBar
         /\ [triesBar EXCEPT ![j] = row[j].attempt] = triesBar
         /\ [publishedBar EXCEPT ![j] = (results[j] # 0)] = publishedBar
BY DEF statusBar, requestBar, triesBar, publishedBar

LEMMA LimitBounded ==
  ASSUME TypeOK, BudgetInv, NEW j \in Jobs
  PROVE  row[j].limit <= MaxTries /\ row[j].attempt \in Nat /\ row[j].limit \in Nat
<1>1. row[j] \in Row /\ FromSettings(row[j].limit)
  BY DEF BudgetInv, BudgetOK, TypeOK
<1>2. row[j].limit \in Nat /\ row[j].attempt \in Nat
  BY <1>1 DEF Row
<1>3. CASE row[j].limit <= InitialMax
  BY <1>2, <1>3
<1>4. ASSUME NEW w \in Workers, row[j].limit <= WorkerMax[w] PROVE row[j].limit <= MaxTries
  BY <1>2, <1>4
<1> QED BY <1>1, <1>2, <1>3, <1>4 DEF FromSettings

LEMMA ServiceStep ==
  ASSUME Timely, TypeOK, RowShape, HoldingInv, RowsInv, BudgetInv, PublishInv,
         NEW j \in Jobs, Change(j), OthersKept(j)
  PROVE  Service!Next \/ UNCHANGED <<statusBar, requestBar, triesBar, publishedBar>>
<1> DEFINE Goal == \/ Service!Next
                   \/ UNCHANGED <<statusBar, requestBar, triesBar, publishedBar>>
           r == row[j]
           p == results[j] # 0
<1>a. /\ r \in Row /\ r.attempt \in Nat /\ r.limit \in Nat /\ r.limit <= MaxTries
      /\ MaxTries \in Nat
  BY LimitBounded DEF TypeOK
<1>b. Sees(j, row'[j].status, row'[j].request, row'[j].attempt, results'[j] # 0)
  BY SeenRow
<1>c. ASSUME row'[j].status = r.status, row'[j].request = r.request,
             row'[j].attempt = r.attempt, results' = results
      PROVE  Goal
  BY <1>b, <1>c, SeenField DEF Sees
<1>1. ASSUME NEW c \in Clients, Inserts(c, j) PROVE Goal
  <2> DEFINE q == client[c].request
  <2>1. /\ row'[j].status = "pending" /\ row'[j].attempt = 0
        /\ row'[j].request = q /\ results' = results
    BY <1>1 DEF Inserts, InsertJob, Created, NoRow
  <2>2. r.status = "absent"
    BY <1>1 DEF Inserts
  <2>3. q \in Requests /\ ~ KeyTaken(q)
    BY <1>1 DEF Inserts, InsertJob, RowsInv, Client, TypeOK
  <2>4. ASSUME NEW k \in Jobs, row[k].status \in {"pending", "running"} PROVE row[k].request # q
    BY <2>3, <2>4 DEF KeyTaken, RowsInv, JobInv
  <2>5. ~ \E k \in Jobs : Service!Active(k) /\ requestBar[k] = q
    BY <2>4 DEF Service!Active, statusBar, requestBar
  <2>6. r.attempt = 0
    BY <2>2 DEF RowsInv, JobInv
  <2>7. Service!Submit(j, q)
    BY <1>b, <2>1, <2>2, <2>5, <2>6, SeenField DEF Sees, Service!Submit
  <2> QED BY <2>3, <2>7 DEF Service!Next
<1>2. CASE ExpireLease(j) /\ row'[j] = [r EXCEPT !.lease = "expired"]
  BY <1>a, <1>c, <1>2 DEF Row, ExpireLease
<1>3. CASE DelayElapses(j) /\ row'[j] = [r EXCEPT !.delayed = FALSE]
  BY <1>a, <1>c, <1>3 DEF Row, DelayElapses
<1>4. ASSUME NEW w \in Workers, Claims(w, j) PROVE Goal
  <2>1. /\ row'[j].status = "running" /\ row'[j].attempt = r.attempt + 1
        /\ row'[j].request = r.request /\ results' = results
    BY <1>a, <1>4 DEF Claims, Claim, ClaimedBy, Row
  <2>2. r.status = "pending" /\ r.attempt < MaxTries
    BY <1>a, <1>4 DEF Claims, Claimable, Due
  <2>3. Service!Start(j)
    BY <1>b, <2>1, <2>2, SeenField DEF Sees, Service!Start
  <2> QED BY <2>3 DEF Service!Next
<1>5. ASSUME NEW w \in Workers, Writes(w, j) PROVE Goal
  <2>a. row'[j].attempt = r.attempt /\ row'[j].request = r.request
    BY <1>5, WritesKeepAttempt
  <2>b. ASSUME work[w].pc \in Executing
        PROVE  /\ r.status = "running"
               /\ work[w].pc = "requeueing" => r.attempt < r.limit
    BY <1>5, <2>b DEF HoldingInv, Holding, Owns, Writes
  <2>1. CASE RecoverWrite(w) /\ Stale(j) /\ row'[j] = Recovered(r)
    <3>1. results' = results /\ r.status = "running"
      BY <2>1 DEF RecoverWrite, Stale
    <3>2. CASE r.attempt >= r.limit
      <4>1. row'[j].status = "failed"
        BY <1>a, <2>1, <3>2 DEF Recovered, Row
      <4>2. Service!Fail(j)
        BY <1>b, <2>a, <3>1, <4>1, SeenField DEF Sees, Service!Fail
      <4> QED BY <4>2 DEF Service!Next
    <3>3. CASE ~ (r.attempt >= r.limit)
      <4>1. row'[j].status = "pending"
        BY <1>a, <2>1, <3>3 DEF Recovered, Row
      <4>2. r.attempt < MaxTries
        BY <1>a, <3>3
      <4>3. Service!Retry(j)
        BY <1>b, <2>a, <3>1, <4>1, <4>2, SeenField DEF Sees, Service!Retry
      <4> QED BY <4>3 DEF Service!Next
    <3> QED BY <3>2, <3>3
  <2>2. CASE FinishSuccess(w) /\ row'[j] = Completed(r)
    <3>1. row'[j].status = "completed"
      BY <1>a, <2>2 DEF Completed, Row
    <3>2. results'[j] # 0
      BY <1>5, <2>2 DEF FinishSuccess, Writes, PublishInv, TypeOK
    <3>3. r.status = "running"
      BY <2>2, <2>b DEF FinishSuccess, Executing
    <3>4. Service!Complete(j)
      BY <1>b, <2>a, <3>1, <3>2, <3>3, SeenField DEF Sees, Service!Complete
    <3> QED BY <3>4 DEF Service!Next
  <2>3. CASE Requeue(w) /\ row'[j] = Requeued(r)
    <3>1. row'[j].status = "pending" /\ results' = results
      <4>1. results' = results
        BY <2>3 DEF Requeue
      <4>2. row'[j].status = "pending"
        BY <1>a, <2>3 DEF Requeued, Row
      <4> QED
        BY <4>1, <4>2
    <3>2. r.status = "running" /\ r.attempt < r.limit
      BY <2>3, <2>b DEF Requeue, Executing
    <3>3. r.attempt < MaxTries
      BY <1>a, <3>2
    <3>4. Service!Retry(j)
      BY <1>b, <2>a, <3>1, <3>2, <3>3, SeenField DEF Sees, Service!Retry
    <3> QED BY <3>4 DEF Service!Next
  <2>4. CASE Abandon(w) /\ row'[j] = Abandoned(r, work[w].retryable)
    <3>a. row'[j].status = "failed"
      BY <1>a, <2>4 DEF Abandoned, Row
    <3>1. row'[j].status = "failed" /\ results' = results
      BY <2>4, <3>a DEF Abandon
    <3>2. r.status = "running"
      BY <2>4, <2>b DEF Abandon, Executing
    <3>3. Service!Fail(j)
      BY <1>b, <2>a, <3>1, <3>2, SeenField DEF Sees, Service!Fail
    <3> QED BY <3>3 DEF Service!Next
  <2>5. CASE Heartbeat(w) /\ row'[j] = [r EXCEPT !.lease = "live"]
    BY <1>a, <1>c, <2>a, <2>5 DEF Row, Heartbeat
  <2> QED BY <1>5, <2>1, <2>2, <2>3, <2>4, <2>5 DEF Writes
<1> QED BY <1>1, <1>2, <1>3, <1>4, <1>5 DEF Change

\* With timely heartbeats workers, heartbeats, crashes, recoveries and concurrent
\* requests never show a client anything AnalysisService does not allow: one
\* active job per request, bounded tries, results in the step that completes the
\* job, and no step out of a finished one.
THEOREM QueueImplementsService == Timely => (Spec => ImplementsService)
<1> SUFFICES ASSUME Timely PROVE Spec => ImplementsService
  OBVIOUS
<1>1. Init => Service!Init
  <2>1. NoRow.status = "absent" /\ NoRow.request = None /\ NoRow.attempt = 0
    BY DEF NoRow
  <2> QED
    BY <2>1, ZenonT(40) DEF Init, Service!Init, statusBar, requestBar, triesBar, publishedBar
<1>2. /\ TypeOK /\ RowShape /\ HoldingInv /\ RowsInv /\ BudgetInv /\ PublishInv
      /\ [Next]_vars
      => [Service!Next]_Service!vars
  <2> SUFFICES ASSUME TypeOK, RowShape, HoldingInv, RowsInv, BudgetInv, PublishInv, [Next]_vars
               PROVE  [Service!Next]_Service!vars
    OBVIOUS
  <2>1. CASE UNCHANGED <<row, results>>
    BY <2>1 DEF Service!vars, statusBar, requestBar, triesBar, publishedBar
  <2>2. ASSUME NEW j \in Jobs, Change(j), OthersKept(j)
        PROVE  [Service!Next]_Service!vars
    BY <2>2, ServiceStep DEF Service!vars
  <2> QED BY <2>1, <2>2, RowStep
<1>3. Init => BudgetInv
  BY InitBudget
<1> QED
  BY <1>1, <1>2, <1>3, TypeCorrect, TimelyInvariant, BudgetStep, InitPublish, PublishStep, PTL
  DEF Spec, ImplementsService, Service!Spec

=============================================================================
