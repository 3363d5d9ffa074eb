------------------------------ MODULE JobQueue ------------------------------
(***************************************************************************)
(* The durable analysis queue: the API enqueues a row of analysis_jobs,    *)
(* worker processes claim it with a conditional update, keep its lease     *)
(* alive from a heartbeat thread, run the analysis in one transaction and  *)
(* publish the result rows together with the `completed` transition.       *)
(*                                                                         *)
(* Every action is one committed transaction or one read of the database;  *)
(* what a process remembers between two of them is in `work` and `client`. *)
(*                                                                         *)
(* Time is abstract.  A lease is "live" until ExpireLease makes it         *)
(* "expired" (lease_expires_at < now); a retry is `delayed` until          *)
(* DelayElapses (available_at <= now).  Timely = TRUE is the deployment    *)
(* the settings lease > heartbeat aim at: a running heartbeat thread       *)
(* renews in time and does not die.  Timely = FALSE lets a process stall   *)
(* past its lease, the heartbeat thread die of a database error, and the   *)
(* clocks of two hosts disagree.                                           *)
(***************************************************************************)
EXTENDS Naturals

CONSTANTS
  Jobs,        \* ids of analysis_jobs rows, used and not yet used
  Requests,    \* request fingerprints
  Workers,     \* worker ids
  Clients,     \* concurrent API requests that create jobs
  InitialMax,  \* max_attempts of a row the API inserts
  WorkerMax,   \* ANALYSIS_JOB_MAX_ATTEMPTS of each worker
  Timely,      \* TRUE: no lease expires under a running heartbeat
  None         \* SQL NULL

ASSUME QueueAssumption ==
  /\ InitialMax \in Nat \ {0}
  /\ WorkerMax \in [Workers -> Nat \ {0}]
  /\ Timely \in BOOLEAN
  /\ None \notin Jobs \cup Requests \cup Workers

VARIABLES
  row,      \* the analysis_jobs table
  results,  \* attempt that wrote the committed result rows of a job, 0: no rows
  earlier,  \* for a due job, the due jobs with an earlier available_at
  work,     \* what each worker process remembers
  client    \* what each API request remembers

vars == <<row, results, earlier, work, client>>

-----------------------------------------------------------------------------

Statuses == {"absent", "pending", "running", "completed", "failed"}
Errors   == {"none", "provider", "fatal", "lease_expired", "max_attempts"}

Row == [status : Statuses, request : Requests \cup {None},
        dedupe : Requests \cup {None}, attempt : Nat, limit : Nat,
        owner : Workers \cup {None}, lease : {"none", "live", "expired"},
        delayed : BOOLEAN, error : Errors]

NoRow == [status |-> "absent", request |-> None, dedupe |-> None,
          attempt |-> 0, limit |-> 0, owner |-> None, lease |-> "none",
          delayed |-> FALSE, error |-> "none"]

\* The points of process_job at which the worker holds a job.
Executing == {"claimed", "loaded", "analysing", "failing", "requeueing", "abandoning"}

Work == [pc : {"polling", "sweeping", "recovering", "down"} \cup Executing,
         job : Jobs \cup {None}, todo : SUBSET Jobs, beating : BOOLEAN,
         attempt : Nat, cleared : Nat, retryable : BOOLEAN]

Polling == [pc |-> "polling", job |-> None, todo |-> {}, beating |-> FALSE,
            attempt |-> 0, cleared |-> 0, retryable |-> FALSE]

Client == [pc : {"idle", "inserting", "reselecting", "error"},
           request : Requests \cup {None}]

IdleClient == [pc |-> "idle", request |-> None]

TypeOK ==
  /\ row \in [Jobs -> Row]
  /\ results \in [Jobs -> Nat]
  /\ earlier \in [Jobs -> SUBSET Jobs]
  /\ work \in [Workers -> Work]
  /\ \A w \in Workers :
       work[w].pc \in Executing \cup {"recovering"} => work[w].job \in Jobs
  /\ client \in [Clients -> Client]

-----------------------------------------------------------------------------

(* Conditions on a row.  A definition named Slip... is a wrong version of    *)
(* the one that follows it, for the mutation runs; no specification uses it.  *)

Active(j)   == row[j].status \in {"pending", "running"}
Terminal(j) == row[j].status \in {"completed", "failed"}

\* A failed row is selected again.
SlipDueFailed(j) == row[j].status \in {"pending", "failed"} /\ ~row[j].delayed

Due(j) == row[j].status = "pending" /\ ~row[j].delayed

\* attempt_count and max_attempts are not compared, or off by one.
SlipClaimAlways(j) == Due(j)
SlipClaimOneLess(j) == Due(j) /\ row[j].attempt + 1 < row[j].limit

Claimable(j) == Due(j) /\ row[j].attempt < row[j].limit

\* The lease is not compared with the clock.
SlipStaleAnyLease(j) == row[j].status = "running"

Stale(j) == row[j].status = "running" /\ row[j].lease = "expired"

\* The WHERE clause every statement of a claim's owner should carry.
Owns(w, j) == row[j].status = "running" /\ row[j].owner = w

\* The migration forgot the unique constraint.
SlipNoConstraint(r) == FALSE

\* A stored key that blocks another row with the same active_dedupe_key.
KeyTaken(r) == \E j \in Jobs : row[j].dedupe = r

\* Order by available_at: j becomes due now, after every due job / is not due any more.
BecomesDue(j) ==
  earlier' = [k \in Jobs |-> IF k = j THEN {i \in Jobs \ {j} : Due(i)}
                                      ELSE earlier[k] \ {j}]
NotDue(j) ==
  earlier' = [k \in Jobs |-> IF k = j THEN {} ELSE earlier[k] \ {j}]

-----------------------------------------------------------------------------
(* The API: _enqueue_analysis_job.                                         *)

\* The first SELECT.  When it finds an active row the request answers with
\* it and changes nothing; only the other case is a step.
SelectNoActive(c, r) ==
  /\ client[c].pc \in {"idle", "error"}
  /\ ~ \E j \in Jobs : row[j].dedupe = r /\ Active(j)
  /\ client' = [client EXCEPT ![c] = [pc |-> "inserting", request |-> r]]
  /\ UNCHANGED <<row, results, earlier, work>>

Created(r) ==
  [NoRow EXCEPT !.status = "pending", !.limit = InitialMax, !.request = r, !.dedupe = r]

InsertJob(c) ==
  /\ client[c].pc = "inserting"
  /\ ~ KeyTaken(client[c].request)
  /\ \E j \in Jobs :
       /\ row[j].status = "absent"
       /\ row' = [row EXCEPT ![j] = Created(client[c].request)]
       /\ BecomesDue(j)
  /\ client' = [client EXCEPT ![c] = IdleClient]
  /\ UNCHANGED <<results, work>>

\* uq_analysis_jobs_active_dedupe_key refuses the row: IntegrityError.
InsertConflict(c) ==
  /\ client[c].pc = "inserting"
  /\ KeyTaken(client[c].request)
  /\ client' = [client EXCEPT ![c].pc = "reselecting"]
  /\ UNCHANGED <<row, results, earlier, work>>

\* The second SELECT answers with the job that won, or raises.
Reselect(c) ==
  /\ client[c].pc = "reselecting"
  /\ client' = [client EXCEPT ![c] =
       IF \E j \in Jobs : row[j].dedupe = client[c].request /\ Active(j)
         THEN IdleClient
         ELSE [pc |-> "error", request |-> None]]
  /\ UNCHANGED <<row, results, earlier, work>>

-----------------------------------------------------------------------------
(* The passing of time.                                                    *)

\* The owner's process runs the heartbeat of j, or is about to start it.
Beating(j) ==
  \E w \in Workers : /\ row[j].owner = w
                     /\ work[w].job = j
                     /\ work[w].pc = "claimed" \/ work[w].beating

ExpireLease(j) ==
  /\ row[j].lease = "live"
  /\ Timely => ~ Beating(j)
  /\ row' = [row EXCEPT ![j].lease = "expired"]
  /\ UNCHANGED <<results, earlier, work, client>>

DelayElapses(j) ==
  /\ row[j].status = "pending" /\ row[j].delayed
  /\ row' = [row EXCEPT ![j].delayed = FALSE]
  /\ BecomesDue(j)
  /\ UNCHANGED <<results, work, client>>

-----------------------------------------------------------------------------
(* run_worker: recover_stale_jobs_result, then claim_next_job.             *)

\* Stale jobs are not looked for.
SlipNoSweep(w) ==
  /\ work[w].pc = "polling"
  /\ work' = [work EXCEPT ![w].pc = "sweeping"]
  /\ UNCHANGED <<row, results, earlier, client>>

\* The SELECT of the ids whose lease expired.
Sweep(w) ==
  /\ work[w].pc = "polling"
  /\ work' = [work EXCEPT ![w] =
       [@ EXCEPT !.pc = "sweeping", !.todo = {j \in Jobs : Stale(j)}]]
  /\ UNCHANGED <<row, results, earlier, client>>

\* db.get of the next id: skipped when it is not stale any more.
RecoverRead(w, j) ==
  /\ work[w].pc = "sweeping"
  /\ j \in work[w].todo
  /\ work' = [work EXCEPT ![w] =
       IF Stale(j)
         THEN [@ EXCEPT !.pc = "recovering", !.job = j, !.todo = work[w].todo \ {j}]
         ELSE [@ EXCEPT !.todo = work[w].todo \ {j}]]
  /\ UNCHANGED <<row, results, earlier, client>>

\* A recovery that keeps or drops the key in both cases, writes the status of
\* before migration 0006, or is off by one attempt either way.
SlipRecoverKeepsKey(r) ==
  [r EXCEPT !.status = IF r.attempt >= r.limit THEN "failed" ELSE "pending",
            !.delayed = FALSE, !.owner = None, !.lease = "none"]
SlipRecoverDropsKey(r) ==
  [r EXCEPT !.status = IF r.attempt >= r.limit THEN "failed" ELSE "pending",
            !.delayed = FALSE, !.owner = None, !.lease = "none", !.dedupe = None]
SlipRecoverOldStatus(r) ==
  [r EXCEPT !.status = IF r.attempt >= r.limit THEN "failed" ELSE "queued",
            !.delayed = FALSE, !.owner = None, !.lease = "none"]
SlipRecoverOnceMore(r) ==
  [r EXCEPT !.status = IF r.attempt > r.limit THEN "failed" ELSE "pending",
            !.delayed = FALSE, !.owner = None, !.lease = "none"]
SlipRecoverOnceLess(r) ==
  [r EXCEPT !.status = "failed", !.dedupe = None, !.owner = None,
            !.lease = "none", !.error = "max_attempts"]

\* The row a recovered job becomes.  The update writes what was computed from
\* the row read before; it only applies when the lease is still that one, and
\* with the lease neither the attempt nor the limit can have changed.
Recovered(r) ==
  IF r.attempt >= r.limit
    THEN [r EXCEPT !.status = "failed", !.dedupe = None, !.owner = None,
                   !.lease = "none", !.error = "max_attempts"]
    ELSE [r EXCEPT !.status = "pending", !.delayed = FALSE, !.owner = None,
                   !.lease = "none", !.error = "lease_expired"]

\* The conditional UPDATE: a row that is running with the expired lease.
RecoverWrite(w) ==
  LET j == work[w].job IN
  /\ work[w].pc = "recovering"
  /\ work' = [work EXCEPT ![w] = [@ EXCEPT !.pc = "sweeping", !.job = None]]
  /\ IF Stale(j)
       THEN /\ row' = [row EXCEPT ![j] = Recovered(@)]
            /\ IF row[j].attempt < row[j].limit THEN BecomesDue(j) ELSE NotDue(j)
       ELSE UNCHANGED <<row, earlier>>
  /\ UNCHANGED <<results, client>>

ClaimedBy(w, r) ==
  [r EXCEPT !.status = "running", !.owner = w, !.attempt = r.attempt + 1,
            !.limit = WorkerMax[w], !.lease = "live", !.error = "none"]

\* The claimable row with the earliest available_at; the UPDATE repeats the
\* SELECT's conditions, so a row lost to another worker is skipped.
Claim(w) ==
  /\ work[w].pc = "sweeping" /\ work[w].todo = {}
  /\ \E j \in Jobs :
       /\ Claimable(j)
       /\ \A k \in earlier[j] : ~ Claimable(k)
       /\ row' = [row EXCEPT ![j] = ClaimedBy(w, @)]
       /\ NotDue(j)
       /\ work' = [work EXCEPT ![w] = [@ EXCEPT !.pc = "claimed", !.job = j]]
  /\ UNCHANGED <<results, client>>

\* Nothing to claim: wait poll_seconds.
NothingToClaim(w) ==
  /\ work[w].pc = "sweeping" /\ work[w].todo = {}
  /\ ~ \E j \in Jobs : Claimable(j)
  /\ work' = [work EXCEPT ![w] = Polling]
  /\ UNCHANGED <<row, results, earlier, client>>

-----------------------------------------------------------------------------
(* process_job.                                                            *)

\* Start the heartbeat thread, load the job; return "claim_lost" when the
\* row is not this worker's any more.
LoadJob(w) ==
  LET j == work[w].job IN
  /\ work[w].pc = "claimed"
  /\ work' = [work EXCEPT ![w] =
       IF Owns(w, j)
         THEN [@ EXCEPT !.pc = "loaded", !.beating = TRUE, !.attempt = row[j].attempt]
         ELSE Polling]
  /\ UNCHANGED <<row, results, earlier, client>>

\* The DELETE is committed on its own.
SlipDeleteCommits(w) ==
  /\ work[w].pc = "loaded"
  /\ results' = [results EXCEPT ![work[w].job] = 0]
  /\ work' = [work EXCEPT ![w].pc = "analysing", ![w].cleared = 0]
  /\ UNCHANGED <<row, earlier, client>>

\* DELETE of the result rows of an earlier run, not committed yet.
DeleteResults(w) ==
  /\ work[w].pc = "loaded"
  /\ work' = [work EXCEPT ![w] =
       [@ EXCEPT !.pc = "analysing", !.cleared = results[work[w].job]]]
  /\ UNCHANGED <<row, results, earlier, client>>

\* The result rows are committed before the transition to completed.
SlipTwoCommits(w) ==
  /\ work[w].pc = "analysing"
  /\ results' = [results EXCEPT ![work[w].job] = work[w].attempt]
  /\ work' = [work EXCEPT ![w].cleared = work[w].attempt]
  /\ UNCHANGED <<row, earlier, client>>

Completed(r) ==
  [r EXCEPT !.status = "completed", !.dedupe = None, !.owner = None,
            !.lease = "none", !.delayed = FALSE]

\* finish_job_success.  Its claim check reads the object LoadJob cached, so it
\* always passes, and the UPDATE selects by primary key alone.  The error
\* columns were NULL when loaded and are not part of the UPDATE.  What stops a
\* second publication is uq_analysis_result_items_job_clause: rows that appeared
\* since the DELETE make the commit fail, which is one of AnalysisFails' errors.
FinishSuccess(w) ==
  LET j == work[w].job IN
  /\ work[w].pc = "analysing"
  /\ results[j] = work[w].cleared
  /\ row' = [row EXCEPT ![j] = Completed(@)]
  /\ results' = [results EXCEPT ![j] = work[w].attempt]
  /\ NotDue(j)
  /\ work' = [work EXCEPT ![w] = Polling]
  /\ UNCHANGED client

\* The pipeline or the commit raises; the transaction rolls back.
AnalysisFails(w) ==
  /\ work[w].pc = "analysing"
  /\ \E retryable \in BOOLEAN :
       work' = [work EXCEPT ![w] =
         [@ EXCEPT !.pc = "failing", !.retryable = retryable]]
  /\ UNCHANGED <<row, results, earlier, client>>

\* finish_job_failure reads the row again, checks the claim and decides ...
FailureRead(w) ==
  LET j == work[w].job IN
  /\ work[w].pc = "failing"
  /\ work' = [work EXCEPT ![w] =
       IF ~ Owns(w, j) THEN Polling
       ELSE IF work[w].retryable /\ row[j].attempt < row[j].limit
              THEN [@ EXCEPT !.pc = "requeueing"]
              ELSE [@ EXCEPT !.pc = "abandoning"]]
  /\ UNCHANGED <<row, results, earlier, client>>

Requeued(r) ==
  [r EXCEPT !.status = "pending", !.owner = None, !.lease = "none",
            !.delayed = TRUE, !.error = "provider"]

Abandoned(r, retryable) ==
  [r EXCEPT !.status = "failed", !.owner = None, !.lease = "none",
            !.delayed = FALSE, !.dedupe = None,
            !.error = IF retryable THEN "max_attempts" ELSE "fatal"]

\* ... and writes its decision with an UPDATE by primary key: a retry later,
Requeue(w) ==
  LET j == work[w].job IN
  /\ work[w].pc = "requeueing"
  /\ row' = [row EXCEPT ![j] = Requeued(@)]
  /\ NotDue(j)
  /\ work' = [work EXCEPT ![w] = Polling]
  /\ UNCHANGED <<results, client>>

\* or the terminal failure.
Abandon(w) ==
  LET j == work[w].job IN
  /\ work[w].pc = "abandoning"
  /\ row' = [row EXCEPT ![j] = Abandoned(@, work[w].retryable)]
  /\ NotDue(j)
  /\ work' = [work EXCEPT ![w] = Polling]
  /\ UNCHANGED <<results, client>>

-----------------------------------------------------------------------------
(* The heartbeat thread, crashes and restarts.                             *)

\* renew_job_lease: extends the lease of the owner even when it has expired;
\* a refused renewal ends the thread.
Heartbeat(w) ==
  LET j == work[w].job IN
  /\ work[w].beating
  /\ IF Owns(w, j)
       THEN row' = [row EXCEPT ![j].lease = "live"] /\ UNCHANGED work
       ELSE work' = [work EXCEPT ![w].beating = FALSE] /\ UNCHANGED row
  /\ UNCHANGED <<results, earlier, client>>

\* An exception of the renewal's own session ends the thread silently.
HeartbeatDies(w) ==
  /\ ~ Timely
  /\ work[w].beating
  /\ work' = [work EXCEPT ![w].beating = FALSE]
  /\ UNCHANGED <<row, results, earlier, client>>

\* A process that dies elsewhere leaves nothing behind in the database.
Crash(w) ==
  /\ work[w].pc \in Executing
  /\ work' = [work EXCEPT ![w] = [Polling EXCEPT !.pc = "down"]]
  /\ UNCHANGED <<row, results, earlier, client>>

Restart(w) ==
  /\ work[w].pc = "down"
  /\ work' = [work EXCEPT ![w] = Polling]
  /\ UNCHANGED <<row, results, earlier, client>>

-----------------------------------------------------------------------------

Init ==
  /\ row = [j \in Jobs |-> NoRow]
  /\ results = [j \in Jobs |-> 0]
  /\ earlier = [j \in Jobs |-> {}]
  /\ work = [w \in Workers |-> Polling]
  /\ client = [c \in Clients |-> IdleClient]

ClientStep(c) ==
  \/ \E r \in Requests : SelectNoActive(c, r)
  \/ InsertJob(c) \/ InsertConflict(c) \/ Reselect(c)

\* The sequential program of a worker.
WorkerStep(w) ==
  \/ Sweep(w)
  \/ \E j \in Jobs : RecoverRead(w, j)
  \/ RecoverWrite(w) \/ Claim(w) \/ NothingToClaim(w)
  \/ LoadJob(w) \/ DeleteResults(w) \/ FinishSuccess(w) \/ AnalysisFails(w)
  \/ FailureRead(w) \/ Requeue(w) \/ Abandon(w)

Next ==
  \/ \E c \in Clients : ClientStep(c)
  \/ \E w \in Workers : \/ WorkerStep(w) \/ Heartbeat(w) \/ HeartbeatDies(w)
                        \/ Crash(w) \/ Restart(w)
  \/ \E j \in Jobs : ExpireLease(j) \/ DelayElapses(j)

Spec == Init /\ [][Next]_vars

\* A live process goes on (the provider call returns), a dead one is restarted
\* (compose: restart unless-stopped), and time passes.  Nothing makes the
\* heartbeat thread, a crash or a client's request happen.
Fairness ==
  /\ \A w \in Workers : WF_vars(WorkerStep(w)) /\ WF_vars(Restart(w))
  /\ \A j \in Jobs : WF_vars(ExpireLease(j)) /\ WF_vars(DelayElapses(j))

FairSpec == Spec /\ Fairness

-----------------------------------------------------------------------------
(* What the queue promises as long as heartbeats are timely.               *)

\* A worker between the claim and the end of process_job still holds the claim
\* in the row: nobody recovers, re-claims or finishes a job under its owner
\* (claim_next_job, recover_stale_jobs_result, renew_job_lease together).
ClaimKept ==
  \A w \in Workers : work[w].pc \in Executing => Owns(w, work[w].job)

\* At most one pending or running job per request fingerprint, over retries,
\* recoveries and concurrent creation (_enqueue_analysis_job and every writer
\* of active_dedupe_key).
OneActivePerRequest ==
  \A i, j \in Jobs :
    Active(i) /\ Active(j) /\ row[i].request = row[j].request => i = j

\* Result rows are there exactly when the job is completed, and they come from
\* the attempt the row counts last (process_job's single transaction).
PublishedIffCompleted ==
  \A j \in Jobs :
    results[j] = IF row[j].status = "completed" THEN row[j].attempt ELSE 0

\* A failed job failed on a non-retryable error or after its last attempt, and
\* a completed one carries no error code (the writers of last_error_code).
OutcomeIsExplained ==
  \A j \in Jobs :
    /\ row[j].status = "failed" =>
         \/ row[j].error = "fatal"
         \/ row[j].error = "max_attempts" /\ row[j].attempt >= row[j].limit
    /\ row[j].status = "completed" => row[j].error = "none"

\* A pending job can be claimed once it is due: the queue never holds a row
\* (and its dedupe key) that no worker will ever select.
PendingIsClaimable ==
  \A j \in Jobs : row[j].status = "pending" => row[j].attempt < row[j].limit

\* Polling clients stop at a terminal state: it and its results never change.
TerminalIsFinal ==
  [][\A j \in Jobs : Terminal(j) => row'[j] = row[j] /\ results'[j] = results[j]]_vars

\* Every job that was enqueued is completed or failed in the end, over crashes,
\* retries and recoveries.
EveryJobFinishes ==
  \A j \in Jobs : row[j].status = "pending" ~> Terminal(j)

-----------------------------------------------------------------------------
(* What it promises whatever the heartbeats and the clocks do.             *)

\* Owner and lease are set on running rows only, and a dedupe key is held by
\* one active row of its own request: a job that ended never blocks a request.
RowShape ==
  \A j \in Jobs :
    /\ row[j].status = "running" <=> row[j].owner # None
    /\ row[j].status = "running" <=> row[j].lease # "none"
    /\ row[j].dedupe # None =>
         /\ Active(j) /\ row[j].dedupe = row[j].request
         /\ \A i \in Jobs : row[i].dedupe = row[j].dedupe => i = j

\* A job is only reported completed with its result rows in place.
CompletedHasResults ==
  \A j \in Jobs : row[j].status = "completed" => results[j] # 0

\* Committed result rows are replaced at most, never lost.
ResultsNeverLost ==
  [][\A j \in Jobs : results[j] # 0 => results'[j] # 0]_vars

\* No job is run more often than the most generous setting allows, whatever
\* mixture of worker settings claims it.
AttemptBudget ==
  \A j \in Jobs :
    \/ row[j].attempt <= InitialMax
    \/ \E w \in Workers : row[j].attempt <= WorkerMax[w]

-----------------------------------------------------------------------------
(* What the code or its documents say and stalled workers break.           *)

\* Only the worker that holds the claim completes a job: finish_job_success
\* raises analysis_job_claim_lost otherwise.
OnlyOwnerCompletes ==
  [][\A w \in Workers : FinishSuccess(w) => Owns(w, work[w].job)]_vars

=============================================================================
