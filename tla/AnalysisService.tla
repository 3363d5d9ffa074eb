--------------------------- MODULE AnalysisService ---------------------------
(***************************************************************************)
(* What the analysis jobs promise a client of the API, without workers,    *)
(* leases or heartbeats: a request has one active job at a time, a job is  *)
(* tried a bounded number of times, its results appear in the step that    *)
(* completes it, and it ends.                                              *)
(***************************************************************************)
EXTENDS Naturals

CONSTANTS Jobs, Requests, MaxTries, NoRequest

VARIABLES
  status,     \* AnalysisJob.status as GET /analysis-jobs/{job_id} answers it
  request,    \* the request a job was created for
  tries,      \* how often a worker started the job
  published   \* the result rows are readable

vars == <<status, request, tries, published>>

Active(j) == status[j] \in {"pending", "running"}

Init ==
  /\ status = [j \in Jobs |-> "absent"]
  /\ request = [j \in Jobs |-> NoRequest]
  /\ tries = [j \in Jobs |-> 0]
  /\ published = [j \in Jobs |-> FALSE]

\* POST .../analysis-jobs creates a job unless the request has an active one.
Submit(j, r) ==
  /\ status[j] = "absent"
  /\ ~ \E k \in Jobs : Active(k) /\ request[k] = r
  /\ status' = [status EXCEPT ![j] = "pending"]
  /\ request' = [request EXCEPT ![j] = r]
  /\ UNCHANGED <<tries, published>>

Start(j) ==
  /\ status[j] = "pending"
  /\ tries[j] < MaxTries
  /\ status' = [status EXCEPT ![j] = "running"]
  /\ tries' = [tries EXCEPT ![j] = @ + 1]
  /\ UNCHANGED <<request, published>>

\* A retryable error or a lost worker; there is a try left.
Retry(j) ==
  /\ status[j] = "running"
  /\ tries[j] < MaxTries
  /\ status' = [status EXCEPT ![j] = "pending"]
  /\ UNCHANGED <<request, tries, published>>

Complete(j) ==
  /\ status[j] = "running"
  /\ status' = [status EXCEPT ![j] = "completed"]
  /\ published' = [published EXCEPT ![j] = TRUE]
  /\ UNCHANGED <<request, tries>>

Fail(j) ==
  /\ status[j] = "running"
  /\ status' = [status EXCEPT ![j] = "failed"]
  /\ UNCHANGED <<request, tries, published>>

Next ==
  \E j \in Jobs :
    \/ \E r \in Requests : Submit(j, r)
    \/ Start(j) \/ Retry(j) \/ Complete(j) \/ Fail(j)

\* A pending job is started and a running one is left, so every job ends.
Fairness ==
  \A j \in Jobs : /\ WF_vars(Start(j))
                  /\ WF_vars(Retry(j) \/ Complete(j) \/ Fail(j))

Spec == Init /\ [][Next]_vars

FairSpec == Spec /\ Fairness

=============================================================================
