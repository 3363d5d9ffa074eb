--------------------------- MODULE JobQueueProofs ---------------------------
(***************************************************************************)
(* Theorems about JobQueue for any set of jobs, workers, requests and      *)
(* clients and any settings of max_attempts.                               *)
(***************************************************************************)
EXTENDS JobQueue, TLAPS

-----------------------------------------------------------------------------
(* Type correctness.                                                       *)

USE QueueAssumption

LEMMA InitTypeOK == Init => TypeOK
<1>1. NoRow \in Row
  BY DEF NoRow, Row, Statuses, Errors
<1>2. Polling \in Work /\ Polling.pc = "polling"
  BY DEF Polling, Work
<1>3. IdleClient \in Client
  BY DEF IdleClient, Client
<1> QED BY <1>1, <1>2, <1>3 DEF Init, TypeOK, Executing

LEMMA BecomesDueType ==
  ASSUME TypeOK, NEW j \in Jobs, BecomesDue(j)
  PROVE  earlier' \in [Jobs -> SUBSET Jobs]
BY DEF TypeOK, BecomesDue

LEMMA NotDueType ==
  ASSUME TypeOK, NEW j \in Jobs, NotDue(j)
  PROVE  earlier' \in [Jobs -> SUBSET Jobs]
BY DEF TypeOK, NotDue

LEMMA WorkUpdate ==
  ASSUME TypeOK, NEW w \in Workers, NEW m \in Work,
         m.pc \in Executing \cup {"recovering"} => m.job \in Jobs,
         work' = [work EXCEPT ![w] = m]
  PROVE  /\ work' \in [Workers -> Work]
         /\ \A v \in Workers :
              work'[v].pc \in Executing \cup {"recovering"} => work'[v].job \in Jobs
BY DEF TypeOK

LEMMA RecoveredType ==
  ASSUME NEW r \in Row
  PROVE  Recovered(r) \in Row
<1>1. CASE r.attempt >= r.limit
  BY <1>1 DEF Recovered, Row, Statuses, Errors
<1>2. CASE ~ (r.attempt >= r.limit)
  BY <1>2 DEF Recovered, Row, Statuses, Errors
<1> QED BY <1>1, <1>2

LEMMA CreatedType ==
  ASSUME NEW q \in Requests \cup {None}
  PROVE  Created(q) \in Row
BY DEF Created, NoRow, Row, Statuses, Errors

LEMMA CompletedType ==
  ASSUME NEW r \in Row
  PROVE  Completed(r) \in Row
BY DEF Completed, Row, Statuses

LEMMA RequeuedType ==
  ASSUME NEW r \in Row
  PROVE  Requeued(r) \in Row
BY DEF Requeued, Row, Statuses, Errors

LEMMA AbandonedType ==
  ASSUME NEW r \in Row, NEW b
  PROVE  Abandoned(r, b) \in Row
<1> DEFINE e == IF b THEN "max_attempts" ELSE "fatal"
<1>1. e \in Errors
  BY DEF Errors
<1>2. Abandoned(r, b) = [r EXCEPT !.status = "failed", !.owner = None, !.lease = "none",
                                  !.delayed = FALSE, !.dedupe = None, !.error = e]
  BY DEF Abandoned
<1> HIDE DEF e
<1> QED BY <1>1, <1>2 DEF Row, Statuses

LEMMA ClaimedType ==
  ASSUME NEW w \in Workers, NEW r \in Row
  PROVE  ClaimedBy(w, r) \in Row
<1>1. WorkerMax[w] \in Nat /\ r.attempt + 1 \in Nat
  BY DEF Row
<1> QED BY <1>1 DEF ClaimedBy, Row, Statuses, Errors

LEMMA RowUpdate ==
  ASSUME TypeOK, NEW j \in Jobs, NEW r \in Row, row' = [row EXCEPT ![j] = r]
  PROVE  row' \in [Jobs -> Row]
BY DEF TypeOK

\* One step per action.
THEOREM TypeStep == TypeOK /\ [Next]_vars => TypeOK'
<1> SUFFICES ASSUME TypeOK, [Next]_vars PROVE TypeOK'
  OBVIOUS
<1>a. ASSUME NEW w \in Workers PROVE work[w] \in Work
  BY DEF TypeOK
<1>b. ASSUME NEW j \in Jobs PROVE row[j] \in Row
  BY DEF TypeOK
<1>c. Polling \in Work /\ Polling.pc = "polling"
  BY DEF Polling, Work
<1>1. ASSUME NEW c \in Clients, NEW r \in Requests, SelectNoActive(c, r) PROVE TypeOK'
  BY <1>1 DEF SelectNoActive, Client, TypeOK
<1>2. ASSUME NEW c \in Clients, InsertJob(c) PROVE TypeOK'
  <2> DEFINE q == client[c].request
  <2>1. PICK j \in Jobs : row' = [row EXCEPT ![j] = Created(q)] /\ BecomesDue(j)
    BY <1>2 DEF InsertJob
  <2>a. q \in Requests \cup {None}
    BY DEF Client, TypeOK
  <2>2. row' \in [Jobs -> Row]
    BY <2>1, <2>a, CreatedType, RowUpdate
  <2>3. earlier' \in [Jobs -> SUBSET Jobs]
    BY <2>1, BecomesDueType
  <2> QED BY <1>2, <2>2, <2>3 DEF InsertJob, IdleClient, Client, TypeOK
<1>3. ASSUME NEW c \in Clients, InsertConflict(c) PROVE TypeOK'
  BY <1>3 DEF InsertConflict, Client, TypeOK
<1>4. ASSUME NEW c \in Clients, Reselect(c) PROVE TypeOK'
  BY <1>4 DEF Reselect, Client, IdleClient, TypeOK
<1>5. ASSUME NEW j \in Jobs, ExpireLease(j) PROVE TypeOK'
  <2>1. [row[j] EXCEPT !.lease = "expired"] \in Row
    BY <1>b DEF Row
  <2>2. row' \in [Jobs -> Row]
    BY <1>5, <2>1, RowUpdate DEF ExpireLease
  <2> QED BY <1>5, <2>2 DEF ExpireLease, TypeOK
<1>6. ASSUME NEW j \in Jobs, DelayElapses(j) PROVE TypeOK'
  <2>1. [row[j] EXCEPT !.delayed = FALSE] \in Row
    BY <1>b DEF Row
  <2>2. row' \in [Jobs -> Row]
    BY <1>6, <2>1, RowUpdate DEF DelayElapses
  <2>3. earlier' \in [Jobs -> SUBSET Jobs]
    BY <1>6, BecomesDueType DEF DelayElapses
  <2> QED BY <1>6, <2>2, <2>3 DEF DelayElapses, TypeOK
<1>7. ASSUME NEW w \in Workers, Sweep(w) PROVE TypeOK'
  <2> DEFINE m == [work[w] EXCEPT !.pc = "sweeping", !.todo = {j \in Jobs : Stale(j)}]
  <2>1. m \in Work /\ m.pc = "sweeping"
    BY <1>a DEF Work
  <2>2. work' = [work EXCEPT ![w] = m]
    BY <1>7 DEF Sweep
  <2> QED BY <1>7, <2>1, <2>2, WorkUpdate DEF Sweep, Executing, TypeOK
<1>8. ASSUME NEW w \in Workers, NEW j \in Jobs, RecoverRead(w, j) PROVE TypeOK'
  <2> DEFINE m == [work[w] EXCEPT !.pc = "recovering", !.job = j,
                                   !.todo = work[w].todo \ {j}]
             n == [work[w] EXCEPT !.todo = work[w].todo \ {j}]
  <2>1. m \in Work /\ m.job \in Jobs
    BY <1>a DEF Work
  <2>2. n \in Work /\ n.pc = "sweeping"
    BY <1>a, <1>8 DEF Work, RecoverRead
  <2>3. \/ work' = [work EXCEPT ![w] = m]
        \/ work' = [work EXCEPT ![w] = n]
    BY <1>8 DEF RecoverRead
  <2> QED BY <1>8, <2>1, <2>2, <2>3, WorkUpdate DEF RecoverRead, Executing, TypeOK
<1>9. ASSUME NEW w \in Workers, RecoverWrite(w) PROVE TypeOK'
  <2> DEFINE j == work[w].job
             m == [work[w] EXCEPT !.pc = "sweeping", !.job = None]
  <2>1. j \in Jobs
    BY <1>9 DEF RecoverWrite, TypeOK
  <2>2. m \in Work /\ m.pc = "sweeping"
    BY <1>a DEF Work
  <2>3. work' = [work EXCEPT ![w] = m]
    BY <1>9 DEF RecoverWrite
  <2>4. Recovered(row[j]) \in Row
    BY <2>1, <1>b, RecoveredType
  <2>5. row' \in [Jobs -> Row]
    BY <1>9, <2>1, <2>4, RowUpdate DEF RecoverWrite, TypeOK
  <2>6. earlier' \in [Jobs -> SUBSET Jobs]
    BY <1>9, <2>1, BecomesDueType, NotDueType DEF RecoverWrite, TypeOK
  <2> QED BY <1>9, <2>2, <2>3, <2>5, <2>6, WorkUpdate DEF RecoverWrite, Executing, TypeOK
<1>10. ASSUME NEW w \in Workers, Claim(w) PROVE TypeOK'
  <2>1. PICK j \in Jobs :
          /\ row' = [row EXCEPT ![j] = ClaimedBy(w, row[j])]
          /\ NotDue(j)
          /\ work' = [work EXCEPT ![w] = [@ EXCEPT !.pc = "claimed", !.job = j]]
    BY <1>10 DEF Claim
  <2> DEFINE m == [work[w] EXCEPT !.pc = "claimed", !.job = j]
  <2>2. m \in Work /\ m.job \in Jobs
    BY <1>a DEF Work, Executing
  <2>3. ClaimedBy(w, row[j]) \in Row
    BY <1>b, ClaimedType
  <2>4. row' \in [Jobs -> Row]
    BY <2>1, <2>3, RowUpdate
  <2>5. earlier' \in [Jobs -> SUBSET Jobs]
    BY <2>1, NotDueType
  <2> QED BY <1>10, <2>1, <2>2, <2>4, <2>5, WorkUpdate DEF Claim, TypeOK
<1>11. ASSUME NEW w \in Workers, NothingToClaim(w) PROVE TypeOK'
  BY <1>11, <1>c, WorkUpdate DEF NothingToClaim, Executing, TypeOK
<1>12. ASSUME NEW w \in Workers, LoadJob(w) PROVE TypeOK'
  <2> DEFINE j == work[w].job
             m == [work[w] EXCEPT !.pc = "loaded", !.beating = TRUE, !.attempt = row[j].attempt]
  <2>1. j \in Jobs
    BY <1>12 DEF LoadJob, Executing, TypeOK
  <2>2. m \in Work /\ m.job \in Jobs
    BY <1>a, <1>b, <2>1, ZenonT(40) DEF Work, Row, Executing
  <2>3. work' = [work EXCEPT ![w] = m] \/ work' = [work EXCEPT ![w] = Polling]
    BY <1>12 DEF LoadJob
  <2> QED BY <1>12, <1>c, <2>2, <2>3, WorkUpdate DEF LoadJob, Executing, TypeOK
<1>13. ASSUME NEW w \in Workers, DeleteResults(w) PROVE TypeOK'
  <2> DEFINE m == [work[w] EXCEPT !.pc = "analysing", !.cleared = results[work[w].job]]
  <2>1. work[w].job \in Jobs
    BY <1>13 DEF DeleteResults, Executing, TypeOK
  <2>2. m \in Work /\ m.job \in Jobs
    BY <1>a, <2>1, ZenonT(40) DEF Work, Executing, TypeOK
  <2> QED BY <1>13, <2>2, WorkUpdate DEF DeleteResults, TypeOK
<1>14. ASSUME NEW w \in Workers, FinishSuccess(w) PROVE TypeOK'
  <2> DEFINE j == work[w].job
  <2>1. j \in Jobs
    BY <1>14 DEF FinishSuccess, Executing, TypeOK
  <2>2. Completed(row[j]) \in Row
    BY <1>b, <2>1, CompletedType
  <2>3. row' \in [Jobs -> Row]
    BY <1>14, <2>1, <2>2, RowUpdate DEF FinishSuccess
  <2>4. earlier' \in [Jobs -> SUBSET Jobs]
    BY <1>14, <2>1, NotDueType DEF FinishSuccess
  <2>5. results' \in [Jobs -> Nat]
    BY <1>14, <1>a, <2>1 DEF FinishSuccess, Work, TypeOK
  <2> QED BY <1>14, <1>c, <2>3, <2>4, <2>5, WorkUpdate DEF FinishSuccess, Executing, TypeOK
<1>15. ASSUME NEW w \in Workers, AnalysisFails(w) PROVE TypeOK'
  <2>1. PICK b \in BOOLEAN :
          work' = [work EXCEPT ![w] = [@ EXCEPT !.pc = "failing", !.retryable = b]]
    BY <1>15 DEF AnalysisFails
  <2> DEFINE m == [work[w] EXCEPT !.pc = "failing", !.retryable = b]
  <2>2. m \in Work /\ m.job \in Jobs
    BY <1>a, <1>15 DEF Work, Executing, AnalysisFails, TypeOK
  <2> QED BY <1>15, <2>1, <2>2, WorkUpdate DEF AnalysisFails, TypeOK
<1>16. ASSUME NEW w \in Workers, FailureRead(w) PROVE TypeOK'
  <2> DEFINE m(p) == [work[w] EXCEPT !.pc = p]
  <2>1. ASSUME NEW p \in {"requeueing", "abandoning"} PROVE m(p) \in Work /\ m(p).job \in Jobs
    BY <1>a, <1>16 DEF Work, Executing, FailureRead, TypeOK
  <2>2. \/ work' = [work EXCEPT ![w] = Polling]
        \/ work' = [work EXCEPT ![w] = m("requeueing")]
        \/ work' = [work EXCEPT ![w] = m("abandoning")]
    BY <1>16 DEF FailureRead
  <2> QED BY <1>16, <1>c, <2>1, <2>2, WorkUpdate DEF FailureRead, Executing, TypeOK
<1>17. ASSUME NEW w \in Workers, Requeue(w) PROVE TypeOK'
  <2> DEFINE j == work[w].job
  <2>1. j \in Jobs
    BY <1>17 DEF Requeue, Executing, TypeOK
  <2>2. Requeued(row[j]) \in Row
    BY <1>b, <2>1, RequeuedType
  <2>3. row' \in [Jobs -> Row]
    BY <1>17, <2>1, <2>2, RowUpdate DEF Requeue
  <2>4. earlier' \in [Jobs -> SUBSET Jobs]
    BY <1>17, <2>1, NotDueType DEF Requeue
  <2> QED BY <1>17, <1>c, <2>3, <2>4, WorkUpdate DEF Requeue, Executing, TypeOK
<1>18. ASSUME NEW w \in Workers, Abandon(w) PROVE TypeOK'
  <2> DEFINE j == work[w].job
  <2>1. j \in Jobs
    BY <1>18 DEF Abandon, Executing, TypeOK
  <2>2. Abandoned(row[j], work[w].retryable) \in Row
    BY <1>b, <2>1, AbandonedType
  <2>3. row' \in [Jobs -> Row]
    BY <1>18, <2>1, <2>2, RowUpdate DEF Abandon
  <2>4. earlier' \in [Jobs -> SUBSET Jobs]
    BY <1>18, <2>1, NotDueType DEF Abandon
  <2> QED BY <1>18, <1>c, <2>3, <2>4, WorkUpdate DEF Abandon, Executing, TypeOK
<1>19. ASSUME NEW w \in Workers, Heartbeat(w) PROVE TypeOK'
  <2> DEFINE j == work[w].job
  <2>1. CASE j \in Jobs /\ row' = [row EXCEPT ![j].lease = "live"] /\ UNCHANGED work
    <3>1. [row[j] EXCEPT !.lease = "live"] \in Row
      BY <1>b, <2>1 DEF Row
    <3>2. row' \in [Jobs -> Row]
      BY <2>1, <3>1, RowUpdate
    <3> QED BY <1>19, <2>1, <3>2 DEF Heartbeat, TypeOK
  <2>2. CASE j \notin Jobs /\ row' = [row EXCEPT ![j].lease = "live"] /\ UNCHANGED work
    <3>1. row' = row
      BY <2>2 DEF TypeOK
    <3>2. UNCHANGED vars
      BY <1>19, <2>2, <3>1 DEF Heartbeat, vars
    <3> QED BY <3>2 DEF vars, TypeOK
  <2>3. CASE work' = [work EXCEPT ![w].beating = FALSE] /\ UNCHANGED row
    <3>1. /\ [work[w] EXCEPT !.beating = FALSE] \in Work
          /\ [work[w] EXCEPT !.beating = FALSE].pc = work[w].pc
          /\ [work[w] EXCEPT !.beating = FALSE].job = work[w].job
      BY <1>a DEF Work
    <3> QED BY <1>19, <2>3, <3>1, WorkUpdate DEF Heartbeat, TypeOK
  <2> QED BY <1>19, <2>1, <2>2, <2>3 DEF Heartbeat
<1>20. ASSUME NEW w \in Workers, HeartbeatDies(w) PROVE TypeOK'
  <2>1. /\ [work[w] EXCEPT !.beating = FALSE] \in Work
        /\ [work[w] EXCEPT !.beating = FALSE].pc = work[w].pc
        /\ [work[w] EXCEPT !.beating = FALSE].job = work[w].job
    BY <1>a DEF Work
  <2> QED BY <1>20, <2>1, WorkUpdate DEF HeartbeatDies, TypeOK
<1>21. ASSUME NEW w \in Workers, Crash(w) PROVE TypeOK'
  <2>1. [Polling EXCEPT !.pc = "down"] \in Work /\ [Polling EXCEPT !.pc = "down"].pc = "down"
    BY <1>c DEF Polling, Work
  <2> QED BY <1>21, <2>1, WorkUpdate DEF Crash, Executing, TypeOK
<1>22. ASSUME NEW w \in Workers, Restart(w) PROVE TypeOK'
  BY <1>22, <1>c, WorkUpdate DEF Restart, Executing, TypeOK
<1>23. CASE UNCHANGED vars
  BY <1>23 DEF vars, TypeOK
<1> QED
  BY <1>1, <1>2, <1>3, <1>4, <1>5, <1>6, <1>7, <1>8, <1>9, <1>10, <1>11, <1>12,
     <1>13, <1>14, <1>15, <1>16, <1>17, <1>18, <1>19, <1>20, <1>21, <1>22, <1>23
  DEF Next, ClientStep, WorkerStep

\* Every reachable row, memory of a worker and memory of a request has its type.
THEOREM TypeCorrect == Spec => []TypeOK
<1>1. Init => TypeOK
  BY InitTypeOK
<1> QED
  BY <1>1, TypeStep, PTL DEF Spec

-----------------------------------------------------------------------------
(* What a step does to the tables: nothing, or one write of one row.       *)

\* The claim of j by w, without its place in the order.
Claims(w, j) ==
  /\ Claim(w) /\ Claimable(j)
  /\ row'[j] = ClaimedBy(w, row[j])
  /\ work' = [work EXCEPT ![w] = [@ EXCEPT !.pc = "claimed", !.job = j]]

Inserts(c, j) ==
  /\ InsertJob(c) /\ row[j].status = "absent"
  /\ row'[j] = Created(client[c].request)

Writes(w, j) ==
  /\ j = work[w].job
  /\ \/ RecoverWrite(w) /\ Stale(j) /\ row'[j] = Recovered(row[j])
     \/ FinishSuccess(w) /\ row'[j] = Completed(row[j])
     \/ Requeue(w) /\ row'[j] = Requeued(row[j])
     \/ Abandon(w) /\ row'[j] = Abandoned(row[j], work[w].retryable)
     \/ Heartbeat(w) /\ Owns(w, j) /\ row'[j] = [row[j] EXCEPT !.lease = "live"]

Change(j) ==
  \/ \E c \in Clients : Inserts(c, j)
  \/ ExpireLease(j) /\ row'[j] = [row[j] EXCEPT !.lease = "expired"]
  \/ DelayElapses(j) /\ row'[j] = [row[j] EXCEPT !.delayed = FALSE]
  \/ \E w \in Workers : Claims(w, j) \/ Writes(w, j)

\* The other rows and their results stay as they are.
OthersKept(j) ==
  \A i \in Jobs : i # j => row'[i] = row[i] /\ results'[i] = results[i]

LEMMA RowStep ==
  ASSUME TypeOK, [Next]_vars
  PROVE  \/ UNCHANGED <<row, results>>
         \/ \E j \in Jobs : Change(j) /\ OthersKept(j)
<1> DEFINE Goal == \/ UNCHANGED <<row, results>>
                   \/ \E j \in Jobs : Change(j) /\ OthersKept(j)
<1>1. ASSUME NEW c \in Clients, InsertJob(c) PROVE Goal
  <2>1. PICK j \in Jobs : /\ row[j].status = "absent"
                          /\ row' = [row EXCEPT ![j] = Created(client[c].request)]
    BY <1>1 DEF InsertJob
  <2>2. OthersKept(j) /\ row'[j] = Created(client[c].request)
    BY <1>1, <2>1 DEF OthersKept, InsertJob, TypeOK
  <2> QED BY <1>1, <2>1, <2>2 DEF Change, Inserts
<1>2. ASSUME NEW j \in Jobs, ExpireLease(j) PROVE Goal
  <2>1. OthersKept(j) /\ row'[j] = [row[j] EXCEPT !.lease = "expired"]
    BY <1>2 DEF OthersKept, ExpireLease, TypeOK
  <2> QED BY <1>2, <2>1 DEF Change
<1>3. ASSUME NEW j \in Jobs, DelayElapses(j) PROVE Goal
  <2>1. OthersKept(j) /\ row'[j] = [row[j] EXCEPT !.delayed = FALSE]
    BY <1>3 DEF OthersKept, DelayElapses, TypeOK
  <2> QED BY <1>3, <2>1 DEF Change
<1>4. ASSUME NEW w \in Workers, RecoverWrite(w) PROVE Goal
  <2> DEFINE j == work[w].job
  <2>1. j \in Jobs
    BY <1>4 DEF RecoverWrite, TypeOK
  <2>2. CASE Stale(j)
    <3>1. OthersKept(j) /\ row'[j] = Recovered(row[j])
      BY <1>4, <2>1, <2>2 DEF OthersKept, RecoverWrite, TypeOK
    <3> QED BY <1>4, <2>1, <2>2, <3>1 DEF Change, Writes
  <2>3. CASE ~ Stale(j)
    BY <1>4, <2>3 DEF RecoverWrite
  <2> QED BY <2>2, <2>3
<1>5. ASSUME NEW w \in Workers, Claim(w) PROVE Goal
  <2>1. PICK j \in Jobs :
          /\ Claimable(j)
          /\ row' = [row EXCEPT ![j] = ClaimedBy(w, row[j])]
          /\ work' = [work EXCEPT ![w] = [@ EXCEPT !.pc = "claimed", !.job = j]]
    BY <1>5 DEF Claim
  <2>2. OthersKept(j) /\ row'[j] = ClaimedBy(w, row[j])
    BY <1>5, <2>1 DEF OthersKept, Claim, TypeOK
  <2> QED BY <1>5, <2>1, <2>2 DEF Change, Claims
<1>6. ASSUME NEW w \in Workers, FinishSuccess(w) PROVE Goal
  <2>1. work[w].job \in Jobs
    BY <1>6 DEF FinishSuccess, Executing, TypeOK
  <2>2. OthersKept(work[w].job) /\ row'[work[w].job] = Completed(row[work[w].job])
    BY <1>6, <2>1 DEF OthersKept, FinishSuccess, TypeOK
  <2> QED BY <1>6, <2>1, <2>2 DEF Change, Writes
<1>7. ASSUME NEW w \in Workers, Requeue(w) PROVE Goal
  <2>1. work[w].job \in Jobs
    BY <1>7 DEF Requeue, Executing, TypeOK
  <2>2. OthersKept(work[w].job) /\ row'[work[w].job] = Requeued(row[work[w].job])
    BY <1>7, <2>1 DEF OthersKept, Requeue, TypeOK
  <2> QED BY <1>7, <2>1, <2>2 DEF Change, Writes
<1>8. ASSUME NEW w \in Workers, Abandon(w) PROVE Goal
  <2>1. work[w].job \in Jobs
    BY <1>8 DEF Abandon, Executing, TypeOK
  <2>2. /\ OthersKept(work[w].job)
        /\ row'[work[w].job] = Abandoned(row[work[w].job], work[w].retryable)
    BY <1>8, <2>1 DEF OthersKept, Abandon, TypeOK
  <2> QED BY <1>8, <2>1, <2>2 DEF Change, Writes
<1>9. ASSUME NEW w \in Workers, Heartbeat(w) PROVE Goal
  <2> DEFINE j == work[w].job
  <2>1. CASE Owns(w, j) /\ j \in Jobs
    <3>1. OthersKept(j) /\ row'[j] = [row[j] EXCEPT !.lease = "live"]
      BY <1>9, <2>1 DEF OthersKept, Heartbeat, TypeOK
    <3> QED BY <1>9, <2>1, <3>1, SMTT(30) DEF Change, Writes
  <2>2. CASE ~ Owns(w, j) \/ j \notin Jobs
    BY <1>9, <2>2 DEF Heartbeat, TypeOK
  <2> QED BY <2>1, <2>2
<1> HIDE DEF Goal
<1>10. \/ UNCHANGED <<row, results>>
       \/ \E c \in Clients : InsertJob(c)
       \/ \E j \in Jobs : ExpireLease(j) \/ DelayElapses(j)
       \/ \E w \in Workers : RecoverWrite(w) \/ Claim(w) \/ FinishSuccess(w)
                             \/ Requeue(w) \/ Abandon(w) \/ Heartbeat(w)
  BY DEF Next, ClientStep, WorkerStep, vars, SelectNoActive, InsertConflict, Reselect,
         Sweep, RecoverRead, NothingToClaim, LoadJob, DeleteResults, AnalysisFails,
         FailureRead, HeartbeatDies, Crash, Restart
<1>11. UNCHANGED <<row, results>> => Goal
  BY DEF Goal
<1>12. Goal
  BY <1>1, <1>2, <1>3, <1>4, <1>5, <1>6, <1>7, <1>8, <1>9, <1>10, <1>11
<1> QED BY <1>12 DEF Goal

\* What a step does to the memory of worker v.
LEMMA WorkStep ==
  ASSUME TypeOK, [Next]_vars, NEW v \in Workers
  PROVE  \/ work'[v] = work[v]
         \/ work'[v].pc \notin Executing
         \/ \E j \in Jobs : Claims(v, j)
         \/ LoadJob(v) \/ DeleteResults(v) \/ AnalysisFails(v) \/ FailureRead(v)
         \/ HeartbeatDies(v)
         \/ Heartbeat(v) /\ ~ Owns(v, work[v].job)
<1> DEFINE Goal == \/ work'[v] = work[v]
                   \/ work'[v].pc \notin Executing
                   \/ \E j \in Jobs : Claims(v, j)
                   \/ LoadJob(v) \/ DeleteResults(v) \/ AnalysisFails(v) \/ FailureRead(v)
                   \/ HeartbeatDies(v)
                   \/ Heartbeat(v) /\ ~ Owns(v, work[v].job)
<1>a. Polling.pc \notin Executing
  BY DEF Polling, Executing
<1>b. work[v] \in Work /\ work \in [Workers -> Work]
  BY DEF TypeOK
<1>1. UNCHANGED work => Goal
  OBVIOUS
<1>2. ASSUME NEW w \in Workers, Sweep(w) PROVE Goal
  BY <1>b, <1>2 DEF Sweep, Executing, Work
<1>3. ASSUME NEW w \in Workers, NEW j \in Jobs, RecoverRead(w, j) PROVE Goal
  <2> DEFINE m == [work[w] EXCEPT !.pc = "recovering", !.job = j,
                                   !.todo = work[w].todo \ {j}]
             n == [work[w] EXCEPT !.todo = work[w].todo \ {j}]
  <2>1. m.pc = "recovering" /\ n.pc = "sweeping"
    BY <1>b, <1>3 DEF Work, RecoverRead
  <2>2. work' = [work EXCEPT ![w] = m] \/ work' = [work EXCEPT ![w] = n]
    BY <1>3 DEF RecoverRead
  <2> HIDE DEF m, n
  <2> QED BY <1>b, <2>1, <2>2 DEF Executing
<1>4. ASSUME NEW w \in Workers, RecoverWrite(w) PROVE Goal
  BY <1>b, <1>4 DEF RecoverWrite, Executing, Work
<1>5. ASSUME NEW w \in Workers, NEW j \in Jobs, Claims(w, j) PROVE Goal
  BY <1>b, <1>5 DEF Claims
<1>6. ASSUME NEW w \in Workers, NothingToClaim(w) \/ FinishSuccess(w) \/ Requeue(w)
                                \/ Abandon(w) \/ Restart(w)
      PROVE  Goal
  <2>1. work' = [work EXCEPT ![w] = Polling]
    BY <1>6 DEF NothingToClaim, FinishSuccess, Requeue, Abandon, Restart
  <2> QED BY <1>a, <1>b, <2>1
<1>7. ASSUME NEW w \in Workers, LoadJob(w) PROVE Goal
  BY <1>b, <1>7 DEF LoadJob
<1>8. ASSUME NEW w \in Workers, DeleteResults(w) PROVE Goal
  BY <1>b, <1>8 DEF DeleteResults
<1>9. ASSUME NEW w \in Workers, AnalysisFails(w) PROVE Goal
  BY <1>b, <1>9 DEF AnalysisFails
<1>10. ASSUME NEW w \in Workers, FailureRead(w) PROVE Goal
  BY <1>b, <1>10 DEF FailureRead
<1>11. ASSUME NEW w \in Workers, Heartbeat(w) PROVE Goal
  BY <1>b, <1>11 DEF Heartbeat
<1>12. ASSUME NEW w \in Workers, HeartbeatDies(w) PROVE Goal
  BY <1>b, <1>12 DEF HeartbeatDies
<1>13. ASSUME NEW w \in Workers, Crash(w) PROVE Goal
  <2>1. [Polling EXCEPT !.pc = "down"].pc = "down"
    BY DEF Polling
  <2> QED BY <1>b, <1>13, <2>1 DEF Crash, Executing
<1>14. ASSUME NEW w \in Workers, Claim(w) PROVE \E j \in Jobs : Claims(w, j)
  <2>1. PICK j \in Jobs :
          /\ Claimable(j)
          /\ row' = [row EXCEPT ![j] = ClaimedBy(w, row[j])]
          /\ work' = [work EXCEPT ![w] = [@ EXCEPT !.pc = "claimed", !.job = j]]
    BY <1>14 DEF Claim
  <2> QED BY <1>14, <2>1 DEF Claims, TypeOK
<1> HIDE DEF Goal
<1>15. Goal
  <2>1. UNCHANGED vars \/ (\E c \in Clients : ClientStep(c))
        \/ (\E j \in Jobs : ExpireLease(j) \/ DelayElapses(j)) => Goal
    BY <1>1 DEF vars, ClientStep, SelectNoActive, InsertJob, InsertConflict, Reselect,
                ExpireLease, DelayElapses
  <2>2. ASSUME NEW w \in Workers, WorkerStep(w) PROVE Goal
    BY <1>2, <1>3, <1>4, <1>5, <1>6, <1>7, <1>8, <1>9, <1>10, <1>14, <2>2 DEF WorkerStep
  <2> QED BY <1>6, <1>11, <1>12, <1>13, <2>1, <2>2 DEF Next
<1> QED BY <1>15 DEF Goal

-----------------------------------------------------------------------------
(* The shape of the rows, whatever the heartbeats and the clocks do.       *)

\* What RowShape says of a single row.
ShapeOK(r) ==
  /\ r.status = "running" <=> r.owner # None
  /\ r.status = "running" <=> r.lease # "none"
  /\ r.dedupe # None => r.status \in {"pending", "running"} /\ r.dedupe = r.request

LEMMA ShapeOfRow ==
  ASSUME RowShape, NEW j \in Jobs
  PROVE  ShapeOK(row[j])
BY DEF RowShape, ShapeOK, Active

\* A write keeps the shape, and keeps the key, drops it or takes a free one.
LEMMA ChangeKeepsShape ==
  ASSUME TypeOK, RowShape, NEW j \in Jobs, Change(j)
  PROVE  /\ ShapeOK(row'[j])
         /\ \/ row'[j].dedupe \in {None, row[j].dedupe}
            \/ \A i \in Jobs : row[i].dedupe # row'[j].dedupe
<1> DEFINE Goal(r) == /\ ShapeOK(r)
                      /\ \/ r.dedupe \in {None, row[j].dedupe}
                         \/ \A i \in Jobs : row[i].dedupe # r.dedupe
<1>a. row[j] \in Row /\ ShapeOK(row[j])
  BY ShapeOfRow DEF TypeOK
<1>1. ASSUME NEW c \in Clients, Inserts(c, j) PROVE Goal(row'[j])
  <2>1. ShapeOK(row'[j]) /\ row'[j].dedupe = client[c].request
    BY <1>1 DEF Inserts, ShapeOK, Created, NoRow
  <2> QED BY <1>1, <2>1 DEF Inserts, InsertJob, KeyTaken
<1>2. CASE ExpireLease(j) /\ row'[j] = [row[j] EXCEPT !.lease = "expired"]
  BY <1>a, <1>2 DEF ShapeOK, ExpireLease, Row
<1>3. CASE DelayElapses(j) /\ row'[j] = [row[j] EXCEPT !.delayed = FALSE]
  BY <1>a, <1>3 DEF ShapeOK, Row
<1>4. ASSUME NEW w \in Workers, Claims(w, j) PROVE Goal(row'[j])
  BY <1>a, <1>4 DEF Claims, ShapeOK, ClaimedBy, Row
<1>5. ASSUME NEW w \in Workers, Writes(w, j) PROVE Goal(row'[j])
  <2>1. CASE Stale(j) /\ row'[j] = Recovered(row[j])
    <3>1. CASE row[j].attempt >= row[j].limit
      BY <1>a, <2>1, <3>1 DEF ShapeOK, Recovered, Row
    <3>2. CASE ~ (row[j].attempt >= row[j].limit)
      BY <1>a, <2>1, <3>2 DEF ShapeOK, Recovered, Row, Stale
    <3> QED BY <3>1, <3>2
  <2>2. CASE row'[j] = Completed(row[j])
    BY <1>a, <2>2 DEF ShapeOK, Completed, Row
  <2>3. CASE row'[j] = Requeued(row[j])
    BY <1>a, <2>3 DEF ShapeOK, Requeued, Row
  <2>4. CASE row'[j] = Abandoned(row[j], work[w].retryable)
    BY <1>a, <2>4 DEF ShapeOK, Abandoned, Row
  <2>5. CASE Owns(w, j) /\ row'[j] = [row[j] EXCEPT !.lease = "live"]
    BY <1>a, <2>5 DEF ShapeOK, Owns, Row
  <2> QED BY <1>5, <2>1, <2>2, <2>3, <2>4, <2>5 DEF Writes
<1> QED BY <1>1, <1>2, <1>3, <1>4, <1>5 DEF Change

LEMMA ShapeStep == TypeOK /\ RowShape /\ [Next]_vars => RowShape'
<1> SUFFICES ASSUME TypeOK, RowShape, [Next]_vars PROVE RowShape'
  OBVIOUS
<1>1. CASE UNCHANGED <<row, results>>
  BY <1>1 DEF RowShape, Active
<1>2. ASSUME NEW j \in Jobs, Change(j), OthersKept(j) PROVE RowShape'
  <2>1. /\ ShapeOK(row'[j])
        /\ \/ row'[j].dedupe \in {None, row[j].dedupe}
           \/ \A i \in Jobs : row[i].dedupe # row'[j].dedupe
    BY <1>2, ChangeKeepsShape
  <2>2. \A i \in Jobs : ShapeOK(row'[i])
    BY <1>2, <2>1, ShapeOfRow DEF OthersKept
  <2>3. ASSUME NEW i \in Jobs, NEW k \in Jobs,
               row'[k].dedupe # None, row'[i].dedupe = row'[k].dedupe
        PROVE  i = k
    <3>1. \A h \in Jobs : h # j => row'[h] = row[h]
      BY <1>2 DEF OthersKept
    <3>2. CASE row'[j].dedupe = row[j].dedupe
      <4>1. row[k].dedupe = row'[k].dedupe /\ row[i].dedupe = row'[i].dedupe
        BY <3>1, <3>2
      <4> QED BY <2>3, <4>1 DEF RowShape
    <3>3. CASE i # j /\ k # j
      BY <2>3, <3>1, <3>3 DEF RowShape
    <3>4. CASE row'[j].dedupe = None
      BY <2>3, <3>3, <3>4
    <3>5. CASE \A h \in Jobs : row[h].dedupe # row'[j].dedupe
      BY <2>3, <3>1, <3>3, <3>5
    <3> QED BY <2>1, <3>2, <3>4, <3>5
  <2> QED BY <2>2, <2>3 DEF RowShape, ShapeOK, Active
<1> QED BY <1>1, <1>2, RowStep

\* Under any timing, stalls and clock skew included: owner and lease are set on
\* running rows only, and an active row alone holds the dedupe key of its request.
THEOREM RowsKeepTheirShape == Spec => []RowShape
<1>1. Init => RowShape
  <2>1. /\ NoRow.status # "running" /\ NoRow.owner = None
        /\ NoRow.lease = "none" /\ NoRow.dedupe = None
    BY DEF NoRow
  <2>2. Init => \A j \in Jobs : row[j] = NoRow
    BY DEF Init
  <2> QED BY <2>1, <2>2 DEF RowShape
<1> QED
  BY <1>1, ShapeStep, TypeCorrect, PTL DEF Spec

-----------------------------------------------------------------------------
(* The attempt budget and the result rows, under any timing.               *)

\* Every limit comes from a setting, and no attempt exceeds one of them.
FromSettings(n) == n <= InitialMax \/ \E w \in Workers : n <= WorkerMax[w]

BudgetOK(r) == FromSettings(r.attempt) /\ FromSettings(r.limit)

BudgetInv == \A j \in Jobs : BudgetOK(row[j])

\* Only a claim counts an attempt.
LEMMA WritesKeepAttempt ==
  ASSUME TypeOK, NEW j \in Jobs, NEW w \in Workers, Writes(w, j)
  PROVE  /\ row'[j].attempt = row[j].attempt
         /\ row'[j].limit = row[j].limit
         /\ row'[j].request = row[j].request
<1>a. row[j] \in Row
  BY DEF TypeOK
<1>1. CASE row'[j] = Recovered(row[j])
  <2>1. CASE row[j].attempt >= row[j].limit
    BY <1>a, <1>1, <2>1 DEF Recovered, Row
  <2>2. CASE ~ (row[j].attempt >= row[j].limit)
    BY <1>a, <1>1, <2>2 DEF Recovered, Row
  <2> QED BY <2>1, <2>2
<1>2. CASE row'[j] = Completed(row[j])
  BY <1>a, <1>2 DEF Completed, Row
<1>3. CASE row'[j] = Requeued(row[j])
  BY <1>a, <1>3 DEF Requeued, Row
<1>4. CASE row'[j] = Abandoned(row[j], work[w].retryable)
  BY <1>a, <1>4 DEF Abandoned, Row
<1>5. CASE row'[j] = [row[j] EXCEPT !.lease = "live"]
  BY <1>a, <1>5 DEF Row
<1> QED BY <1>1, <1>2, <1>3, <1>4, <1>5 DEF Writes

LEMMA SameAttempt ==
  ASSUME TypeOK, NEW j \in Jobs, Change(j)
  PROVE  \/ \E c \in Clients : Inserts(c, j)
         \/ \E w \in Workers : Claims(w, j)
         \/ row'[j].attempt = row[j].attempt /\ row'[j].limit = row[j].limit
<1>a. row[j] \in Row
  BY DEF TypeOK
<1>1. CASE row'[j] = [row[j] EXCEPT !.lease = "expired"]
  BY <1>a, <1>1 DEF Row
<1>2. CASE row'[j] = [row[j] EXCEPT !.delayed = FALSE]
  BY <1>a, <1>2 DEF Row
<1> QED BY <1>1, <1>2, WritesKeepAttempt DEF Change

LEMMA BudgetStep == TypeOK /\ BudgetInv /\ [Next]_vars => BudgetInv'
<1> SUFFICES ASSUME TypeOK, BudgetInv, [Next]_vars PROVE BudgetInv'
  OBVIOUS
<1>1. CASE UNCHANGED <<row, results>>
  BY <1>1 DEF BudgetInv, BudgetOK, FromSettings
<1>2. ASSUME NEW j \in Jobs, Change(j), OthersKept(j) PROVE BudgetInv'
  <2>a. row[j] \in Row /\ BudgetOK(row[j])
    BY DEF BudgetInv, TypeOK
  <2>1. ASSUME NEW c \in Clients, Inserts(c, j) PROVE BudgetOK(row'[j])
    BY <2>1 DEF Inserts, Created, NoRow, BudgetOK, FromSettings
  <2>2. ASSUME NEW w \in Workers, Claims(w, j) PROVE BudgetOK(row'[j])
    <3>1. row'[j].attempt = row[j].attempt + 1 /\ row'[j].limit = WorkerMax[w]
      BY <2>a, <2>2 DEF Claims, ClaimedBy, Row
    <3>2. row[j].attempt + 1 <= row[j].limit
      BY <2>a, <2>2 DEF Claims, Claimable, Row
    <3>3. WorkerMax[w] \in Nat /\ row[j].attempt \in Nat /\ row[j].limit \in Nat
      BY <2>a DEF Row
    <3>4. FromSettings(row[j].attempt + 1)
      <4>1. CASE row[j].limit <= InitialMax
        BY <3>2, <3>3, <4>1 DEF FromSettings
      <4>2. ASSUME NEW v \in Workers, row[j].limit <= WorkerMax[v]
            PROVE  row[j].attempt + 1 <= WorkerMax[v]
        BY <3>2, <3>3, <4>2
      <4> QED BY <2>a, <4>1, <4>2 DEF BudgetOK, FromSettings
    <3>5. FromSettings(WorkerMax[w])
      BY <3>3 DEF FromSettings
    <3> QED BY <3>1, <3>4, <3>5 DEF BudgetOK
  <2>3. BudgetOK(row'[j])
    BY <1>2, <2>a, <2>1, <2>2, SameAttempt DEF BudgetOK
  <2>8. \A i \in Jobs : BudgetOK(row'[i])
    BY <1>2, <2>3 DEF OthersKept, BudgetInv
  <2> QED BY <2>8 DEF BudgetInv, BudgetOK, FromSettings
<1> QED BY <1>1, <1>2, RowStep

LEMMA InitBudget == Init => BudgetInv
<1>1. FromSettings(0)
  BY DEF FromSettings
<1>2. BudgetOK(NoRow)
  BY <1>1 DEF BudgetOK, NoRow
<1>3. Init => \A j \in Jobs : row[j] = NoRow
  BY DEF Init
<1> QED BY <1>2, <1>3 DEF BudgetInv

\* Under any timing and any mixture of worker settings no job is run more often
\* than the most generous of them allows.
THEOREM AttemptsAreBounded == Spec => []AttemptBudget
<1>1. BudgetInv => AttemptBudget
  BY DEF BudgetInv, BudgetOK, AttemptBudget, FromSettings
<1> QED
  BY <1>1, InitBudget, BudgetStep, TypeCorrect, PTL DEF Spec

-----------------------------------------------------------------------------
(* The result rows, under any timing: a stalled worker may replace them,   *)
(* but it writes an attempt that was claimed, so there are rows.           *)

PublishInv ==
  /\ \A j \in Jobs : row[j].status = "running" => row[j].attempt # 0
  /\ \A w \in Workers : work[w].pc \in {"loaded", "analysing"} => work[w].attempt # 0
  /\ CompletedHasResults

\* Only a completion writes result rows, those of the attempt it loaded.
LEMMA ResultsStep ==
  ASSUME TypeOK, PublishInv, [Next]_vars, NEW j \in Jobs
  PROVE  results'[j] = results[j] \/ results'[j] # 0
<1>1. ASSUME NEW w \in Workers, FinishSuccess(w) PROVE results'[j] = results[j] \/ results'[j] # 0
  BY <1>1, SMTT(30) DEF FinishSuccess, PublishInv, TypeOK
<1>2. results' = results \/ \E w \in Workers : FinishSuccess(w)
  BY DEF Next, ClientStep, WorkerStep, vars, SelectNoActive, InsertJob, InsertConflict, Reselect,
         ExpireLease, DelayElapses, Sweep, RecoverRead, RecoverWrite, Claim, NothingToClaim,
         LoadJob, DeleteResults, AnalysisFails, FailureRead, Requeue, Abandon,
         Heartbeat, HeartbeatDies, Crash, Restart
<1> QED BY <1>1, <1>2

LEMMA PublishRows ==
  ASSUME TypeOK, PublishInv, [Next]_vars, NEW j \in Jobs, Change(j)
  PROVE  /\ row'[j].status = "running" => row'[j].attempt # 0
         /\ row'[j].status = "completed" => results'[j] # 0
<1> DEFINE Goal == /\ row'[j].status = "running" => row'[j].attempt # 0
                   /\ row'[j].status = "completed" => results'[j] # 0
<1>a. /\ row[j] \in Row
      /\ row[j].status = "running" => row[j].attempt # 0
      /\ row[j].status = "completed" => results[j] # 0
      /\ results'[j] = results[j] \/ results'[j] # 0
  BY ResultsStep DEF PublishInv, CompletedHasResults, TypeOK
<1>1. ASSUME NEW c \in Clients, Inserts(c, j) PROVE Goal
  BY <1>1 DEF Inserts, Created, NoRow
<1>2. CASE row'[j] = [row[j] EXCEPT !.lease = "expired"]
  BY <1>a, <1>2 DEF Row
<1>3. CASE row'[j] = [row[j] EXCEPT !.delayed = FALSE]
  BY <1>a, <1>3 DEF Row
<1>4. ASSUME NEW w \in Workers, Claims(w, j) PROVE Goal
  BY <1>a, <1>4 DEF Claims, ClaimedBy, Row
<1>5. ASSUME NEW w \in Workers, Writes(w, j) PROVE Goal
  <2>1. CASE row'[j] = Recovered(row[j])
    <3>1. row'[j].status \in {"failed", "pending"}
      BY <1>a, <2>1 DEF Recovered, Row
    <3> QED BY <3>1
  <2>2. CASE FinishSuccess(w) /\ row'[j] = Completed(row[j])
    <3>1. row'[j].status = "completed"
      BY <1>a, <2>2 DEF Completed, Row
    <3>2. results'[j] # 0
      BY <1>5, <2>2 DEF FinishSuccess, Writes, PublishInv, TypeOK
    <3> QED BY <3>1, <3>2
  <2>3. CASE row'[j] = Requeued(row[j])
    BY <1>a, <2>3 DEF Requeued, Row
  <2>4. CASE row'[j] = Abandoned(row[j], work[w].retryable)
    BY <1>a, <2>4 DEF Abandoned, Row
  <2>5. CASE row'[j] = [row[j] EXCEPT !.lease = "live"]
    BY <1>a, <2>5 DEF Row
  <2> QED BY <1>5, <2>1, <2>2, <2>3, <2>4, <2>5 DEF Writes
<1> QED BY <1>1, <1>2, <1>3, <1>4, <1>5 DEF Change

LEMMA PublishWork ==
  ASSUME TypeOK, PublishInv, [Next]_vars, NEW w \in Workers,
         work'[w].pc \in {"loaded", "analysing"}
  PROVE  work'[w].attempt # 0
<1>a. work[w] \in Work /\ work \in [Workers -> Work]
  BY DEF TypeOK
<1>1. CASE work'[w] = work[w]
  BY <1>1 DEF PublishInv
<1>2. work'[w].pc \in Executing
  BY DEF Executing
<1>3. ASSUME NEW j \in Jobs, Claims(w, j) PROVE FALSE
  BY <1>a, <1>3 DEF Claims, Work
<1>4. CASE LoadJob(w)
  <2>1. CASE Owns(w, work[w].job)
    <3>1. work[w].job \in Jobs /\ row[work[w].job].status = "running"
      BY <1>4, <2>1 DEF LoadJob, Owns, Executing, TypeOK
    <3>2. work'[w].attempt = row[work[w].job].attempt
      BY <1>a, <1>4, <2>1 DEF LoadJob, Work
    <3> QED BY <3>1, <3>2 DEF PublishInv
  <2>2. CASE ~ Owns(w, work[w].job)
    BY <1>a, <1>4, <2>2 DEF LoadJob, Polling
  <2> QED BY <2>1, <2>2
<1>5. CASE DeleteResults(w)
  BY <1>a, <1>5 DEF DeleteResults, Work, PublishInv
<1>6. ~ AnalysisFails(w)
  <2> SUFFICES ASSUME AnalysisFails(w) PROVE FALSE
    OBVIOUS
  <2>1. PICK b \in BOOLEAN :
          work'[w] = [work[w] EXCEPT !.pc = "failing", !.retryable = b]
    BY <1>a DEF AnalysisFails
  <2> QED BY <1>a, <2>1 DEF Work
<1>7. ~ FailureRead(w)
  <2> SUFFICES ASSUME FailureRead(w) PROVE FALSE
    OBVIOUS
  <2>1. work'[w] \in {Polling, [work[w] EXCEPT !.pc = "requeueing"],
                               [work[w] EXCEPT !.pc = "abandoning"]}
    BY <1>a DEF FailureRead
  <2> QED BY <1>a, <2>1 DEF Polling, Work
<1>8. CASE HeartbeatDies(w) \/ (Heartbeat(w) /\ ~ Owns(w, work[w].job))
  BY <1>a, <1>8 DEF HeartbeatDies, Heartbeat, Work, PublishInv
<1> QED BY <1>1, <1>2, <1>3, <1>4, <1>5, <1>6, <1>7, <1>8, WorkStep

LEMMA PublishStep == TypeOK /\ PublishInv /\ [Next]_vars => PublishInv'
<1> SUFFICES ASSUME TypeOK, PublishInv, [Next]_vars PROVE PublishInv'
  OBVIOUS
<1>1. ASSUME NEW j \in Jobs
      PROVE  /\ row'[j].status = "running" => row'[j].attempt # 0
             /\ row'[j].status = "completed" => results'[j] # 0
  <2>1. CASE row'[j] = row[j] /\ results'[j] = results[j]
    BY <2>1 DEF PublishInv, CompletedHasResults
  <2>2. CASE Change(j)
    BY <2>2, PublishRows
  <2> QED BY <2>1, <2>2, RowStep DEF OthersKept
<1> QED BY <1>1, PublishWork DEF PublishInv, CompletedHasResults

LEMMA InitPublish == Init => PublishInv
<1>1. NoRow.status = "absent" /\ Polling.pc = "polling"
  BY DEF NoRow, Polling
<1> QED BY <1>1 DEF Init, PublishInv, CompletedHasResults

\* Under any timing a completed job has its result rows.
THEOREM CompletedJobsHaveResults == Spec => []CompletedHasResults
<1>1. PublishInv => CompletedHasResults
  BY DEF PublishInv
<1> QED
  BY <1>1, InitPublish, PublishStep, TypeCorrect, PTL DEF Spec

\* Under any timing committed result rows are at most replaced by those of
\* another run of the job, never lost.
THEOREM ResultsAreNeverLost == Spec => ResultsNeverLost
<1>1. TypeOK /\ PublishInv /\ [Next]_vars
        => [\A j \in Jobs : results[j] # 0 => results'[j] # 0]_vars
  BY ResultsStep
<1> QED
  BY <1>1, InitPublish, PublishStep, TypeCorrect, PTL DEF Spec, ResultsNeverLost

=============================================================================
