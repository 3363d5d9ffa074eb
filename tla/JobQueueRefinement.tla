------------------------- MODULE JobQueueRefinement -------------------------
(***************************************************************************)
(* The queue implements AnalysisService when heartbeats are timely: the    *)
(* client sees the status column, the attempts and whether rows are there. *)
(***************************************************************************)
EXTENDS JobQueue

CONSTANT MaxTries  \* the most attempts any setting allows

ASSUME MaxTriesAssumption ==
  /\ MaxTries \in Nat
  /\ InitialMax <= MaxTries
  /\ \A w \in Workers : WorkerMax[w] <= MaxTries

statusBar    == [j \in Jobs |-> row[j].status]
requestBar   == [j \in Jobs |-> row[j].request]
triesBar     == [j \in Jobs |-> row[j].attempt]
publishedBar == [j \in Jobs |-> results[j] # 0]

Service == INSTANCE AnalysisService WITH
  NoRequest <- None, status <- statusBar, request <- requestBar,
  tries <- triesBar, published <- publishedBar

\* Every step of workers, heartbeats, crashes and API requests is a step of the
\* service as its clients see it, or no step at all (ADR-015).
ImplementsService == Service!Spec

\* ... and every job goes on until it ends.
ImplementsFairService == Service!FairSpec

=============================================================================
