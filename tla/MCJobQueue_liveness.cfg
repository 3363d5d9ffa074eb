\* Two workers, two rows, one API client, heartbeats in time, under the fairness
\* of FairSpec; no symmetry, which liveness does not allow.
SPECIFICATION FairSpec
CONSTANTS
  w1 = w1
  w2 = w2
  Workers = {w1, w2}
  Jobs = {j1, j2}
  Requests = {r1, r2}
  Clients = {c1}
  InitialMax = 2
  MaxTries = 2
  WorkerMax <- MixedMax
  Timely = TRUE
  None = None
PROPERTIES EveryJobFinishes ImplementsFairService
