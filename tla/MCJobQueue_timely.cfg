\* Two workers, two rows, two concurrent requests for the same fingerprint;
\* heartbeats in time, crashes anywhere in process_job.
SPECIFICATION Spec
CONSTANTS
  w1 = w1
  w2 = w2
  Workers = {w1, w2}
  Jobs = {j1, j2}
  Requests = {r1, r2}
  Clients = {c1, c2}
  InitialMax = 2
  MaxTries = 2
  WorkerMax <- MixedMax
  Timely = TRUE
  None = None
SYMMETRY Symmetry
INVARIANTS TypeOK ClaimKept OneActivePerRequest PublishedIffCompleted OutcomeIsExplained PendingIsClaimable
PROPERTIES TerminalIsFinal ImplementsService
