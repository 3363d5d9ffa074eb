\* Two workers, two rows, two concurrent requests for the same fingerprint;
\* processes stall past their leases, heartbeat threads die, crashes.
SPECIFICATION Spec
CONSTANTS
  w1 = w1
  w2 = w2
  Workers = {w1, w2}
  Jobs = {j1, j2}
  Requests = {r1, r2}
  Clients = {c1, c2}
  InitialMax = 2
  MaxTries = 2
  WorkerMax <- MixedMax
  Timely = FALSE
  None = None
SYMMETRY Symmetry
INVARIANTS RowShape CompletedHasResults AttemptBudget
PROPERTIES ResultsNeverLost
