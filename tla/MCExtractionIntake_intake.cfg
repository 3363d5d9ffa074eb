\* Two requests, two processes that share the temporary root, two pages or
\* images, two attempts of the sweep.
SPECIFICATION Spec
CONSTANTS
  Requests = {r1, r2}
  Procs = {p1, p2}
  MaxTries = 2
  MaxPages = 2
  None = None
SYMMETRY Symmetry
INVARIANTS TypeOK LiveDirectoryIsKept NothingIsKept EveryOriginalIsMarked RowIsReviewable
PROPERTY SweepReports
CHECK_DEADLOCK FALSE
