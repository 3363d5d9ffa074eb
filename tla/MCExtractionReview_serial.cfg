\* Two users, two pages to review, requests one at a time.
SPECIFICATION Spec
CONSTANTS
  Pages = {1, 2}
  Required = {1, 2}
  Failed = {}
  Texts = {o, e, f}
  Original = o
  Sessions = {s1, s2}
  Serial = TRUE
  MaxVersion = 5
  None = None
SYMMETRY Symmetry
INVARIANTS TypeOK ConfirmationIsFinal SummaryMatchesPages AnalysedIsConfirmed
PROPERTIES ConfirmedIsSeen EditIsKept AnalysesWhatWasValidated
CHECK_DEADLOCK FALSE
