\* Two users, two pages to review, overlapping requests.
SPECIFICATION Spec
CONSTANTS
  Pages = {1, 2}
  Required = {1, 2}
  Failed = {}
  Texts = {o, e}
  Original = o
  Sessions = {s1, s2}
  Serial = FALSE
  MaxVersion = 4
  None = None
SYMMETRY Symmetry
INVARIANT ConfirmationIsFinal
CHECK_DEADLOCK FALSE
