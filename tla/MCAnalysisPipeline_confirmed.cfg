\* Confirmed extractions.
SPECIFICATION Spec
CONSTANTS
  Documents <- Extractions
  Responses <- Answers
  MaxAttempts = 2
  ProviderAttempts = 1
  MaxJobs = 1
  SourceLimit = 8
  TextLimit = 10
  QuoteLimit = 4
  None = None
INVARIANT ConfirmedTextIsAnalysable
CHECK_DEADLOCK FALSE
