\* All documents, two jobs of two attempts, two attempts of a provider call.
SPECIFICATION Spec
CONSTANTS
  Documents <- AllDocuments
  Responses <- Answers
  MaxAttempts = 2
  ProviderAttempts = 2
  MaxJobs = 2
  SourceLimit = 8
  TextLimit = 10
  QuoteLimit = 4
  None = None
INVARIANTS TypeOK ResultsAreComplete CallsAreBounded SentIsMasked SplitIsSound ItemsAreSound TextIsAnalysable
CHECK_DEADLOCK FALSE
