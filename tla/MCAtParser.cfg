CONSTANTS
  Conversations <- TwoOrThree
  MaxTransfers = 3
SPECIFICATION Spec
INVARIANTS TypeOK HandledAsSent ArgsOfOneLine DeafOnlyByQuotation StateFromReports
PROPERTIES HearsWholeLines DeafUntilQuote
CHECK_DEADLOCK FALSE
