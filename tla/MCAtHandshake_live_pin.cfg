CONSTANTS
  Pin = TRUE
  PinStep = 10
  QueryStep = 15
  ApnStep = 17
  AttachStep = 18
  NwValues <- NwAround
  May <- EarlyAnswers
SPECIFICATION FairSpec
PROPERTIES ConnectedOrStalled
