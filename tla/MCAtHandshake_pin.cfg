CONSTANTS
  Pin = TRUE
  PinStep = 10
  QueryStep = 15
  ApnStep = 17
  AttachStep = 18
  NwValues <- NwAround
  May <- WholeLines
SPECIFICATION Spec
INVARIANTS CommandsOnce ConnectedMissesOne TwoOutstanding AttachAfterRegistration ExitOnlyWhenDetached
CHECK_DEADLOCK FALSE
