CONSTANTS
  Pin = FALSE
  PinStep = 10
  QueryStep = 15
  ApnStep = 17
  AttachStep = 18
  NwValues <- NwAround
  May <- Anything
SPECIFICATION Spec
INVARIANTS TypeOK HandshakeInv ConnectedAfterScript
PROPERTIES StopAndWait SpinIsFinal ScriptSpec
CHECK_DEADLOCK FALSE
