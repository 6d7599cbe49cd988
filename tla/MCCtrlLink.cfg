CONSTANTS
  Debug = TRUE
  BufSize = 9
  Kinds <- AllKinds
  MaxFrames = 3
  May <- Anything
SPECIFICATION Spec
INVARIANTS TypeOK NoSplice AddressOfModem
PROPERTIES Resync
CHECK_DEADLOCK FALSE
