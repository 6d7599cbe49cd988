CONSTANTS
  MaxPackets = 3
  May <- Anything
SPECIFICATION FairSpec
INVARIANTS TypeOK PollSetCurrent ReportsHandled ShortOnlyWhenDeleted
PROPERTIES UplinkSpec TapServed EndpointsServed UnplugNoticed
