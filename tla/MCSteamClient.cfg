CONSTANTS
  Event = {ChannelSecuredEvent, ClientLogonEvent, ProductInfoResult}
  MaxListeners = 3
  MaxCommands = 3
SPECIFICATION FairSpec
INVARIANTS
  TypeOK
  OnlyLiveObjectsRun
PROPERTIES
  ProgramExits
CHECK_DEADLOCK FALSE
