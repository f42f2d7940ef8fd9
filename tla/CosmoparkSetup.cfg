CONSTANTS
  START_BLOCK_HEIGHT = 2
  HttpTimeout = 4
  ChannelTimeout = 5
  Sleep = 2
  HermesSleep = 2
  ConfirmDelay = 1
  BootDelay = 2
  MaxConnections = 2

SPECIFICATION Spec
INVARIANTS TypeOK RelayerReady ChannelReady
PROPERTY SetupEnds
CHECK_DEADLOCK FALSE
