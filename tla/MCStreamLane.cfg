CONSTANTS
  MaxStream = 3
  MaxSession = 2
  MAX_STREAMS = 2
  STREAM_WINDOW = 2
  MUX_LINK_WINDOW = 3
  CHANNEL_QUEUE_MAX = 2
  Pastes = {1,3}
  MaxTyped = 4
SPECIFICATION FairSpec
INVARIANTS LanesExact
PROPERTY InFlightSettles
CHECK_DEADLOCK FALSE
