CONSTANTS
  Requests = {}
  MaxEpoch = 2
  MaxCall = 2
  WireCap = 1
  Patient = FALSE
  MAX_PENDING_CALLS = 1
  MAX_SERVE_PENDING = 1
  MAX_SEND_QUEUE = 2
  MAX_RETRANSMITS = 1
  HELLO_RETRANSMITS = 1
  WIRE_PENDING = 1
  MaxTx = 2
  MaxRestart = 1
SPECIFICATION Spec
INVARIANT InOrderAtMostOnce
PROPERTY CallsKeepThePromise
CHECK_DEADLOCK FALSE
