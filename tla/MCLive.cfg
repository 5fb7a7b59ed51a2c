CONSTANTS
  Requests = {}
  MaxEpoch = 2
  MaxCall = 1
  WireCap = 1
  Patient = TRUE
  MAX_PENDING_CALLS = 1
  MAX_SERVE_PENDING = 1
  MAX_SEND_QUEUE = 2
  MAX_RETRANSMITS = 1
  HELLO_RETRANSMITS = 1
  WIRE_PENDING = 1
  MaxTx = 3
  MaxRestart = 1
  Clients = {c1}
  Page = page
  EV_BACKLOG_MAX = 2
  MaxEmit = 4
  MaxLines = 2
SPECIFICATION LiveSpec
INVARIANTS EventsTold
PROPERTIES EventuallyUp GapIsTold
CHECK_DEADLOCK FALSE
