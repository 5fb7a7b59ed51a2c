CONSTANTS
  Requests = {r1, r2}
  MaxEpoch = 2
  MaxCall = 0
  WireCap = 1
  Patient = FALSE
  MAX_PENDING_CALLS = 1
  MAX_SERVE_PENDING = 1
  MAX_SEND_QUEUE = 5
  MAX_RETRANSMITS = 1
  HELLO_RETRANSMITS = 1
  WIRE_PENDING = 1
  PAGE_PENDING = 1
  MaxTx = 3
  MaxRestart = 0
  CallIds = {i1, i2, i3}
  Methods = {m1}
  MAX_CLIENTS = 2
  MAX_PENDING = 2
  PER_CLIENT_PENDING = 2
  EXT_PER_CLIENT = 1
  MaxConn = 3
  MaxSession = 2
  Webs = {wapp}
  Ttys = {tapp}
  Shells = {sh}
  Enabled = {wapp, tapp}
  MAX_WINDOWS = 2
  MaxRun = 2
  MaxLoss = 1
SPECIFICATION ServesSpec
SYMMETRY ServesSymmetry
INVARIANTS ServedExactly RouterExact WindowsTrue
CHECK_DEADLOCK FALSE
