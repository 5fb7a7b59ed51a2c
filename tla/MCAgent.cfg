CONSTANTS
  Views = {v1}
  MaxTurn = 2
  MaxFrame = 2
  MaxError = 1
  Messages = {1, 2, 3, 4, 5}
  MaxSteer = 2
  MaxFlip = 5
  Fails = FALSE
  ToolCalls = {c1, c2}
  Paths = {p1, p2}
  InData = {p1}
  MaxGuest = 1
  Scripts = {s1, s2, s3}
  MaxLine = 3
  MaxRun = 4
  Kids = {k1, k2}
  Dirs = {d1}
  Once = TRUE
  MaxAsk = 1
  MaxTurns = 1
  MaxClick = 1
  Calls = {f1}
  Cap = 2
  Inline = 1
  MaxBody = 3
  Asks = {q1, q2}
  WebApps = {wa}
  MaxWeb = 1
  MaxAsked = 2
SPECIFICATION AgentSpec
CHECK_DEADLOCK FALSE
INVARIANTS StreamExact EachOnce LastEventWins TransferExact EveryLineHeard ConsentTrue CallsHonest
PROPERTY CallsSettle
