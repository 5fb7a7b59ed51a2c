CONSTANTS
  Apps = {daemon, tool}
  Commands = {tool}
  MAX_SERVICES = 1
  CRASH_MAX = 1
  MaxRun = 3
  MaxAsk = 1
  MaxRespawn = 1
  MAX_CAP = 12
  HIGH = 4
  FRAME = 2
  KernelRoom = 3
  Calls = {build, test, shell, pane}
  Shells = {shell, pane}
  MAX_PTYS = 1
  INLINE_MAX = 0
  OUT_HARD_CAP = 1
  Early = TRUE
  MaxSay = 1
  MAX_JOBS = 2
  MaxLoss = 1
SPECIFICATION DaemonSpec
PROPERTIES CancelEnds
CHECK_DEADLOCK FALSE
