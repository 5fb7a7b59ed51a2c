CONSTANTS
  Pages = {p1, p2}
  Private = {f}
  Shared = {}
  PageNames = {f}
  WriterPages = {p1, p2}
  MaxVersion = 2
  MaxDelete = 1
  MaxBoot = 3
  MaxOff = 1
  MaxDeath = 1
  MaxPause = 1
  MaxRace = 0
SPECIFICATION Spec
CHECK_DEADLOCK FALSE
INVARIANT WholeMeansReplayed
 
