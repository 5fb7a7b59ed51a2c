CONSTANTS
  Pages = {p1, p2}
  Private = {}
  Shared = {s}
  PageNames = {s}
  WriterPages = {p1}
  MaxVersion = 2
  MaxDelete = 1
  MaxBoot = 2
  MaxOff = 0
  MaxDeath = 0
  MaxPause = 0
  MaxRace = 1
SPECIFICATION Spec
CHECK_DEADLOCK FALSE
PROPERTY SharedConverges
