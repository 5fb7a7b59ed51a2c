CONSTANTS
  Needs = {n1, n2}
  MaxBoot = 2
  Docs = {d1, d2}
  MaxCall = 6
  Files = {f1, f2}
  MaxEdit = 2
  Webs = {w1, w2}
  Ttys = {t1}
  Natives = {screen}
  MaxWindows = 3
  ZBase = 20
  ZCeil = 29
  MaxMove = 10
  Ids = {x, y}
  Bundled = {y}
  MaxChange = 3
  Runs = {r1, r2}
  Writers = {wr1, wr2}
  MaxPower = 2
  Images = 2
  Grain = 2
  Lines = 2
  Levels = {0, 1}
  Ports = {p1, p2}
  MaxMachine = 2
  MaxTouch = 4
  Requests = {rq1, rq2}
  Packages = {k1, k2}
  Digested = {k1}
  Foreign = {k2}
  MaxVersion = 2
  MaxRequest = 2
  Panes = {pane1, pane2}
  First = pane1
  WsUrls = {u1, u2}
  WispUrls = {v1}
  WsDefault = u1
  WispDefault = v1
  Mixed = {u2}
  Local = {v1}
  BridgeUi = TRUE
  Legacy = FALSE
  Query = "none"
  MaxAct = 4
  MaxConsole = 3
  MaxGesture = 4
  Cols = {1, 2}
  MaxScreen = 2
  MaxHand = 7
  Base = fbcon
  Games = {nes}
  Width = 3
  Scale = 2
  GameKeys = {j}
  Pages = {p1, p2}
  MaxRoom = 2
  Stations = {a, b, h}
  Attached = {h}
  Peers = {a, b, a2}
  Twice = {a, a2}
  Home <- MCHome
  MaxFrame = 2
  Members = {m1, m2}
  Keeper = host
  MaxJoin = 2
  MaxChat = 1
  Relays = {rel1, rel2, rel3}
  Offers = {e1, e2}
SPECIFICATION PageSpec
CHECK_DEADLOCK FALSE
INVARIANTS MachineTrue RadioTrue MountTrue StackTrue  RunsSwept GearTrue InstalledAsNamed NetTrue ConsolesTrue ScreenTrue BridgeTrue HeardOnce RostersAgree SignalTrue
PROPERTY StaysAsLeft
