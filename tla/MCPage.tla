------------------------------- MODULE MCPage -------------------------------
(* The desktop's parts, one of them at a time: the machine, its bar, sound  *)
(* and serial port, the commands run in it, the radio, the folder of the    *)
(* disk, the windows, /data/apps, packages on their way in, the network's   *)
(* panel, the console, the screen, and the bridge: rooms, a host's switch,  *)
(* its roster and chat, signalling.                                         *)
EXTENDS Apps, BridgeHost, BridgeRooms, BridgeSignal, Consoles, Gear, HostMount, Market, NetPanel, Radio, RunShell,
        Screen, VmLifecycle, Windows

CONSTANT Twice

VARIABLE part

\* Two of the peer ids are one machine's.
MCHome == [p \in Peers |-> CHOOSE s \in Stations \ Attached : p \in Twice <=> s \in Twice]

ASSUME PageAssumption ==
  /\ VmAssumption /\ RadioAssumption /\ HostMountAssumption /\ WindowsAssumption /\ AppsAssumption
  /\ RunShellAssumption /\ GearAssumption /\ MarketAssumption /\ NetPanelAssumption /\ ConsolesAssumption
  /\ ScreenAssumption /\ RoomsAssumption /\ SwitchAssumption /\ RosterAssumption

ofLife    == vmVars
ofOrigin  == radioVars
ofMount   == mountVars
ofDesktop == windowsVars
ofStore   == appsVars
ofShell   == shellVars
ofAround  == gearVars
ofShop    == marketVars
ofNet     == netVars
ofTty     == consolesVars
ofHead    == screenVars
ofRooms   == vars
ofSwitch  == switchVars
ofRoster  == rosterVars
ofSignal  == signalVars
ofBridge  == <<ofRooms, ofSwitch, ofRoster, ofSignal>>
ofPage    == <<ofLife, ofOrigin, ofMount, ofDesktop, ofStore, ofShell, ofAround, ofShop,
               ofNet, ofTty, ofHead>>
ofAll == <<part, ofPage, ofBridge>>

\* Without the signalling's run there is no channel that could be owed anything.
NoSignal ==
  /\ dial = "failed" /\ closed = TRUE /\ ws = [r \in Relays |-> "none"]
  /\ adopted = {} /\ sockets = {} /\ timers = {} /\ seen = {} /\ unsealing = {} /\ links = {}
  /\ posted = [e \in Offers |-> 0] /\ answers = [e \in Offers |-> 0]

\* One beginning of the parts that do not run; what leaves this runtime out
\* is published no more.
PageInit ==
  /\ part \in {"life", "origin", "mount", "desktop", "store", "shell", "around", "shop",
               "net", "tty", "head", "rooms", "switch", "roster", "signal"}
  /\ VmInit /\ RadioInit /\ MountInit /\ WindowsInit /\ AppsInit
  /\ ShellInit /\ GearInit /\ MarketInit /\ NetInit /\ ConsolesInit /\ ScreenInit
  /\ part = "life" \/ power = "none"
  /\ part = "mount" \/ \A p \in Files : disk[p].content = 0
  /\ part = "shop" \/ upVm
  /\ hub = [p \in Packages |-> IF p \in Foreign THEN MaxVersion ELSE 1]
  /\ part = "store" \/ (owns /\ rows.pkg = {})
  /\ part = "net" \/ (framed /\ stored = "host")
  /\ part = "tty" \/ place = "chat"
  /\ Init /\ SwitchInit /\ RosterInit
  /\ IF part = "signal" THEN SignalInit ELSE NoSignal

PageNext ==
  /\ UNCHANGED part
  /\ \/ part = "life" /\ VmNext
        /\ UNCHANGED <<ofOrigin, ofMount, ofDesktop, ofStore, ofShell, ofAround, ofShop, ofNet, ofTty, ofHead, ofBridge>>
     \/ part = "origin" /\ RadioNext
        /\ UNCHANGED <<ofLife, ofMount, ofDesktop, ofStore, ofShell, ofAround, ofShop, ofNet, ofTty, ofHead, ofBridge>>
     \/ part = "mount" /\ MountNext
        /\ UNCHANGED <<ofLife, ofOrigin, ofDesktop, ofStore, ofShell, ofAround, ofShop, ofNet, ofTty, ofHead, ofBridge>>
     \/ part = "desktop" /\ WindowsNext
        /\ UNCHANGED <<ofLife, ofOrigin, ofMount, ofStore, ofShell, ofAround, ofShop, ofNet, ofTty, ofHead, ofBridge>>
     \/ part = "store" /\ AppsNext
        /\ UNCHANGED <<ofLife, ofOrigin, ofMount, ofDesktop, ofShell, ofAround, ofShop, ofNet, ofTty, ofHead, ofBridge>>
     \/ part = "shell" /\ ShellNext
        /\ UNCHANGED <<ofLife, ofOrigin, ofMount, ofDesktop, ofStore, ofAround, ofShop, ofNet, ofTty, ofHead, ofBridge>>
     \/ part = "around" /\ GearNext
        /\ UNCHANGED <<ofLife, ofOrigin, ofMount, ofDesktop, ofStore, ofShell, ofShop, ofNet, ofTty, ofHead, ofBridge>>
     \/ part = "shop" /\ MarketNext
        /\ UNCHANGED <<ofLife, ofOrigin, ofMount, ofDesktop, ofStore, ofShell, ofAround, ofNet, ofTty, ofHead, ofBridge>>
     \/ part = "net" /\ NetNext
        /\ UNCHANGED <<ofLife, ofOrigin, ofMount, ofDesktop, ofStore, ofShell, ofAround, ofShop, ofTty, ofHead, ofBridge>>
     \/ part = "tty" /\ ConsolesNext
        /\ UNCHANGED <<ofLife, ofOrigin, ofMount, ofDesktop, ofStore, ofShell, ofAround, ofShop, ofNet, ofHead, ofBridge>>
     \/ part = "head" /\ ScreenNext
        /\ UNCHANGED <<ofLife, ofOrigin, ofMount, ofDesktop, ofStore, ofShell, ofAround, ofShop, ofNet, ofTty, ofBridge>>
     \/ part = "rooms" /\ Next /\ UNCHANGED <<ofPage, ofSwitch, ofRoster, ofSignal>>
     \/ part = "switch" /\ SwitchNext /\ UNCHANGED <<ofPage, ofRooms, ofRoster, ofSignal>>
     \/ part = "roster" /\ RosterNext /\ UNCHANGED <<ofPage, ofRooms, ofSwitch, ofSignal>>
     \/ part = "signal" /\ SignalNext /\ UNCHANGED <<ofPage, ofRooms, ofSwitch, ofRoster>>

PageSpec == PageInit /\ [][PageNext]_ofAll /\ VmFairness
=============================================================================
