------------------------------ MODULE NetPanel ------------------------------
(***************************************************************************)
(* The network of the machines as the person sets it (net-panel.tsx): the   *)
(* stored mode, the panes of the terminal shell that share it, the settings *)
(* panel with its probe of a relay, and the bridge panel.  A machine is     *)
(* wired when its page loads, so a mode takes effect through a reload.      *)
(***************************************************************************)
EXTENDS Integers, FiniteSets

CONSTANTS
  Panes,             \* the shell's, or the one page of the chat
  First,             \* the pane that is there from the beginning
  WsUrls, WispUrls,  \* addresses of either kind of relay
  WsDefault, WispDefault, \* what the boxes start with
  Mixed, Local,      \* those a https page may not open; those of the local network
  BridgeUi,          \* the bridge is shown
  Legacy,            \* the mode "fetch" may be stored
  Query,             \* ?relay= of the document's address; "none"
  MaxAct             \* bound: what the person does

\* What the constants are taken to be.
NetPanelAssumption ==
  /\ First \in Panes /\ WsDefault \in WsUrls /\ WispDefault \in WispUrls /\ WsUrls \cap WispUrls = {}
  /\ (WsUrls \cup WispUrls) \cap {"host", "bridge", "inbrowser", "typo"} = {}  \* an address is none of the words
  /\ Mixed \cup Local \subseteq WsUrls \cup WispUrls /\ MaxAct \in Nat /\ {BridgeUi, Legacy} \subseteq BOOLEAN

VARIABLES
  framed,    \* in the terminal's shell
  stored,    \* localStorage
  wanted,    \* history: the mode last saved
  pane,      \* each page: "closed", "loading", "up"
  backend,   \* the networkRelay its machine was made with
  panel,     \* its panel
  probes,    \* the probes it waits for
  room,      \* its bridge
  health,    \* of its relay, as its chip shows it
  naming,    \* calls of the bridge panel that still ask the guest its name
  restarts,  \* relay-changed messages on their way to the shell
  prompt,    \* the "go online?" bar
  clicks     \* bound

netVars == <<framed, stored, wanted, pane, backend, panel, probes, room, health, naming, restarts, prompt, clicks>>
netModes == <<stored, wanted, restarts>>
pages == <<framed, pane, backend, prompt>>
bridge == <<room, naming, health>>

Addresses == WsUrls \cup WispUrls
Tokens == {"host", "bridge"} \cup Addresses \cup (IF Legacy THEN {"fetch"} ELSE {})
Backend(token) == IF token \in {"host", "bridge"} THEN "inbrowser" ELSE token

IsRelay(choice) == choice \in {"wsproxy", "wisp"}

\* initialChoice
InitialChoice(token) ==
  IF token \in WispUrls THEN "wisp" ELSE IF token \in WsUrls THEN "wsproxy"
  ELSE IF token = "bridge" /\ BridgeUi THEN "bridge" ELSE "host"

NoProbe == [kind |-> "none", status |-> "none", of |-> "none"]
Closed == [view |-> "none", choice |-> "host", leg |-> FALSE, wsproxy |-> WsDefault, wisp |-> WispDefault,
           seq |-> 0, probe |-> NoProbe, sig |-> "room", form |-> "idle"]

\* Panel: each box starts with the stored address of its kind.
Settings ==
  [Closed EXCEPT !.view = "settings", !.choice = InitialChoice(stored), !.leg = IsRelay(InitialChoice(stored)),
                 !.wsproxy = IF stored \in WsUrls THEN stored ELSE @, !.wisp = IF stored \in WispUrls THEN stored ELSE @]

NetInit ==
  /\ framed \in BOOLEAN
  /\ stored \in Tokens /\ wanted = stored
  /\ pane = [p \in Panes |-> IF p = First THEN "loading" ELSE "closed"]
  /\ backend = [p \in Panes |-> "none"]
  /\ panel = [p \in Panes |-> Closed] /\ probes = [p \in Panes |-> {}]
  /\ room = [p \in Panes |-> "none"] /\ naming = [p \in Panes |-> {}]
  /\ health = [p \in Panes |-> "null"]
  /\ restarts = 0 /\ prompt = (framed /\ stored = "host") /\ clicks = 0

Act == clicks < MaxAct /\ clicks' = clicks + 1

----------------------------------------------------------------------------
(* Pages.                                                                  *)

\* A document that goes takes its panel, its probes and its bridge with it.
Gone(set) ==
  /\ panel' = [p \in Panes |-> IF p \in set THEN Closed ELSE panel[p]]
  /\ probes' = [p \in Panes |-> IF p \in set THEN {} ELSE probes[p]]
  /\ room' = [p \in Panes |-> IF p \in set THEN "none" ELSE room[p]]
  /\ naming' = [p \in Panes |-> IF p \in set THEN {} ELSE naming[p]]
  /\ health' = [p \in Panes |-> IF p \in set THEN "null" ELSE health[p]]

\* Every document of a set loads once more.
Reload(set) ==
  /\ pane' = [p \in Panes |-> IF p \in set /\ pane[p] # "closed" THEN "loading" ELSE pane[p]]
  /\ Gone(set)

\* resolveRelay: the address of the document goes before what is stored, and
\* is stored.
Loaded(p) ==
  /\ pane[p] = "loading" /\ pane' = [pane EXCEPT ![p] = "up"]
  /\ stored' = IF Query # "none" THEN Query ELSE stored
  /\ backend' = [backend EXCEPT ![p] = Backend(stored')]
  /\ UNCHANGED <<framed, wanted, panel, probes, bridge, restarts, prompt, clicks>>

\* The shell's split button, and the cross of a frame: one stays.
Split(p) ==
  /\ Act /\ framed /\ pane[p] = "closed" /\ pane' = [pane EXCEPT ![p] = "loading"]
  /\ UNCHANGED <<framed, netModes, backend, panel, probes, bridge, prompt>>
ClosePane(p) ==
  /\ Act /\ framed /\ pane[p] # "closed" /\ (\E q \in Panes \ {p} : pane[q] # "closed")
  /\ pane' = [pane EXCEPT ![p] = "closed"] /\ Gone({p})
  /\ UNCHANGED <<framed, netModes, backend, prompt>>

\* The shell hears relay-changed: every pane starts over.
RelayChanged ==
  /\ restarts > 0 /\ restarts' = restarts - 1 /\ Reload(Panes)
  /\ UNCHANGED <<framed, stored, wanted, backend, prompt, clicks>>

\* NetPrompt: "Go online" stores the public relay and reloads the shell ...
PromptGo ==
  /\ Act /\ prompt /\ prompt' = FALSE /\ stored' = WsDefault /\ wanted' = WsDefault /\ Reload(Panes) /\ restarts' = 0
  /\ UNCHANGED <<framed, backend>>
\* ... "Stay" retires it.
PromptStay ==
  /\ Act /\ prompt /\ prompt' = FALSE
  /\ UNCHANGED <<framed, netModes, pane, backend, panel, probes, bridge>>

----------------------------------------------------------------------------
(* The settings.                                                           *)

\* Every click of a panel renders it again: `leg`, whether the stored mode is a
\* relay, is as of that.
Rendered(p, new) == panel' = [panel EXCEPT ![p] = [new EXCEPT !.leg = IsRelay(InitialChoice(stored))]]
In(p, view) == pane[p] = "up" /\ panel[p].view = view

BridgeLive(p) == room[p] \notin {"none", "over"}

\* openPanel: a live bridge makes it the bridge's.
OpenPanel(p) ==
  /\ Act /\ In(p, "none")
  /\ panel' = [panel EXCEPT ![p] = IF BridgeUi /\ BridgeLive(p) THEN [Closed EXCEPT !.view = "bridge"] ELSE Settings]
  /\ UNCHANGED <<pages, netModes, probes, bridge>>

\* Cancel, Close or the backdrop: a probe that answers later finds nobody.
ClosePanel(p) ==
  /\ Act /\ pane[p] = "up" /\ panel[p].view # "none"
  /\ panel' = [panel EXCEPT ![p] = Closed] /\ probes' = [probes EXCEPT ![p] = {}]
  /\ UNCHANGED <<pages, netModes, bridge>>

Choose(p, choice) ==
  /\ Act /\ In(p, "settings") /\ choice # panel[p].choice /\ (choice = "bridge" => BridgeUi)
  /\ Rendered(p, [panel[p] EXCEPT !.choice = choice])
  /\ UNCHANGED <<pages, netModes, probes, bridge>>

\* Mutant: the verdict goes, and the probe that is out keeps its number.
ResetVerdict(new) == [new EXCEPT !.probe = NoProbe]

\* resetProbe
ResetProbe(new) == [new EXCEPT !.seq = @ + 1, !.probe = NoProbe]

\* What is typed in a box; "typo" is no address.
EditBox(p, text) ==
  /\ Act /\ In(p, "settings") /\ IsRelay(panel[p].choice)
  /\ LET kind == panel[p].choice IN
     /\ text \in (IF kind = "wisp" THEN WispUrls ELSE WsUrls) \cup {"typo"} /\ text # panel[p][kind]
     /\ Rendered(p, ResetProbe([panel[p] EXCEPT ![kind] = text]))
  /\ UNCHANGED <<pages, netModes, probes, bridge>>

\* runProbe; the buttons are off while a verdict is awaited.
RunProbe(p) ==
  /\ Act /\ In(p, "settings") /\ IsRelay(panel[p].choice) /\ panel[p].probe.status # "testing"
  /\ LET kind == panel[p].choice  url == panel[p][kind] IN
     /\ url # "typo"
     /\ Rendered(p, [panel[p] EXCEPT !.seq = @ + 1, !.probe =
          [kind |-> kind, of |-> url, status |-> IF url \in Mixed THEN "mixed" ELSE "testing"]])
     /\ probes' = IF url \in Mixed THEN probes
                  ELSE [probes EXCEPT ![p] = @ \cup {[seq |-> panel[p].seq + 1, kind |-> kind, url |-> url,
                                                      at |-> IF url \in Local THEN "gate" ELSE "socket"]}]
  /\ UNCHANGED <<pages, netModes, bridge>>

\* localNetworkVerdict has nothing against it.
GateOpen(p, q) ==
  /\ q \in probes[p] /\ q.at = "gate"
  /\ probes' = [probes EXCEPT ![p] = (@ \ {q}) \cup {[q EXCEPT !.at = "socket"]}]
  /\ UNCHANGED <<pages, netModes, panel, bridge, clicks>>

Verdicts == [gate |-> {"policy", "denied", "insecure"}, socket |-> {"ok", "failed", "timeout"}]

\* The browser says no, or the socket opens, fails or takes five seconds:
\* the first settles it.
ProbeSettles(p, q, status) ==
  /\ q \in probes[p] /\ status \in Verdicts[q.at]
  /\ probes' = [probes EXCEPT ![p] = @ \ {q}]
  /\ panel' = IF q.seq # panel[p].seq THEN panel
              ELSE [panel EXCEPT ![p].probe = [kind |-> q.kind, status |-> status, of |-> q.url]]
  /\ UNCHANGED <<pages, netModes, bridge, clicks>>

\* needsReload
NeedsReload(p) == IsRelay(panel[p].choice) \/ panel[p].leg

Save(p) ==
  /\ Act /\ In(p, "settings")
  /\ LET choice == panel[p].choice
         token  == IF IsRelay(choice) THEN panel[p][choice] ELSE choice IN
     /\ token # "typo" /\ stored' = token /\ wanted' = token
     /\ IF ~NeedsReload(p)
        THEN /\ panel' = [panel EXCEPT ![p] = Closed] /\ probes' = [probes EXCEPT ![p] = {}]
             /\ UNCHANGED <<pane, bridge, restarts>>
        ELSE IF framed THEN restarts' = restarts + 1 /\ UNCHANGED <<pane, panel, probes, bridge>>
        ELSE Reload({p}) /\ UNCHANGED restarts
  /\ UNCHANGED <<framed, backend, prompt>>

----------------------------------------------------------------------------
(* The bridge panel.                                                       *)

\* The bridge extends the hub in the browser, which other machines are not on.
HubBacked(p) == backend[p] = "inbrowser"

Manage(p) ==
  /\ Act /\ In(p, "settings") /\ panel[p].choice = "bridge"
  /\ panel' = [panel EXCEPT ![p] = [Closed EXCEPT !.view = "bridge"]] /\ probes' = [probes EXCEPT ![p] = {}]
  /\ UNCHANGED <<pages, netModes, bridge>>

\* The two cards, the form of each, and Back.
Card(p, sig, form) ==
  /\ Act /\ In(p, "bridge") /\ HubBacked(p) /\ room[p] = "none"
  /\ [panel[p] EXCEPT !.sig = sig, !.form = form] # panel[p]
  /\ form = "idle" \/ (panel[p].sig = sig /\ form = (IF sig = "room" THEN "joining" ELSE "manual-join"))
  /\ panel' = [panel EXCEPT ![p].sig = sig, ![p].form = form]
  /\ UNCHANGED <<pages, netModes, probes, bridge>>

Button(p) ==
  IF panel[p].sig = "room" THEN IF panel[p].form = "joining" THEN "join" ELSE "host"
  ELSE IF panel[p].form = "manual-join" THEN "answer" ELSE "invite"

\* guard: a button asks the guest who it is (guestIdentity) ...
PressButton(p) ==
  /\ Act /\ In(p, "bridge") /\ HubBacked(p) /\ room[p] = "none" /\ Button(p) \notin naming[p]
  /\ naming' = [naming EXCEPT ![p] = @ \cup {Button(p)}]
  /\ panel' = [panel EXCEPT ![p].form = IF Button(p) = "join" THEN "idle" ELSE @]
  /\ UNCHANGED <<pages, netModes, probes, room, health>>

\* ... then opens the room; a page that has one is told to stop it first.
Identified(p, what) ==
  /\ what \in naming[p] /\ naming' = [naming EXCEPT ![p] = @ \ {what}]
  /\ IF BridgeLive(p) THEN UNCHANGED <<room, panel>>
     ELSE /\ room' = [room EXCEPT ![p] = CASE what = "invite" -> "inviting" [] what = "answer" -> "answering"
                                           [] OTHER -> "signalling"]
          /\ panel' = [panel EXCEPT ![p].form = IF what = "answer" THEN "idle" ELSE @]
  /\ UNCHANGED <<pages, netModes, probes, health, clicks>>

\* The answer to an invite, pasted.
PasteAnswer(p) ==
  /\ Act /\ In(p, "bridge") /\ room[p] = "inviting" /\ room' = [room EXCEPT ![p] = "on"]
  /\ UNCHANGED <<pages, netModes, panel, probes, naming, health>>

\* The room connects, or fails or closes.
RoomMoves(p) ==
  /\ room[p] \in {"signalling", "answering"} /\ room' = [room EXCEPT ![p] = "on"]
  /\ UNCHANGED <<pages, netModes, panel, probes, naming, health, clicks>>
RoomEnds(p) ==
  /\ BridgeLive(p) /\ room' = [room EXCEPT ![p] = "over"]
  /\ UNCHANGED <<pages, netModes, panel, probes, naming, health, clicks>>

\* Cancel, Disconnect or Reset.
Reset(p) ==
  /\ Act /\ In(p, "bridge") /\ room[p] # "none"
  /\ room' = [room EXCEPT ![p] = "none"] /\ panel' = [panel EXCEPT ![p].form = "idle"]
  /\ UNCHANGED <<pages, netModes, probes, naming, health>>
\* BridgeStillUp: the settings' own Disconnect, under any other mode.
StopBridge(p) ==
  /\ Act /\ In(p, "settings") /\ panel[p].choice # "bridge" /\ BridgeLive(p) /\ room' = [room EXCEPT ![p] = "none"]
  /\ UNCHANGED <<pages, netModes, panel, probes, naming, health>>

----------------------------------------------------------------------------
(* The chip.                                                               *)

\* relayHealth: what the machine knows of the socket v86 retries by itself.
RelayHealth(p, socket) ==
  IF backend[p] \notin Addresses THEN "null" ELSE socket

\* Every three seconds, while the stored mode is a relay.
ReadHealth(p, socket) ==
  /\ pane[p] = "up"
  /\ health' = [health EXCEPT ![p] = IF stored \notin Addresses THEN "null"
                                     ELSE IF RelayHealth(p, socket) = "null" THEN "connecting" ELSE RelayHealth(p, socket)]
  /\ UNCHANGED <<pages, netModes, panel, probes, room, naming, clicks>>

----------------------------------------------------------------------------
NetNext ==
  \/ RelayChanged \/ PromptGo \/ PromptStay
  \/ \E p \in Panes :
       \/ Loaded(p) \/ Split(p) \/ ClosePane(p) \/ OpenPanel(p) \/ ClosePanel(p) \/ RunProbe(p) \/ Save(p)
       \/ Manage(p) \/ PressButton(p) \/ PasteAnswer(p) \/ RoomMoves(p) \/ RoomEnds(p) \/ Reset(p) \/ StopBridge(p)
       \/ \E choice \in {"wsproxy", "wisp", "host", "bridge"} : Choose(p, choice)
       \/ \E text \in WsUrls \cup WispUrls \cup {"typo"} : EditBox(p, text)
       \/ \E q \in probes[p] : GateOpen(p, q) \/ \E status \in Verdicts[q.at] : ProbeSettles(p, q, status)
       \/ \E sig \in {"room", "manual"}, form \in {"idle", "joining", "manual-join"} : Card(p, sig, form)
       \/ \E socket \in {"ok", "connecting", "down"} : ReadHealth(p, socket)
       \/ \E what \in {"host", "join", "invite", "answer"} : Identified(p, what)

NetSpec == NetInit /\ [][NetNext]_netVars

----------------------------------------------------------------------------
\* Through panes that come and go, late probes and restarts: the verdict shown
\* is of the address that now stands in its box, and a verdict that is awaited
\* will come; every machine runs the mode last saved, or is about to start
\* over; a bridge the panel opened has a machine that is on it, and a chip that
\* speaks of a relay has a machine wired to one.
NetTrue ==
  \A p \in Panes :
    /\ LET shown == panel[p].probe IN
       /\ (shown.kind # "none" => panel[p][shown.kind] = shown.of)
       /\ (shown.status = "testing" => \E q \in probes[p] : q.seq = panel[p].seq)
    /\ (pane[p] = "up" => backend[p] = Backend(wanted) \/ restarts > 0)
    /\ (BridgeLive(p) => backend[p] = "inbrowser")
    /\ (health[p] \in {"ok", "down"} => backend[p] \in Addresses)
=============================================================================
