-------------------------------- MODULE Windows --------------------------------
(***************************************************************************)
(* The desktop's window table: app/window-manager.ts, with the guest's       *)
(* stream.opened, stream.closed and window.* calls that reach it through      *)
(* vm.ts and hostcall.ts, and the person's taps.  Stacking is one number per  *)
(* window in a narrow band; when the counter would leave the band, every      *)
(* window is numbered again from the bottom.                                 *)
(***************************************************************************)
EXTENDS Integers, FiniteSets

CONSTANTS
  Webs,        \* ids of windows a guest app creates
  Ttys,        \* ids of windows of PTY streams
  Natives,     \* the page's own windows
  MaxWindows,  \* windows per desktop
  ZBase, ZCeil, \* the band
  MaxMove      \* bound: what happens

\* What the constants are taken to be.
WindowsAssumption ==
  /\ Webs \cap Ttys = {} /\ (Webs \cup Ttys) \cap Natives = {}
  /\ {MaxWindows, ZBase, ZCeil, MaxMove} \subseteq Nat /\ IsFiniteSet(Natives)
  /\ ZBase < ZCeil /\ ZBase + MaxWindows + Cardinality(Natives) <= ZCeil

VARIABLES
  z,       \* the table: the stacking number of each window there is
  zNext,   \* the next number
  moves,   \* bound: what happened so far
  above,   \* history: pairs of windows, the second raised over the first and not the first since
  heard    \* history: the window last announced by window.focused

windowsVars == <<z, zNext, moves, above, heard>>

Apps == Webs \cup Ttys
Table == DOMAIN z
Move == moves < MaxMove /\ moves' = moves + 1

WindowsInit ==
  /\ z = [n \in Natives |-> ZBase] /\ zNext = ZBase + 1 /\ moves = 0
  /\ above = {} /\ heard = "none"

----------------------------------------------------------------------------
\* Mutant: only the apps' windows are numbered again.
RenumberApps(t) ==
  [id \in DOMAIN t |->
    IF id \in Natives THEN t[id]
    ELSE ZBase + Cardinality({other \in DOMAIN t \ Natives : t[other] < t[id]})]

\* Every window numbered from the bottom, order preserved; of two with one
\* number the app's comes first.
Renumber(t) ==
  [id \in DOMAIN t |->
    ZBase + Cardinality({other \in DOMAIN t \ {id} :
      \/ t[other] < t[id]
      \/ t[other] = t[id] /\ id \in Natives /\ other \notin Natives})]

\* raise, on a table t whose next number is n; the focus is announced unless
\* the window had the last number given.
Raise(id, t, n) ==
  LET up == [t EXCEPT ![id] = n]
      full == n + 1 > ZCeil
  IN /\ z' = IF full THEN Renumber(up) ELSE up
     /\ zNext' = IF full THEN ZBase + Cardinality(DOMAIN t) ELSE n + 1
     /\ heard' = IF t[id] # n - 1 THEN id ELSE heard
     /\ above' = {pair \in above : pair[2] # id /\ pair[1] # id} \cup ((DOMAIN t \ {id}) \X {id})

\* A pointer down, or window.focus.
Tap(id) == Move /\ id \in Table /\ Raise(id, z, zNext)

\* place, for window.create and stream.opened: a window of that id is replaced
\* where it is, a new one is refused past the cap.
Place(id) ==
  /\ Move /\ id \in Apps
  /\ IF id \in Table THEN Raise(id, z, zNext)
     ELSE /\ Cardinality(Table \cap Apps) < MaxWindows
          /\ Raise(id, [i \in Table \cup {id} |-> IF i = id THEN zNext ELSE z[i]], zNext + 1)

Leave(ids) ==
  /\ z' = [i \in Table \ ids |-> z[i]]
  /\ above' = {pair \in above : pair[1] \notin ids /\ pair[2] \notin ids}
  /\ heard' = IF heard \in ids THEN "none" ELSE heard
  /\ UNCHANGED zNext

\* Closed by the person or by window.close.
CloseWindow(id) == Move /\ id \in Table \cap Apps /\ Leave({id})

\* stream.closed: the app is gone, the window leaves silently.
DropStream(id) == Move /\ id \in Table \cap Ttys /\ Leave({id})

\* A new session: the terminals are corpses.
DropAllStreams == Move /\ Table \cap Ttys # {} /\ Leave(Table \cap Ttys)

\* A page's own window leaves the table with its page and comes back at the bottom.
Unregister(id) == Move /\ id \in Table \cap Natives /\ Leave({id})

RegisterNative(id) ==
  /\ Move /\ id \in Natives \ Table
  /\ z' = [i \in Table \cup {id} |-> IF i = id THEN ZBase ELSE z[i]]
  /\ UNCHANGED <<zNext, above, heard>>

WindowsNext ==
  \/ DropAllStreams
  \/ \E id \in Apps \cup Natives :
       Tap(id) \/ Place(id) \/ CloseWindow(id) \/ DropStream(id) \/ Unregister(id) \/ RegisterNative(id)

WindowsSpec == WindowsInit /\ [][WindowsNext]_windowsVars

----------------------------------------------------------------------------
\* Windows lie as the person last raised them, each above every one that was
\* there when it was raised and was not raised since, and all of them inside the
\* band, however often the counter runs out and whatever closes in between.
StackTrue ==
  /\ \A pair \in above : z[pair[1]] < z[pair[2]]
  /\ \A id \in Table : z[id] \in ZBase .. ZCeil

\* "Hears every rise-to-top": whoever listens knows which window was raised last.
FocusHeard ==
  \A pair \in above : (\A other \in above : other[1] # pair[2]) => heard = pair[2]
=============================================================================
