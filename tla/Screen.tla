------------------------------- MODULE Screen -------------------------------
(***************************************************************************)
(* The machine's VGA screen on the page (vga-window.tsx and the pages that  *)
(* show it): the window that opens when the guest sets a mode of its own,   *)
(* and the pointer and keys the panel sends to the emulated PS/2 port.  The *)
(* pointer is modelled along one axis, in pixels of the page.               *)
(***************************************************************************)
EXTENDS Integers

CONSTANTS
  Base,       \* the mode boot leaves behind
  Games,      \* modes programs of the guest set
  Width,      \* the guest's pixels
  Scale,      \* pixels of the page for one of them
  GameKeys,   \* VGA_KEYS
  MaxScreen,  \* bound: boots
  MaxHand     \* bound: what the person and the guest do

\* What the constants are taken to be.
ScreenAssumption ==
  /\ Base \notin Games /\ {Width, Scale} \subseteq Nat \ {0} /\ {MaxScreen, MaxHand} \subseteq Nat /\ "button" \notin GameKeys
  /\ (Games \cup {Base}) \cap {"none", "null", "unwatched"} = {}  \* a mode is none of the words

VARIABLES
  head,                \* "off", "booting", "ready"
  mode,                \* the canvas's; "none" before there is one
  lastMode,            \* the mode the observer reported; "unwatched" before it watches
  baseline,            \* modeBaseline; "null" before it is known
  fit,                 \* screenFit; "null" for none
  open,                \* screenOpen
  popped,              \* history: the mode the window last opened for by itself
  hand,                \* the pointer over the panel, -1 when it is elsewhere
  chase,               \* the move that follows an enter is still to come
  anchored,            \* where the panel anchored last; -1 for nowhere
  frac,                \* travel not sent yet
  cursor,              \* the guest's
  apart,               \* history: the two have been moved apart since they were put together
  missed,              \* history: a press whose cursor was not under the pointer
  down, held,          \* button and keys, of the hand
  grabbed,              \* the panel has captured the pointer
  guestDown, guestKeys, \* and as the guest has them
  focus,
  unheard,                \* history: what was held when the panel went, or its focus, and has not been heard of since
  headBoots, headActs  \* bounds

screenVars == <<head, mode, lastMode, baseline, fit, open, popped, hand, chase, anchored, frac, cursor, apart, missed,
                down, held, grabbed, guestDown, guestKeys, focus, unheard, headBoots, headActs>>
window  == <<lastMode, baseline, fit, open, popped>>
pointer == <<hand, chase, anchored, frac, cursor, apart, missed, down, grabbed, guestDown>>
keys    == <<held, guestKeys, focus, unheard>>

Points == 0 .. Width * Scale - 1

ScreenInit ==
  /\ head = "off" /\ mode = "none"
  /\ lastMode = "unwatched" /\ baseline = "null" /\ fit = "null" /\ open = FALSE /\ popped = "null"
  /\ hand = -1 /\ chase = FALSE /\ anchored = -1 /\ frac = 0 /\ cursor = 0 /\ apart = FALSE /\ missed = FALSE
  /\ down = FALSE /\ grabbed = FALSE /\ guestDown = FALSE /\ held = {} /\ guestKeys = {} /\ focus = FALSE /\ unheard = {}
  /\ headBoots = 0 /\ headActs = 0

HandActs == headActs < MaxHand /\ headActs' = headActs + 1

----------------------------------------------------------------------------
(* The mode and the window.                                                *)

\* onScreenModeChange's report: the first mode is the baseline; another opens
\* the window, sized to it; the baseline never does.
Report(m, base, seen) ==
  /\ lastMode' = m
  /\ IF m = "none" \/ m = seen THEN UNCHANGED <<baseline, fit, open, popped>>
     ELSE /\ baseline' = IF base = "null" THEN m ELSE base
          /\ IF base = "null" THEN UNCHANGED <<fit, open, popped>>
             ELSE IF m = base THEN fit' = "null" /\ UNCHANGED <<open, popped>>
             ELSE fit' = m /\ open' = TRUE /\ popped' = m

\* The canvas changes its size: reported once somebody watches.
SetMode(m) ==
  /\ mode' = m
  /\ IF lastMode = "unwatched" THEN UNCHANGED window ELSE Report(m, baseline, lastMode)

\* A machine is made: its port knows of nothing held.
BootScreen ==
  /\ head = "off" /\ headBoots < MaxScreen /\ headBoots' = headBoots + 1 /\ head' = "booting"
  /\ cursor' = 0 /\ guestDown' = FALSE /\ guestKeys' = {} /\ unheard' = {} /\ apart' = TRUE
  /\ UNCHANGED <<mode, window, hand, chase, anchored, frac, missed, down, held, grabbed, focus, headActs>>

\* fbcon's mode; until then the canvas is as the last machine left it.
BootMode ==
  /\ head = "booting" /\ mode # Base /\ SetMode(Base)
  /\ UNCHANGED <<head, pointer, keys, headBoots, headActs>>

\* Ready: the first one watches, and hears what there is at once.
ScreenReady ==
  /\ head = "booting" /\ mode = Base /\ head' = "ready"
  /\ IF lastMode = "unwatched" THEN Report(mode, "null", "unwatched") ELSE UNCHANGED window
  /\ UNCHANGED <<mode, pointer, keys, headBoots, headActs>>

\* A program sets its own mode, or quits and gives the console's back.
GuestMode(m) ==
  /\ HandActs /\ head = "ready" /\ m # mode /\ SetMode(m)
  /\ UNCHANGED <<head, pointer, keys, headBoots>>

\* What leaves with the panel: the focus, and the pointer over it.  Nobody
\* lets go in the guest of what is held.
Unmount ==
  /\ hand' = -1 /\ chase' = FALSE /\ anchored' = -1 /\ frac' = 0 /\ focus' = FALSE /\ grabbed' = FALSE /\ apart' = TRUE
  /\ unheard' = unheard \cup held \cup (IF down THEN {"button"} ELSE {})

Window(shown) ==
  /\ open' = shown
  /\ IF open /\ ~shown THEN Unmount ELSE UNCHANGED <<hand, chase, anchored, frac, focus, grabbed, apart, unheard>>
  /\ UNCHANGED <<head, mode, lastMode, baseline, fit, popped, cursor, missed, down, held, guestDown, guestKeys, headBoots>>

\* The chip or the cross.
Toggle == HandActs /\ Window(~open)

\* The guest's window.focus and window.close.
GuestWindow(shown) == HandActs /\ head = "ready" /\ Window(shown)

ScreenOff ==
  /\ HandActs /\ head = "ready" /\ head' = "off"
  /\ UNCHANGED <<mode, window, pointer, keys, headBoots>>

----------------------------------------------------------------------------
(* The pointer.                                                            *)

Clamp(n) == IF n < 0 THEN 0 ELSE IF n >= Width THEN Width - 1 ELSE n
Round(x) == (2 * x + Scale) \div (2 * Scale)
Trunc(n) == IF n >= 0 THEN n \div Scale ELSE -((-n) \div Scale)

\* anchor: all the way to the corner, where the guest stops, then out again;
\* the move that chases the enter is marked.
Anchor(x) == cursor' = Clamp(Round(x)) /\ frac' = 0 /\ anchored' = x

\* pointerMove by m: what does not make a whole pixel of the guest waits.
Travel(m) ==
  LET n == Trunc(frac + m) IN frac' = frac + m - n * Scale /\ cursor' = Clamp(cursor + n)

Enter(x) ==
  /\ HandActs /\ open /\ head = "ready" /\ hand = -1 /\ hand' = x /\ chase' = TRUE /\ Anchor(x) /\ apart' = FALSE
  /\ UNCHANGED <<head, mode, window, missed, down, grabbed, guestDown, keys, headBoots>>

\* Mutant: the move after an enter counts.
NoSkip == FALSE

\* A move at the place of the anchor is dropped.
Skips == anchored = hand

\* The browser's move at the place of the enter: its travel is from wherever
\* the pointer was.
Chased(m) ==
  /\ chase /\ chase' = FALSE /\ anchored' = -1
  /\ IF Skips THEN UNCHANGED <<cursor, frac>> ELSE Travel(m)
  /\ UNCHANGED <<head, mode, window, hand, apart, missed, down, grabbed, guestDown, keys, headBoots, headActs>>

\* A captured pointer may wander off the panel, until the button is let go;
\* there the guest's stops at its edge, and they part.
MoveHand(x) ==
  /\ HandActs /\ hand # -1 /\ ~chase /\ x # hand /\ (x \in Points \/ grabbed) /\ hand' = x /\ anchored' = -1
  /\ Travel(x - hand) /\ apart' = (apart \/ x \notin Points)
  /\ UNCHANGED <<head, mode, window, chase, missed, down, grabbed, guestDown, keys, headBoots>>

\* pointerdown anchors once more; the panel takes the focus.
Press ==
  /\ HandActs /\ hand \in Points /\ ~chase /\ ~down /\ head = "ready"
  /\ down' = TRUE /\ grabbed' = TRUE /\ guestDown' = TRUE /\ focus' = TRUE /\ unheard' = unheard \ {"button"}
  /\ Anchor(hand) /\ apart' = FALSE
  /\ missed' = (missed \/ cursor' * Scale - hand \notin -(Scale - 1) .. Scale \div 2)
  /\ UNCHANGED <<head, mode, window, hand, chase, held, guestKeys, headBoots>>

\* Heard by the panel the pointer is over, or that has captured it.
Release ==
  /\ down /\ down' = FALSE /\ grabbed' = FALSE /\ guestDown' = (guestDown /\ hand = -1)
  /\ unheard' = IF hand = -1 THEN unheard ELSE unheard \ {"button"}
  /\ hand' = IF hand \in Points THEN hand ELSE -1
  /\ UNCHANGED <<head, mode, window, chase, anchored, frac, cursor, apart, missed, held, guestKeys, focus>>
  /\ UNCHANGED <<headBoots, headActs>>

LeavePanel ==
  /\ hand # -1 /\ ~grabbed /\ ~chase /\ hand' = -1
  /\ UNCHANGED <<head, mode, window, chase, anchored, frac, cursor, apart, missed, down, grabbed, guestDown, keys>>
  /\ UNCHANGED <<headBoots, headActs>>

\* A program of the guest starts over: its cursor is in the corner.
Restart ==
  /\ HandActs /\ head = "ready" /\ cursor' = 0 /\ apart' = TRUE
  /\ UNCHANGED <<head, mode, window, hand, chase, anchored, frac, missed, down, grabbed, guestDown, keys, headBoots>>

----------------------------------------------------------------------------
(* The keys.                                                               *)

\* A key goes down, and up; the panel hears it while it has the focus.
KeyDown(k) ==
  /\ HandActs /\ focus /\ k \notin held /\ held' = held \cup {k}
  /\ guestKeys' = IF head = "ready" THEN guestKeys \cup {k} ELSE guestKeys
  /\ unheard' = unheard \ {k}
  /\ UNCHANGED <<head, mode, window, pointer, focus, headBoots>>
KeyUp(k) ==
  /\ k \in held /\ held' = held \ {k}
  /\ IF focus THEN guestKeys' = guestKeys \ {k} /\ unheard' = unheard \ {k} ELSE UNCHANGED <<guestKeys, unheard>>
  /\ UNCHANGED <<head, mode, window, pointer, focus, headBoots, headActs>>
Blur ==
  /\ HandActs /\ focus /\ focus' = FALSE /\ unheard' = unheard \cup held
  /\ UNCHANGED <<head, mode, window, pointer, held, guestKeys, headBoots>>

----------------------------------------------------------------------------
ScreenNext ==
  \/ BootScreen \/ BootMode \/ ScreenReady \/ Toggle \/ ScreenOff \/ Press \/ Release \/ LeavePanel \/ Restart \/ Blur
  \/ \E m \in Games \cup {Base} : GuestMode(m)
  \/ \E shown \in BOOLEAN : GuestWindow(shown)
  \/ \E x \in Points : Enter(x)
  \/ \E m \in {-2 * Scale, 2 * Scale} : Chased(m)
  \/ \E x \in {-2} \cup Points \cup {Width * Scale} : MoveHand(x)
  \/ \E k \in GameKeys : KeyDown(k) \/ KeyUp(k)

ScreenSpec == ScreenInit /\ [][ScreenNext]_screenVars

----------------------------------------------------------------------------
\* Through boots, programs that come and go and a pointer that leaves: the
\* window opens by itself for a program's mode alone, and is sized to the mode
\* there is; a click lands where the person points, and between clicks the
\* guest's cursor is never two of its pixels away from the pointer.  What is held
\* down in the guest is held by the hand, unless the panel or its focus went
\* while it was held; the next press of it that the panel hears puts that right,
\* and so does a boot.
ScreenTrue ==
  /\ popped # Base
  /\ (head = "ready" => fit = IF mode = Base THEN "null" ELSE mode)
  /\ ~missed
  /\ (~chase /\ hand \in Points /\ ~apart => cursor * Scale - hand \in -2 * (Scale - 1) .. Scale \div 2 + Scale - 1)
  /\ (guestDown /\ "button" \notin unheard => down /\ hand # -1)
  /\ guestKeys \subseteq unheard \cup (IF focus THEN held ELSE {})
=============================================================================
