------------------------------ MODULE Consoles ------------------------------
(***************************************************************************)
(* The console of a page: the veil over it while the machine boots, with    *)
(* its waiting game; and the size the guest's tty is told.  The terminal    *)
(* page (terminal.tsx) and the chat page's panel (vm-console.tsx) share      *)
(* most of it.                                                             *)
(***************************************************************************)
EXTENDS Integers, Sequences

CONSTANTS
  Cols,        \* widths a terminal can have
  MaxConsole,  \* bound: boots
  MaxGesture   \* bound: what the person does, and the sttys that fail

\* What the constants are taken to be.
ConsolesAssumption ==
  /\ Cols \subseteq Nat \ {0} /\ (\E c \in Cols : \A o \in Cols : o <= c)
  /\ {MaxConsole, MaxGesture} \subseteq Nat

VARIABLES
  place,                \* "terminal" or "chat"
  con,                  \* the machine: "off", "booting", "ready", "failed"
  progress,             \* bootProgress: what was reported last
  reported,             \* something of this boot was
  printing,             \* history: this boot's kernel prints
  stalled,              \* the veil dropped early
  early,                \* history: it did before this boot reported anything
  veilGone,
  game,                 \* "no", "importing", "on"
  cols,                 \* the terminal's width
  last,                 \* the width pushSize remembers; 0 for none
  stty,                 \* widths on their way
  tty,                  \* the guest's width; 0 for what it booted with
  astray,               \* history: the stty sent last failed, or ended before
                        \* an older one
  conBoots, conTouches  \* bounds

veil == <<progress, reported, printing, stalled, early, veilGone, game>>
size == <<cols, last, stty, tty, astray>>
consolesVars == <<place, con, veil, size, conBoots, conTouches>>

Widest == CHOOSE c \in Cols : \A o \in Cols : o <= c

ConsolesInit ==
  /\ place \in {"terminal", "chat"} /\ con = "off"
  /\ progress = "none" /\ reported = FALSE /\ printing = FALSE /\ stalled = FALSE /\ early = FALSE
  /\ veilGone = FALSE /\ game = "no"
  /\ cols = Widest /\ last = 0 /\ stty = <<>> /\ tty = 0 /\ astray = FALSE
  /\ conBoots = 0 /\ conTouches = 0

Gesture == conTouches < MaxGesture /\ conTouches' = conTouches + 1

Booting == con \in {"off", "booting"}
VeilUp == Booting /\ ~stalled

----------------------------------------------------------------------------
(* The veil, on the terminal page.                                         *)

\* Mutant: a boot that is over leaves the note of a slow one up.
KeepStalled == stalled

\* The effects of a boot that is over.
Unstalled == FALSE

\* The page boots its machine, Retry boots it again; the chat page's power key
\* too.
BootConsole ==
  /\ con \in {"off", "failed"} /\ conBoots < MaxConsole /\ conBoots' = conBoots + 1
  /\ con' = "booting" /\ reported' = FALSE /\ printing' = FALSE /\ early' = FALSE
  /\ veilGone' = (veilGone /\ stalled) /\ tty' = 0 /\ stty' = <<>> /\ astray' = FALSE
  /\ UNCHANGED <<place, progress, stalled, game, cols, last, conTouches>>

Download ==
  /\ con = "booting" /\ ~printing /\ progress' = "download" /\ reported' = TRUE
  /\ UNCHANGED <<place, con, printing, stalled, early, veilGone, game, size, conBoots, conTouches>>

\* The kernel's first byte on the console.
Kernel ==
  /\ con = "booting" /\ ~printing /\ progress' = "kernel" /\ reported' = TRUE /\ printing' = TRUE
  /\ UNCHANGED <<place, con, stalled, early, veilGone, game, size, conBoots, conTouches>>

\* Thirty seconds in the kernel's phase, which may be that of the boot before.
Stall ==
  /\ place = "terminal" /\ Booting /\ progress = "kernel" /\ ~stalled /\ stalled' = TRUE /\ early' = ~reported
  /\ UNCHANGED <<place, con, progress, reported, printing, veilGone, game, size, conBoots, conTouches>>

ConsoleFails ==
  /\ con = "booting" /\ con' = "failed" /\ stalled' = Unstalled
  /\ UNCHANGED <<place, progress, reported, printing, early, veilGone, game, size, conBoots, conTouches>>

\* The fade is over: the veil goes, and the game with it.
Faded ==
  /\ place = "terminal" /\ ~VeilUp /\ ~veilGone /\ veilGone' = TRUE /\ game' = "no"
  /\ UNCHANGED <<place, con, progress, reported, printing, stalled, early, size, conBoots, conTouches>>

\* The space bar while the veil is up, or a click on the hint while it shows.
Play ==
  /\ place = "terminal" /\ Gesture /\ game = "no" /\ ~veilGone /\ game' = "importing"
  /\ UNCHANGED <<place, con, progress, reported, printing, stalled, early, veilGone, size, conBoots>>
Imported ==
  /\ game = "importing" /\ game' = "on"
  /\ UNCHANGED <<place, con, progress, reported, printing, stalled, early, veilGone, size, conBoots, conTouches>>

----------------------------------------------------------------------------
(* The size.                                                               *)

\* setConsoleSize: an stty, and nobody waits for it.
SetConsoleSize(c) == stty' = Append(stty, c) /\ astray' = FALSE

\* Ready: the terminal page pushes what it has not, the panel whatever it has.
ConsoleReady ==
  /\ con = "booting" /\ printing /\ con' = "ready" /\ stalled' = Unstalled
  /\ IF place = "terminal" /\ cols = last THEN UNCHANGED <<stty, astray>> ELSE SetConsoleSize(cols)
  /\ last' = IF place = "terminal" THEN cols ELSE last
  /\ UNCHANGED <<place, progress, reported, printing, early, veilGone, game, cols, tty, conBoots, conTouches>>

\* Is a size remembered that comes while the machine is not ready.
Remembers == place = "chat" \/ con = "ready"

\* The observer: fit, then pushSize.
Resize(c) ==
  /\ Gesture /\ c # cols /\ cols' = c
  /\ last' = IF Remembers THEN c ELSE last
  /\ IF con = "ready" /\ c # last THEN SetConsoleSize(c) ELSE UNCHANGED <<stty, astray>>
  /\ UNCHANGED <<place, con, veil, tty, conBoots>>

\* Each runs in a shell of its own: the guest ends them in any order.
Without(i) == SubSeq(stty, 1, i - 1) \o SubSeq(stty, i + 1, Len(stty))

SttyDone(i) ==
  /\ i \in DOMAIN stty
  /\ tty' = stty[i] /\ stty' = Without(i) /\ astray' = (astray \/ (i = Len(stty) /\ i > 1))
  /\ UNCHANGED <<place, con, veil, cols, last, conBoots, conTouches>>

\* Nobody looks at how it ends.
SttyFails(i) ==
  /\ Gesture /\ i \in DOMAIN stty
  /\ stty' = Without(i) /\ astray' = (astray \/ i = Len(stty))
  /\ UNCHANGED <<place, con, veil, cols, last, tty, conBoots>>

\* destroy(): the capsule of the chat page.
Capsule ==
  /\ place = "chat" /\ Gesture /\ con \in {"booting", "ready"} /\ con' = "off" /\ stty' = <<>>
  /\ UNCHANGED <<place, veil, cols, last, tty, astray, conBoots>>

----------------------------------------------------------------------------
ConsolesNext ==
  \/ BootConsole \/ Download \/ Kernel \/ Stall \/ ConsoleFails \/ Faded \/ Play \/ Imported \/ ConsoleReady
  \/ Capsule
  \/ \E c \in Cols : Resize(c)
  \/ \E i \in 1 .. MaxGesture + 1 : SttyDone(i) \/ SttyFails(i)

ConsolesSpec == ConsolesInit /\ [][ConsolesNext]_consolesVars

----------------------------------------------------------------------------
\* Through boots that fail and are tried again: the veil drops early only over
\* a kernel that prints, or over a boot that had reported nothing for thirty
\* seconds after one that got to its kernel; it is up over every other boot, and
\* the game never outlives it; once the sttys are done the guest's width is the
\* terminal's, unless the one sent last failed or was overtaken.
ConsolesTrue ==
  /\ (Booting /\ stalled => printing \/ early)
  /\ (place = "terminal" /\ veilGone => ~VeilUp /\ game = "no")
  /\ (con = "ready" /\ stty = <<>> /\ ~astray => tty = cols)
=============================================================================
