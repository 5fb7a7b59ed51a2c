------------------------------ MODULE AppWindows ------------------------------
(***************************************************************************)
(* Apps and the windows that show them, across the control link: rund runs  *)
(* an app, rpcd holds the terminal it runs in, the page keeps its window.   *)
(* A window follows its app by three ways, stream.opened and stream.closed, *)
(* window.create, and the event app.exited; an app follows its window by    *)
(* app.stop and stream.close.                                               *)
(***************************************************************************)
EXTENDS Integers, Sequences, SequencesExt, FiniteSets

CONSTANTS
  Webs,        \* apps with a web window and a backend
  Ttys,        \* apps that run in a terminal
  Shells,      \* terminals without an app: proc.pty
  Enabled,     \* apps on the list of those to be kept running
  MAX_WINDOWS,
  MaxRun,      \* bound: runs in all
  MaxLoss      \* bound: sessions and events lost

\* What the constants are taken to be.
AppWindowsAssumption ==
  /\ Webs \cap Ttys = {} /\ (Webs \cup Ttys) \cap Shells = {} /\ Enabled \subseteq Webs \cup Ttys
  /\ {MAX_WINDOWS, MaxRun, MaxLoss} \subseteq Nat

Managed == Webs \cup Ttys
Terms   == Ttys \cup Shells
All     == Managed \cup Shells

VARIABLES
  \* rund
  run,       \* each: the number of its present run, 0 when it does not run
  stopping,  \* those told to end
  latch,     \* manual_stop
  pty,       \* those that were started in a terminal
  spawned,   \* runs so far
  \* rpcd
  streams,   \* terminals it holds, each with the run that opened it
  watch,     \* the page hears of app.*
  \* the link
  control,   \* "up", "lost"
  upward, downward,
  \* the page
  windows,   \* each with its app, the run it shows, and whether it says (exited)
  reading,   \* window.create whose bundle is being read
  \* history
  headless,  \* runs whose terminal found the desktop full
  unheard,   \* runs whose end the annotator could not note
  dismissed, \* apps whose window was closed by hand, until started by hand
  losses

facesVars == <<run, stopping, latch, pty, spawned, streams, watch, control, upward, downward, windows, reading,
               headless, unheard, dismissed, losses>>
services == <<run, stopping, latch, pty, spawned>>
rpcd     == <<streams, watch>>
link     == <<control, upward, downward>>
desktop  == <<windows, reading>>
history  == <<headless, unheard, dismissed>>

FacesInit ==
  /\ run = [a \in All |-> 0] /\ stopping = {} /\ latch = {} /\ pty = Shells /\ spawned = 0
  /\ streams = {} /\ watch = TRUE
  /\ control = "up" /\ upward = <<>> /\ downward = <<>>
  /\ windows = {} /\ reading = {}
  /\ headless = {} /\ unheard = {} /\ dismissed = {} /\ losses = 0

Of(a, n) == [app |-> a, n |-> n]
Note(kind, a, n) == [kind |-> kind, app |-> a, n |-> n]
Alive(a, n) == run[a] = n
Lose == losses < MaxLoss /\ losses' = losses + 1

\* A frame on its way, unless the session is lost.
Tell(note) == upward' = IF control = "up" THEN Append(upward, note) ELSE upward
Heard(kind) == upward # <<>> /\ Head(upward).kind = kind /\ upward' = Tail(upward)
Asked(kind) == downward # <<>> /\ Head(downward).kind = kind /\ downward' = Tail(downward)

----------------------------------------------------------------------------
(* The guest.                                                              *)

\* svc_spawn and handle_proc_pty: a terminal goes to rpcd and the page hears
\* of it; a web app's app-run asks for its window.
Spawn(a) ==
  /\ spawned < MaxRun /\ spawned' = spawned + 1 /\ run' = [run EXCEPT ![a] = spawned'] /\ stopping' = stopping \ {a}
  /\ streams' = IF a \in pty' THEN streams \cup {Of(a, spawned')} ELSE streams
  /\ IF a \in pty' \cup Webs
     THEN Tell(Note(IF a \in Webs THEN "create" ELSE "opened", a, spawned')) ELSE UNCHANGED upward

\* By hand; an app that runs already only answers.
Start(a) ==
  /\ run[a] = 0 /\ latch' = latch \ {a} /\ pty' = pty \cup ({a} \cap Ttys) /\ Spawn(a)
  /\ dismissed' = dismissed \ {a}
  /\ UNCHANGED <<watch, control, downward, desktop, headless, unheard, losses>>

\* Mutant: only a stop under way keeps the sweep off.
HeldBriefly(a) == a \in stopping

\* What the sweep leaves alone though it is enabled.
Held(a) == a \in latch

\* sweep_services: an enabled app that does not run is started, the way it was
\* last started by hand.
Sweep(a) ==
  /\ a \in Enabled /\ run[a] = 0 /\ ~Held(a) /\ UNCHANGED pty /\ Spawn(a)
  /\ UNCHANGED <<latch, watch, control, downward, desktop, history, losses>>

\* svc_exited and reap_ptys: it ends, by itself, by a signal, or because its
\* terminal hung up.  The event reaches a page that watches, unless it is one
\* too many for its backlog.
Exit(a, folded) ==
  /\ run[a] # 0 /\ run' = [run EXCEPT ![a] = 0] /\ stopping' = stopping \ {a}
  /\ LET told == a \in Managed /\ watch /\ control = "up" /\ ~folded IN
     /\ IF told THEN Tell(Note("exited", a, run[a])) ELSE UNCHANGED upward
     /\ unheard' = IF told \/ a \in Shells THEN unheard ELSE unheard \cup {run[a]}
  /\ IF folded THEN Lose ELSE UNCHANGED losses
  /\ UNCHANGED <<latch, pty, spawned, rpcd, control, downward, desktop, headless, dismissed>>

\* stream_pump_out: nobody holds the other side any more.
Hangup(s) ==
  /\ s \in streams /\ ~Alive(s.app, s.n) /\ streams' = streams \ {s} /\ Tell(Note("closed", s.app, s.n))
  /\ UNCHANGED <<services, watch, control, downward, desktop, history, losses>>

\* handle_app_stop.
OnStop ==
  /\ Asked("stop")
  /\ LET a == Head(downward).app IN
     /\ latch' = latch \cup {a}
     /\ stopping' = IF run[a] # 0 THEN stopping \cup {a} ELSE stopping
  /\ UNCHANGED <<run, pty, spawned, rpcd, control, upward, desktop, history, losses>>

\* stream_close_req.
OnClose ==
  /\ Asked("close")
  /\ LET s == Of(Head(downward).app, Head(downward).n) IN
     /\ streams' = streams \ {s}
     /\ IF s \in streams THEN Tell(Note("closed", s.app, s.n)) ELSE UNCHANGED upward
  /\ UNCHANGED <<services, watch, control, desktop, history, losses>>

OnWatch == Asked("watch") /\ watch' = TRUE /\ UNCHANGED <<services, streams, control, upward, desktop, history, losses>>

----------------------------------------------------------------------------
(* The page.                                                               *)

Room == Cardinality(windows) < MAX_WINDOWS
Window(a, n) == [app |-> a, n |-> n, exited |-> FALSE]

\* A terminal's window; with the desktop full its app goes on without one.
OnOpened ==
  /\ Heard("opened")
  /\ LET w == Window(Head(upward).app, Head(upward).n) IN
     IF Room THEN windows' = windows \cup {w} /\ UNCHANGED headless
     ELSE headless' = headless \cup {w.n} /\ UNCHANGED windows
  /\ UNCHANGED <<services, rpcd, control, downward, reading, unheard, dismissed, losses>>

\* dropStream: the window leaves, and no app is stopped for it.
OnClosed ==
  /\ Heard("closed") /\ windows' = {w \in windows : w.app \notin Terms \/ w.n # Head(upward).n}
  /\ UNCHANGED <<services, rpcd, control, downward, reading, history, losses>>

\* markExited goes by the app a window fronts.
Marks(w, a) == w.app = a

OnExited ==
  /\ Heard("exited")
  /\ windows' = {[w EXCEPT !.exited = @ \/ Marks(w, Head(upward).app)] : w \in windows}
  /\ unheard' = IF Of(Head(upward).app, Head(upward).n) \in reading THEN unheard \cup {Head(upward).n} ELSE unheard
  /\ UNCHANGED <<services, rpcd, control, downward, reading, headless, dismissed, losses>>

\* window.create: the bundle is read, and other frames are heard meanwhile.
OnCreate ==
  /\ Heard("create") /\ reading' = reading \cup {Of(Head(upward).app, Head(upward).n)}
  /\ UNCHANGED <<services, rpcd, control, downward, windows, history, losses>>

\* A bundle that is no good, or a desktop that is full, is an error.
Create(r) ==
  /\ r \in reading /\ reading' = reading \ {r}
  /\ LET others == {w \in windows : w.app # r.app} IN
     \/ (others # windows \/ Room) /\ windows' = others \cup {Window(r.app, r.n)}
     \/ UNCHANGED windows
  /\ UNCHANGED <<services, rpcd, link, history, losses>>

\* wireWindowCloses: the app is stopped, a shell's stream closed; a link that
\* is down refuses the call, and nobody says it again.
Close(w) ==
  /\ w \in windows /\ windows' = windows \ {w}
  /\ downward' = IF control # "up" THEN downward
                 ELSE Append(downward, Note(IF w.app \in Shells THEN "close" ELSE "stop", w.app, w.n))
  /\ dismissed' = IF control = "up" THEN dismissed \cup {w.app} ELSE dismissed
  /\ UNCHANGED <<services, rpcd, control, upward, reading, headless, unheard, losses>>

\* The link is lost with all that is on it: stops, notices, requests, events.
LineLost ==
  /\ Lose /\ control = "up" /\ control' = "lost" /\ upward' = <<>> /\ downward' = <<>>
  /\ dismissed' = {a \in dismissed : \A i \in DOMAIN downward : downward[i].app # a}
  /\ unheard' = unheard \cup {note.n : note \in {x \in ToSet(upward) : x.kind = "exited"}}
  /\ UNCHANGED <<services, rpcd, desktop, headless>>

\* dropAllStreams.
DropAllStreams == {w \in windows : w.app \in Webs}

\* onSessionUp, and session_down of the guest: terminals are closed on both
\* sides, and the page says what it watches.
SessionUp ==
  /\ control = "lost" /\ control' = "up" /\ streams' = {} /\ watch' = FALSE
  /\ windows' = DropAllStreams /\ downward' = <<Note("watch", "page", 0)>>
  /\ UNCHANGED <<services, upward, reading, history, losses>>

----------------------------------------------------------------------------
FacesNext ==
  \/ \E a \in All : Start(a) \/ Sweep(a) \/ \E folded \in BOOLEAN : Exit(a, folded)
  \/ \E s \in streams : Hangup(s)
  \/ OnStop \/ OnClose \/ OnWatch \/ OnOpened \/ OnClosed \/ OnExited \/ OnCreate
  \/ \E r \in reading : Create(r)
  \/ \E w \in windows : Close(w)
  \/ LineLost \/ SessionUp

FacesSpec == FacesInit /\ [][FacesNext]_facesVars

----------------------------------------------------------------------------
Coming(kind, n) == \E i \in DOMAIN upward : upward[i].kind = kind /\ upward[i].n = n
Going(a) == \E i \in DOMAIN downward : downward[i].app = a

\* What the desktop shows is so, or the word is on the way: a terminal's window
\* has its stream, a run in a terminal has its window unless the desktop was
\* full or somebody closed it; (exited) is said of no run that goes on, and of
\* every run that ended whose end could be noted; an app whose window was closed
\* by hand is not left running, nor to the sweep, unless it was started by hand or
\* the link lost the word.
WindowsTrue ==
  /\ control = "up" =>
       /\ \A w \in windows : w.app \in Terms => Of(w.app, w.n) \in streams \/ Coming("closed", w.n)
       /\ \A s \in streams : Alive(s.app, s.n) =>
            \/ \E w \in windows : w.n = s.n
            \/ Coming("opened", s.n) \/ s.n \in headless \/ s.app \in stopping \/ Going(s.app)
  /\ \A w \in windows : w.app \in Managed =>
       IF w.exited THEN ~Alive(w.app, w.n)
       ELSE Alive(w.app, w.n) \/ w.n \in unheard \/ Coming("exited", w.n)
  /\ \A a \in dismissed \cap Managed :
       Going(a) \/ (IF run[a] = 0 THEN a \in latch ELSE a \in stopping)

\* vm.ts: "a dead backend says so in its window's title".  It does not when the
\* event is lost, or overtakes the window of a run that ended at once.
DeadSaySo ==
  \A w \in windows : w.app \in Webs /\ ~w.exited => Alive(w.app, w.n) \/ Coming("exited", w.n)
=============================================================================
