-------------------------------- MODULE Gear --------------------------------
(***************************************************************************)
(* What the page does for a machine around its boots: the bar that shows    *)
(* the boot, the volume knob spliced into the machine's audio, and a real   *)
(* serial port wired to /dev/ttyS2.  Each machine is a new emulator.        *)
(***************************************************************************)
EXTENDS Integers, FiniteSets

CONSTANTS
  Images,     \* how many are fetched, one after the other, of one weight
  Grain,      \* steps a fetch reports
  Lines,      \* milestones on the console
  Levels,     \* positions of the volume knob; a new graph plays at the highest
  Ports,
  MaxMachine, \* bound: machines
  MaxTouch    \* bound: what the person does

\* What the constants are taken to be.
GearAssumption ==
  /\ {Images, Grain, Lines, MaxMachine, MaxTouch} \subseteq Nat /\ Levels \subseteq Nat /\ Levels # {}
  /\ "none" \notin Ports

VARIABLES
  vm, emu,       \* the machine, and which emulator it is
  bar, fetched, kernel, hit,  \* bootFraction, and what was reached of the boot
  graph,         \* the emulator whose audio graph is up; 0 for none
  gain,          \* pageGain: the graph it is spliced into, and its value
  knob,          \* the slider
  polling,       \* its effect retries
  told,          \* history: the graph the slider last reached
  attach,        \* each port: "idle", "waiting", "opening", "open", "closing"
  awaits,        \* the port whose end an attach waits for before it opens its own; "none"
  writer,        \* serialWriter's port; "none"
  detacher,      \* serialDetach's port; "none"
  crossed,       \* history: ports opened while another was, and what lost its place to them
  touches        \* bound

gearVars == <<vm, emu, bar, fetched, kernel, hit, graph, gain, knob, polling, told, attach, awaits, writer, detacher,
              crossed, touches>>
boot   == <<bar, fetched, kernel, hit>>
sound  == <<graph, gain, knob, polling, told>>
serial == <<attach, awaits, writer, detacher, crossed>>

Highest == CHOOSE l \in Levels : \A o \in Levels : o <= l
DownloadShare == Grain * Images
Full == DownloadShare + Lines + 1
NoneFetched == [i \in 1 .. Images |-> 0]

GearInit ==
  /\ vm = "off" /\ emu = 0
  /\ bar = 0 /\ fetched = NoneFetched /\ kernel = FALSE /\ hit = 0
  /\ graph = 0 /\ gain = [of |-> 0, at |-> 0] /\ knob = Highest /\ polling = TRUE /\ told = 0
  /\ attach = [p \in Ports |-> "idle"] /\ awaits = [p \in Ports |-> "none"]
  /\ writer = "none" /\ detacher = "none" /\ crossed = {} /\ touches = 0

Touch == touches < MaxTouch /\ touches' = touches + 1

----------------------------------------------------------------------------
(* The bar.                                                                *)

\* emitProgress: never backwards.
EmitProgress(fraction) == bar' = IF fraction > bar THEN fraction ELSE bar

\* start(): the bar starts over with each boot.
StartBoot ==
  /\ vm \in {"off", "failed"} /\ emu < MaxMachine
  /\ vm' = "booting" /\ emu' = emu + 1
  /\ bar' = 0 /\ fetched' = NoneFetched /\ kernel' = FALSE /\ hit' = 0
  /\ UNCHANGED <<sound, serial, touches>>

\* The steps that were reported, of all files.
Sum(f) == Cardinality({step \in (1 .. Images) \X (1 .. Grain) : step[2] <= f[step[1]]})

\* download-progress: a file that reports at all means those before it are in;
\* a fetch whose length nobody knows reports nothing.
Progress(i, done) ==
  /\ vm = "booting" /\ \A j \in 1 .. Images : j > i => fetched[j] = 0
  /\ fetched' = [j \in 1 .. Images |-> IF j < i THEN Grain ELSE IF j = i /\ done > fetched[i] THEN done ELSE fetched[j]]
  /\ EmitProgress(Sum(fetched'))
  /\ UNCHANGED <<vm, emu, kernel, hit, sound, serial, touches>>

\* The console's first byte.
FirstByte ==
  /\ vm = "booting" /\ ~kernel /\ kernel' = TRUE /\ EmitProgress(DownloadShare)
  /\ UNCHANGED <<vm, emu, fetched, hit, sound, serial, touches>>

\* trackMilestone: a line further on counts for those that were missed.
Milestone(k) ==
  /\ vm = "booting" /\ kernel /\ k \in hit + 1 .. Lines /\ hit' = k /\ EmitProgress(DownloadShare + k)
  /\ UNCHANGED <<vm, emu, fetched, kernel, sound, serial, touches>>

GearReady ==
  /\ vm = "booting" /\ kernel /\ vm' = "ready" /\ EmitProgress(Full)
  /\ UNCHANGED <<emu, fetched, kernel, hit, sound, serial, touches>>

----------------------------------------------------------------------------
(* The end of a machine.                                                   *)

\* A port's own detach: whichever port is the serial one is forgotten at once,
\* the rest awaits.
LetGo(p) ==
  /\ writer' = "none" /\ detacher' = "none"
  /\ crossed' = IF p \in crossed THEN (crossed \cup ({writer} \cap Ports)) \ {p} ELSE crossed

Detaching(p) == attach' = [attach EXCEPT ![p] = "closing"] /\ LetGo(p) /\ UNCHANGED awaits

\* destroy(), by the person or by a boot that failed; only the first lets the
\* port go.
DestroyGear(by) ==
  /\ IF by = "failure" THEN vm = "booting" /\ vm' = "failed" /\ UNCHANGED touches
     ELSE vm \in {"booting", "ready"} /\ vm' = "off" /\ Touch
  /\ graph' = 0
  /\ IF by # "failure" /\ detacher # "none" THEN Detaching(detacher) ELSE UNCHANGED serial
  /\ UNCHANGED <<emu, boot, gain, knob, polling, told>>

----------------------------------------------------------------------------
(* The volume.                                                             *)

\* v86's speaker adapter comes up.
GraphUp ==
  /\ vm \in {"booting", "ready"} /\ graph = 0 /\ graph' = emu
  /\ UNCHANGED <<vm, emu, boot, gain, knob, polling, told, serial, touches>>

\* Mutant: the first gain node serves for good.
SpliceOnce == IF gain.of # 0 THEN gain.of ELSE graph

\* The graph the page's gain node is spliced into after setVolume.
Splice == graph

\* setVolume: false while the adapter is not up.
Apply(level) ==
  IF graph = 0 THEN polling' = TRUE /\ UNCHANGED <<gain, told>>
  ELSE gain' = [of |-> Splice, at |-> level] /\ polling' = FALSE /\ told' = graph

\* The slider moves, or mutes.
Turn(level) ==
  /\ Touch /\ level # knob /\ knob' = level /\ Apply(level)
  /\ UNCHANGED <<vm, emu, boot, graph, serial>>

\* The effect's timer.
Poll ==
  /\ polling /\ graph # 0 /\ Apply(knob)
  /\ UNCHANGED <<vm, emu, boot, graph, knob, serial, touches>>

\* What is heard of a machine's sound.
Heard == IF gain.of = graph THEN gain.at ELSE Highest

----------------------------------------------------------------------------
(* The port.                                                               *)

\* attachSerial: the machine is waited for; one attach of a port is on its way ...
AttachPort(p) ==
  /\ Touch /\ attach[p] = "idle" /\ vm \in {"booting", "ready"}
  /\ attach' = [attach EXCEPT ![p] = "waiting"]
  /\ UNCHANGED <<vm, emu, boot, sound, awaits, writer, detacher, crossed>>

\* Ports past the wait with p.
Beside(p) == {q \in Ports \ {p} : attach[q] = "opening"}
Crossing(p) == IF Beside(p) = {} THEN {} ELSE Beside(p) \cup {p}

\* ... then the port that is attached, if one is, is let go ...
Replace(p) ==
  /\ attach[p] = "waiting" /\ vm = "ready"
  /\ IF detacher = "none"
     THEN /\ attach' = [attach EXCEPT ![p] = "opening"] /\ crossed' = crossed \cup Crossing(p)
          /\ UNCHANGED <<awaits, writer, detacher>>
     ELSE /\ attach' = [q \in Ports |-> IF q = p THEN "opening" ELSE IF q = detacher THEN "closing" ELSE attach[q]]
          /\ awaits' = [awaits EXCEPT ![p] = detacher]
          /\ writer' = "none" /\ detacher' = "none" /\ crossed' = (crossed \ {detacher}) \cup Crossing(p)
  /\ UNCHANGED <<vm, emu, boot, sound, touches>>

\* ... and this one opened, once that one has closed.
Opened(p, ok) ==
  /\ attach[p] = "opening" /\ awaits[p] = "none"
  /\ IF ok THEN attach' = [attach EXCEPT ![p] = "open"] /\ writer' = p /\ detacher' = p /\ UNCHANGED crossed
     ELSE attach' = [attach EXCEPT ![p] = "idle"] /\ crossed' = crossed \ {p} /\ UNCHANGED <<writer, detacher>>
  /\ UNCHANGED <<vm, emu, boot, sound, awaits, touches>>

\* The boot it waited for failed.
AttachRefused(p) ==
  /\ attach[p] = "waiting" /\ vm \in {"off", "failed"} /\ attach' = [attach EXCEPT ![p] = "idle"]
  /\ UNCHANGED <<vm, emu, boot, sound, awaits, writer, detacher, crossed, touches>>

\* The person disconnects, or the device is pulled out.
Detach(p) ==
  /\ Touch /\ attach[p] = "open" /\ Detaching(p) /\ UNCHANGED <<vm, emu, boot, sound>>

PortClosed(p) ==
  /\ attach[p] = "closing" /\ attach' = [attach EXCEPT ![p] = "idle"]
  /\ awaits' = [q \in Ports |-> IF awaits[q] = p THEN "none" ELSE awaits[q]]
  /\ UNCHANGED <<vm, emu, boot, sound, writer, detacher, crossed, touches>>

GearNext ==
  \/ StartBoot \/ FirstByte \/ GearReady \/ GraphUp \/ Poll
  \/ \E i \in 1 .. Images, done \in 0 .. Grain : Progress(i, done)
  \/ \E k \in 1 .. Lines : Milestone(k)
  \/ \E by \in {"person", "failure"} : DestroyGear(by)
  \/ \E level \in Levels : Turn(level)
  \/ \E p \in Ports : AttachPort(p) \/ Replace(p) \/ AttachRefused(p) \/ Detach(p) \/ PortClosed(p)
  \/ \E p \in Ports, ok \in BOOLEAN : Opened(p, ok)

GearSpec == GearInit /\ [][GearNext]_gearVars

----------------------------------------------------------------------------
\* The bar is where the boot is: reports out of turn, fetches that told nothing
\* and missed milestones take it neither back nor ahead.
BarTrue ==
  /\ vm = "booting" => bar = (IF kernel THEN DownloadShare + hit ELSE Sum(fetched)) /\ bar < Full
  /\ vm = "ready" => bar = Full

\* A machine whose sound the knob once reached plays as loud as the knob says.
LoudAsTold == graph # 0 /\ told = graph => Heard = knob

\* The guest's serial bytes go to a port that is open and can be let go, and any
\* other open port was opened while another one was, or lost its place to such.
SerialTrue ==
  /\ writer = detacher /\ (writer # "none" => attach[writer] = "open")
  /\ \A p \in Ports \ crossed : attach[p] = "open" => writer = p

\* Through boots that fail and machines that are replaced: the bar, the sound and
\* the serial port are the machine's.
GearTrue == BarTrue /\ LoudAsTold /\ SerialTrue

\* "Survives guest reboots": whatever plays, plays as loud as the knob says,
\* but for a moment.
KnobSurvives == graph # 0 /\ ~polling => Heard = knob
=============================================================================
