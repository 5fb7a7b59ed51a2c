----------------------------- MODULE VmLifecycle -----------------------------
(***************************************************************************)
(* The page's one virtual machine: boot, power-off, stop and failure, the  *)
(* person's power key, and the page's implicit needs of the machine.       *)
(*                                                                         *)
(* A boot is one call of start(), numbered; the emulator and the control   *)
(* link it constructs bear its number.  start() awaits several things, and *)
(* what it finds after each is read from the machine's fields, which a     *)
(* later boot may have set.  The guest is what the page sees of it: it     *)
(* holds ttyS3 or not, serves or not, and has one session of the link.     *)
(***************************************************************************)
EXTENDS Integers, FiniteSets

CONSTANTS
  Needs,         \* implicit needs of the machine: a file write, run_shell
  MaxBoot        \* bound: calls of start()

\* What the constant is taken to be.
VmAssumption == MaxBoot \in Nat

VARIABLES
  status,     \* "off", "booting", "ready", "failed"
  booting,    \* the boot whose promise callers share, 0 = null
  pc,         \* where each start() is
  emulator,   \* the machine's emulator, 0 = null
  rpc,        \* the machine's control link, 0 = null
  alive,      \* emulators that run
  link,       \* each boot's control link: "idle", "hello", "up"
  guest,      \* each emulator's guest: "dark", "held", "serving"
  session,    \* the link whose session each guest's rpcd has, 0 = none
  power,      \* what the person last left the machine as: "on", "off", "none"
  flush,      \* a power-off waits for the mirror
  need,       \* each need: "none", "waits", "met", "refused"
  waits,      \* the boot it waits for
  lastBootError,
  stopped,    \* history: boots the person stopped
  abreast,    \* history: boots whose start() ran while another's did
  abandoned   \* history: links a boot that failed left as they were

machineState == <<status, booting, emulator, rpc, lastBootError>>
asked == <<need, waits>>
vmHistory == <<stopped, abreast, abandoned>>
vmVars == <<machineState, pc, alive, link, guest, session, power, flush, asked, vmHistory>>

Boots  == 1 .. MaxBoot
Begun  == {b \in Boots : pc[b] # "none"}
Over   == {"none", "done", "failed"}
IsAt(b, where) == pc[b] = where
GoTo(b, where) == pc' = [pc EXCEPT ![b] = where]

VmInit ==
  /\ status = "off" /\ booting = 0 /\ emulator = 0 /\ rpc = 0 /\ lastBootError = FALSE
  /\ pc = [b \in Boots |-> "none"]
  /\ alive = {} /\ link = [b \in Boots |-> "idle"]
  /\ guest = [b \in Boots |-> "dark"] /\ session = [b \in Boots |-> 0]
  /\ power \in {"none", "on", "off"} /\ flush = FALSE
  /\ need = [n \in Needs |-> "none"] /\ waits = [n \in Needs |-> 0]
  /\ stopped = {} /\ abreast = {} /\ abandoned = {}

----------------------------------------------------------------------------
(* boot(): the boot under way, or a new one.                               *)

\* Boots whose start() has not ended: one that was stopped or powered off in the
\* middle goes on until it looks.
Running == {b \in Boots : pc[b] \notin Over}

\* The first lines of start().
Start ==
  LET b == Cardinality(Begun) + 1 IN
  /\ Cardinality(Begun) < MaxBoot
  /\ booting' = b /\ status' = "booting" /\ lastBootError' = FALSE
  /\ GoTo(b, "import")
  /\ abreast' = IF Running = {} THEN abreast ELSE abreast \cup Running \cup {b}
  /\ UNCHANGED <<emulator, rpc>>

Boot == IF booting = 0 THEN Start ELSE UNCHANGED <<machineState, pc, abreast>>

----------------------------------------------------------------------------
(* The person.                                                             *)

\* powerOn, and the first-load question answered yes.
PowerOn ==
  /\ status \in {"off", "failed"}
  /\ power' = "on"
  /\ Boot
  /\ UNCHANGED <<alive, link, guest, session, flush, asked, stopped, abandoned>>

\* The page loads, on a machine left running.
LoadLeftOn ==
  /\ Begun = {} /\ power = "on"
  /\ Boot
  /\ UNCHANGED <<alive, link, guest, session, power, flush, asked, stopped, abandoned>>

\* "Not now" on first load.
NotNow ==
  /\ power = "none" /\ status = "off"
  /\ power' = "off"
  /\ UNCHANGED <<machineState, pc, alive, link, guest, session, flush, asked, vmHistory>>

\* The capsule's terminal key opens the console, and the console boots.
OpenConsole ==
  /\ status # "ready"
  /\ Boot
  /\ UNCHANGED <<alive, link, guest, session, power, flush, asked, stopped, abandoned>>

\* Mutant: the link is left attached.
DestroyKnocking ==
  /\ rpc' = 0 /\ UNCHANGED link
  /\ alive' = alive \ {emulator} /\ emulator' = 0
  /\ status' = "off" /\ booting' = 0
  /\ UNCHANGED <<pc, guest, session, lastBootError>>

\* destroy().
Destroy ==
  /\ link' = [b \in Boots |-> IF b = rpc THEN "idle" ELSE link[b]] /\ rpc' = 0
  /\ alive' = alive \ {emulator} /\ emulator' = 0
  /\ status' = "off" /\ booting' = 0
  /\ UNCHANGED <<pc, guest, session, lastBootError>>

\* stopBoot: only a boot in progress.
StopBoot ==
  /\ status = "booting"
  /\ power' = "off"
  /\ stopped' = stopped \cup {booting}
  /\ Destroy
  /\ UNCHANGED <<flush, asked, abreast, abandoned>>

\* powerOff: the windows, then the mirror ...
PowerOff ==
  /\ status = "ready" /\ ~flush
  /\ power' = "off" /\ flush' = TRUE
  /\ UNCHANGED <<machineState, pc, alive, link, guest, session, asked, vmHistory>>

\* ... then the machine.
Flushed ==
  /\ flush /\ flush' = FALSE
  /\ Destroy
  /\ UNCHANGED <<power, asked, vmHistory>>

----------------------------------------------------------------------------
(* start() after its first await.                                          *)

\* Was the machine destroyed while start() awaited?
OffMeanwhile == status = "off" /\ emulator = 0

\* The catch of start().  A machine destroyed meanwhile is not a failure.
Fail(b) ==
  /\ GoTo(b, "failed")
  /\ booting' = 0
  /\ IF OffMeanwhile
     THEN UNCHANGED <<status, emulator, alive, lastBootError, abandoned>>
     ELSE /\ status' = "failed" /\ lastBootError' = TRUE
          /\ alive' = alive \ {emulator} /\ emulator' = 0
          /\ abandoned' = abandoned \cup {rpc}
  /\ UNCHANGED <<rpc, link, guest, session, power, flush, asked, stopped, abreast>>

\* Is the boot still wanted once the image is here.
StillWanted == status = "booting"

\* The import and the claim on the machine's name are in: construct().
Construct(b) ==
  /\ IsAt(b, "import") /\ StillWanted
  /\ emulator' = b /\ rpc' = b /\ alive' = alive \cup {b}
  /\ GoTo(b, "dtr")
  /\ UNCHANGED <<status, booting, lastBootError, link, guest, session, power, flush, asked, vmHistory>>

\* The import failed, or the machine was powered off during it.
NotConstructed(b) == IsAt(b, "import") /\ Fail(b)

\* controlUp: DTR is up, or was waited for long enough: the carrier pulse,
\* and the link says hello.
Attach(b) ==
  /\ IsAt(b, "dtr") /\ rpc # 0
  /\ link' = [link EXCEPT ![rpc] = "hello"]
  /\ GoTo(b, "hello")
  /\ UNCHANGED <<machineState, alive, guest, session, power, flush, asked, vmHistory>>

\* Each loop of controlUp looks whether the machine is still there.
ShutDown(b) == pc[b] \in {"dtr", "hello", "probe"} /\ rpc = 0 /\ Fail(b)

\* The link is up: probe rund.
SessionIsUp(b) ==
  /\ IsAt(b, "hello") /\ rpc # 0 /\ link[rpc] = "up"
  /\ GoTo(b, "probe")
  /\ UNCHANGED <<machineState, alive, link, guest, session, power, flush, asked, vmHistory>>

\* The probe of rund is answered: the guest serves, in this link's session.
ProbeAnswered == rpc # 0 /\ emulator # 0 /\ guest[emulator] = "serving" /\ session[emulator] = rpc

\* The bar is full, the machine ready.
Ready(b) ==
  /\ IsAt(b, "probe") /\ ProbeAnswered
  /\ status' = "ready"
  /\ GoTo(b, "done")
  /\ UNCHANGED <<booting, emulator, rpc, lastBootError, alive, link, guest, session, power,
                 flush, asked, vmHistory>>

\* The boot's deadline passes in either loop.
DeadlinePasses(b) == pc[b] \in {"hello", "probe"} /\ rpc # 0 /\ Fail(b)

----------------------------------------------------------------------------
(* The link and the guest.                                                 *)

\* A link that has been attached and not detached knocks at the emulator the
\* machine has now.  Whoever says hello last has rpcd's session; the answer
\* goes to the machine's link and is nothing to any other.
Hello(l) ==
  /\ link[l] = "hello" /\ emulator # 0 /\ guest[emulator] # "dark"
  /\ session' = [session EXCEPT ![emulator] = l]
  /\ link' = IF l = rpc THEN [link EXCEPT ![l] = "up"] ELSE link
  /\ UNCHANGED <<machineState, pc, alive, guest, power, flush, asked, vmHistory>>

\* What a link sends is not acknowledged: it starts over.
LinkLost(l) ==
  /\ link[l] = "up" /\ ~(emulator # 0 /\ session[emulator] = l)
  /\ link' = [link EXCEPT ![l] = "hello"]
  /\ UNCHANGED <<machineState, pc, alive, guest, session, power, flush, asked, vmHistory>>

\* rpcd opens ttyS3, then rund serves.
GuestComesUp(e) ==
  /\ e \in alive /\ guest[e] # "serving"
  /\ guest' = [guest EXCEPT ![e] = IF @ = "dark" THEN "held" ELSE "serving"]
  /\ UNCHANGED <<machineState, pc, alive, link, session, power, flush, asked, vmHistory>>

----------------------------------------------------------------------------
(* Implicit needs: whenUp.                                                 *)

\* Mutant: a need boots whatever the person left.
PermittedAlways == TRUE

\* A machine that is down boots for a need only if it was left on.
Permitted == power = "on"

AskFor(n) ==
  /\ need[n] = "none"
  /\ IF status \in {"booting", "ready"} \/ Permitted
     THEN /\ Boot
          /\ need' = [need EXCEPT ![n] = "waits"] /\ waits' = [waits EXCEPT ![n] = booting']
     ELSE need' = [need EXCEPT ![n] = "refused"] /\ UNCHANGED <<machineState, pc, waits, abreast>>
  /\ UNCHANGED <<alive, link, guest, session, power, flush, stopped, abandoned>>

\* The promise the need waits on settles.
Settle(n) ==
  /\ need[n] = "waits" /\ pc[waits[n]] \in {"done", "failed"}
  /\ need' = [need EXCEPT ![n] = IF pc[waits[n]] = "done" /\ emulator # 0 THEN "met" ELSE "refused"]
  /\ UNCHANGED <<waits, machineState, pc, alive, link, guest, session, power, flush, vmHistory>>

----------------------------------------------------------------------------
VmNext ==
  \/ PowerOn \/ LoadLeftOn \/ NotNow \/ OpenConsole \/ StopBoot \/ PowerOff \/ Flushed
  \/ \E b \in Boots :
       \/ Construct(b) \/ NotConstructed(b) \/ Attach(b) \/ ShutDown(b)
       \/ SessionIsUp(b) \/ Ready(b) \/ DeadlinePasses(b)
       \/ Hello(b) \/ LinkLost(b) \/ GuestComesUp(b)
  \/ \E n \in Needs : AskFor(n) \/ Settle(n)

\* Timers and promises of the page go on; the guest and the person owe nothing.
VmFairness ==
  /\ WF_vmVars(Flushed)
  /\ \A b \in Boots :
       /\ WF_vmVars(Construct(b) \/ NotConstructed(b)) /\ WF_vmVars(Attach(b) \/ ShutDown(b))
       /\ WF_vmVars(Ready(b) \/ DeadlinePasses(b)) /\ WF_vmVars(Hello(b))
  /\ \A n \in Needs : WF_vmVars(Settle(n))

VmSpec == VmInit /\ [][VmNext]_vmVars /\ VmFairness

----------------------------------------------------------------------------
\* The types, and: a promise callers share is of a boot under way or of a
\* machine that is up.
VmTypeOK ==
  /\ (booting # 0) <=> (status \in {"booting", "ready"})
  /\ status \in {"off", "booting", "ready", "failed"} /\ lastBootError \in BOOLEAN
  /\ {booting, emulator, rpc} \subseteq 0 .. MaxBoot /\ alive \subseteq Boots
  /\ pc \in [Boots -> {"none", "import", "dtr", "hello", "probe", "done", "failed"}]
  /\ link \in [Boots -> {"idle", "hello", "up"}]
  /\ guest \in [Boots -> {"dark", "held", "serving"}] /\ session \in [Boots -> 0 .. MaxBoot]
  /\ power \in {"none", "on", "off"} /\ flush \in BOOLEAN
  /\ stopped \subseteq Boots /\ abreast \subseteq Boots /\ abandoned \subseteq 0 .. MaxBoot
  /\ need \in [Needs -> {"none", "waits", "met", "refused"}] /\ waits \in [Needs -> 0 .. MaxBoot]

\* No emulator runs that the machine does not hold: what a stop or a failure
\* destroyed is gone, and nothing is built after it, but for boots whose start()
\* ran side by side.
OneMachine ==
  /\ alive \ {emulator} \subseteq abreast /\ (emulator # 0 => emulator \in alive)
  /\ status \in {"off", "failed"} => emulator = 0

\* Does a link other than the machine's knock at its emulator?
Knocked == \E l \in Boots \ {rpc} : link[l] # "idle"

\* A machine that reads ready has an emulator whose guest serves, in a session
\* of the very link the page calls through, unless another link knocks.
ReadyAnswers ==
  status = "ready" => emulator # 0 /\ rpc = emulator /\ guest[emulator] = "serving"
                      /\ (session[emulator] = rpc \/ Knocked)

\* "A retry after 'failed' is a fresh boot": no link of an earlier boot still
\* knocks at the emulator of this one -- but the one a boot that failed had
\* attached, which nobody detaches, and those of boots that ran side by side.
FreshBoot == emulator # 0 => \A l \in Boots \ {rpc} : link[l] # "idle" => l \in abandoned \cup abreast

\* There is one machine, one that reads ready answers, and one that boots meets
\* nothing of the machines before it.
MachineTrue == OneMachine /\ ReadyAnswers /\ FreshBoot

\* "Only the explicit gestures -- the power key, the first-load question --
\* boot a machine the person left off": no need does, whatever boot failed or was
\* stopped before; the console, opened, does as well.
StaysAsLeft == [][
  status' = "booting" /\ status # "booting" => power' = "on" \/ OpenConsole]_vmVars

\* The person who stops a boot changed their mind, "which is not a failure and
\* must not read as one": a stopped boot's end leaves the machine as it is,
\* unless another boot ran by its side.
StopIsNoFailure == [][
  \A b \in stopped \ abreast : pc[b] # "failed" /\ pc'[b] = "failed" =>
    status' = status /\ emulator' = emulator]_vmVars

\* Every boot ends, and every need that waits for one is answered.
BootsEnd == \A b \in Boots : IsAt(b, "import") ~> pc[b] \in {"done", "failed"}
NeedsSettle == \A n \in Needs : need[n] = "waits" ~> need[n] \in {"met", "refused"}
=============================================================================
