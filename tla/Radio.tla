-------------------------------- MODULE Radio --------------------------------
(***************************************************************************)
(* One Bluetooth radio for the machines of an origin.  Each document holds  *)
(* it by a Web Lock that is never waited for, shared inside the document by  *)
(* a count; a connection and a scan each keep one reference.  Connecting     *)
(* awaits the lock, the remembered devices, and a click that opens the       *)
(* picker; scanning awaits the lock, a click and the browser.                *)
(*                                                                         *)
(* The documents, the person's clicks and the guest's calls come in any      *)
(* order, also while another is on its way; a document may close any time.   *)
(***************************************************************************)
EXTENDS Integers

CONSTANTS
  Docs,     \* the machines' documents
  MaxCall   \* bound: calls and clicks

\* What the constants are taken to be.
RadioAssumption == MaxCall \in Nat /\ "none" \notin Docs

VARIABLES
  locks,       \* the Web Lock: the document that has it, or "none"
  refs,        \* holds: references of a document's long hold, 0 for none
  deviceHold, scanHold,
  device,      \* "none", "linked", "lost"
  pendingPick, waiting,  \* a pick parked on the chip; the guest's call that awaits it
  pendingScan, leScan, hears,  \* a scan parked, running, and its listener
  doing,       \* what a document has under way, each awaiting the browser
  calls,       \* bound: calls and clicks made
  loose        \* history: uses whose hold was dropped before they began or ended

holdState == <<locks, refs>>
pickState == <<device, pendingPick, waiting>>
scanState == <<pendingScan, leScan, hears>>
radioVars == <<holdState, deviceHold, scanHold, pickState, scanState, doing, calls, loose>>

\* The lock is asked for; remembered devices are tried; a picker is open; a scan
\* is starting, or was stopped since.
Asking == {"connect", "click", "scan"}
Deeds  == Asking \cup {"remembered", "picker", "starting", "stopped"}

Off == [d \in Docs |-> FALSE]

RadioInit ==
  /\ locks = "none" /\ refs = [d \in Docs |-> 0]
  /\ deviceHold = Off /\ scanHold = Off
  /\ device = [d \in Docs |-> "none"] /\ pendingPick = Off /\ waiting = Off
  /\ pendingScan = Off /\ leScan = Off /\ hears = Off
  /\ doing = [d \in Docs |-> {}] /\ calls = 0 /\ loose = [d \in Docs |-> {}]

----------------------------------------------------------------------------
(* The origin's broker.                                                    *)

\* Mutant: the first release gives the lock back, whoever else shares it.
DropAll(d, n) ==
  /\ refs' = [refs EXCEPT ![d] = @ - n]
  /\ locks' = IF n > 0 /\ locks = d THEN "none" ELSE locks

\* A reference dropped; the last one gives the lock back.
Drop(d, n) ==
  /\ refs' = [refs EXCEPT ![d] = @ - n]
  /\ locks' = IF n > 0 /\ refs[d] = n THEN "none" ELSE locks

Count(x) == IF x THEN 1 ELSE 0

Set(f, d, x)   == [f EXCEPT ![d] = x]
Swap(d, a, b)  == [doing EXCEPT ![d] = (@ \ a) \cup b]

\* A connection or a click is under way that may yet bring a device.
Picking(d) == pendingPick[d] \/ "remembered" \in doing[d] \/ "picker" \in doing[d]

\* A use without its hold, or with it again.
Loosen(d, use, yes) == IF yes THEN [loose EXCEPT ![d] = @ \cup {use}] ELSE loose
Fasten(d, use)      == [loose EXCEPT ![d] = @ \ {use}]

\* What a call or a click does with the hold it asked for: connect lets the old
\* device go, its reference with it; a click opens the picker; a scan is parked.
TakeHold(d, op) ==
  /\ locks' = d
  /\ \/ /\ op = "connect"
        /\ refs' = [refs EXCEPT ![d] = @ + 1 - Count(deviceHold[d])]
        /\ device' = Set(device, d, "none") /\ deviceHold' = Set(deviceHold, d, TRUE) /\ loose' = Fasten(d, "device")
        /\ doing' = Swap(d, {op}, {"remembered"})
        /\ UNCHANGED <<scanHold, pendingPick, waiting, pendingScan>>
     \/ /\ op = "click"
        /\ refs' = [refs EXCEPT ![d] = @ + 1]
        /\ deviceHold' = Set(deviceHold, d, TRUE) /\ pendingPick' = Set(pendingPick, d, FALSE) /\ loose' = Fasten(d, "device")
        /\ doing' = Swap(d, {op}, {"picker"})
        /\ UNCHANGED <<scanHold, device, waiting, pendingScan>>
     \/ /\ op = "scan"
        /\ refs' = [refs EXCEPT ![d] = @ + 1]
        /\ scanHold' = Set(scanHold, d, TRUE) /\ pendingScan' = Set(pendingScan, d, TRUE)
        /\ doing' = Swap(d, {op}, {})
        /\ UNCHANGED <<deviceHold, pickState, loose>>
  /\ UNCHANGED <<leScan, hears>>

\* acquireOriginHold: shared at once, or asked of the browser.
Acquire(d, op) ==
  \/ refs[d] > 0 /\ TakeHold(d, op)
  \/ /\ refs[d] = 0 /\ doing' = Swap(d, {}, {op})
     /\ UNCHANGED <<holdState, deviceHold, scanHold, pickState, scanState, loose>>

\* The lock answers, granted or busy.
Granted(d, op) == op \in doing[d] /\ locks = "none" /\ TakeHold(d, op) /\ UNCHANGED calls

Busy(d, op) ==
  /\ op \in doing[d] /\ locks # "none" /\ doing' = Swap(d, {op}, {})
  /\ UNCHANGED <<holdState, deviceHold, scanHold, pickState, scanState, calls, loose>>

----------------------------------------------------------------------------
(* The device.                                                             *)

\* A call or a click; of one kind a document has one under way.
Call(d, op) == calls < MaxCall /\ calls' = calls + 1 /\ op \notin doing[d]

\* ble.connect.
Connect(d) == Call(d, "connect") /\ "remembered" \notin doing[d] /\ Acquire(d, "connect")

\* adopt: the device is the machine's, and whoever awaited a pick has it.
Adopt(d) ==
  device' = Set(device, d, "linked") /\ pendingPick' = Set(pendingPick, d, FALSE) /\ waiting' = Set(waiting, d, FALSE)

\* A remembered one answers, or the pick is parked on the chip.
Remembered(d) ==
  /\ "remembered" \in doing[d] /\ doing' = Swap(d, {"remembered"}, {})
  /\ \/ Adopt(d)
     \/ pendingPick' = Set(pendingPick, d, TRUE) /\ waiting' = Set(waiting, d, TRUE) /\ UNCHANGED device
  /\ UNCHANGED <<holdState, deviceHold, scanHold, scanState, calls, loose>>

\* bleChipClick on a parked pick, or an idle chip that has the hold ...
OpenPicker(d) ==
  /\ Call(d, "picker")
  /\ pendingPick[d] \/ (~pendingScan[d] /\ device[d] # "linked" /\ deviceHold[d])
  /\ doing' = Swap(d, {}, {"picker"}) /\ pendingPick' = Set(pendingPick, d, FALSE)
  /\ UNCHANGED <<holdState, deviceHold, scanHold, device, waiting, scanState, loose>>

\* ... or asks for it.
ClickIdle(d) ==
  /\ ~pendingPick[d] /\ ~pendingScan[d] /\ device[d] # "linked" /\ ~deviceHold[d]
  /\ Call(d, "click") /\ Acquire(d, "click")

\* The hold goes, perhaps while a device is still linked or on its way.
DropDevice(d, still) ==
  deviceHold' = Set(deviceHold, d, FALSE) /\ Drop(d, Count(deviceHold[d])) /\ loose' = Loosen(d, "device", still)

\* The picker's device connects, or failPick: dismissed or failed.
Picked(d) ==
  /\ "picker" \in doing[d] /\ doing' = Swap(d, {"picker"}, {})
  /\ \/ Adopt(d) /\ UNCHANGED <<holdState, deviceHold, loose>>
     \/ /\ pendingPick' = Set(pendingPick, d, FALSE) /\ waiting' = Set(waiting, d, FALSE)
        /\ DropDevice(d, device[d] = "linked" \/ "remembered" \in doing[d]) /\ UNCHANGED device
  /\ UNCHANGED <<scanHold, scanState, calls>>

\* gattserverdisconnected: out of range, or the chip clicked while connected.
Disconnected(d) ==
  /\ device[d] = "linked" /\ device' = Set(device, d, "lost") /\ DropDevice(d, Picking(d))
  /\ UNCHANGED <<scanHold, pendingPick, waiting, scanState, doing, calls>>

----------------------------------------------------------------------------
(* The scan.                                                               *)

\* ble.scan on, parked on the chip.
Scan(d) ==
  /\ Call(d, "scan") /\ ~leScan[d]
  /\ \/ ~scanHold[d] /\ Acquire(d, "scan")
     \/ /\ scanHold[d] /\ pendingScan' = Set(pendingScan, d, TRUE)
        /\ UNCHANGED <<holdState, deviceHold, scanHold, pickState, leScan, hears, doing, loose>>

\* startScan: the click; the listener is on before the browser answers.
StartScan(d) ==
  /\ pendingScan[d] /\ ~pendingPick[d] /\ Call(d, "starting") /\ "stopped" \notin doing[d]
  /\ pendingScan' = Set(pendingScan, d, FALSE) /\ hears' = Set(hears, d, TRUE)
  /\ doing' = Swap(d, {}, {"starting"})
  /\ UNCHANGED <<holdState, deviceHold, scanHold, pickState, leScan, loose>>

\* stopScan, but for the hold; a scan that is starting is not told.
StopScan(d) ==
  /\ leScan' = Set(leScan, d, FALSE) /\ pendingScan' = Set(pendingScan, d, FALSE)
  /\ hears' = Set(hears, d, FALSE) /\ scanHold' = Set(scanHold, d, FALSE)

Told(d) == Swap(d, {"starting"}, IF "starting" \in doing[d] THEN {"stopped"} ELSE {})

\* The browser starts it, or refuses.
Scanning(d, how) ==
  /\ how \in doing[d] /\ doing' = Swap(d, {how}, {})
  /\ \/ /\ leScan' = Set(leScan, d, TRUE) /\ UNCHANGED <<holdState, scanHold, pendingScan, hears>>
        /\ loose' = Loosen(d, "scan", ~scanHold[d])
     \/ StopScan(d) /\ Drop(d, Count(scanHold[d])) /\ loose' = Fasten(d, "scan")
  /\ UNCHANGED <<deviceHold, pickState, calls>>

ScanOff(d) ==
  /\ calls < MaxCall /\ calls' = calls + 1
  /\ StopScan(d) /\ Drop(d, Count(scanHold[d])) /\ loose' = Fasten(d, "scan") /\ doing' = Told(d)
  /\ UNCHANGED <<deviceHold, pickState>>

\* ble.disconnect: the scan, the subscriptions, the link and the hold; what is
\* parked on the chip stays there.
Disconnect(d) ==
  /\ calls < MaxCall /\ calls' = calls + 1
  /\ StopScan(d) /\ doing' = Told(d)
  /\ device' = Set(device, d, "none") /\ deviceHold' = Set(deviceHold, d, FALSE)
  /\ Drop(d, Count(scanHold[d]) + Count(deviceHold[d]))
  /\ loose' = Set(loose, d, IF Picking(d) THEN {"device"} ELSE loose[d] \ {"scan"})
  /\ UNCHANGED <<pendingPick, waiting>>

\* The document closes; the browser takes back what it held.
DocCloses(d) ==
  /\ calls < MaxCall /\ calls' = calls + 1
  /\ locks' = IF locks = d THEN "none" ELSE locks
  /\ refs' = Set(refs, d, 0) /\ device' = Set(device, d, "none")
  /\ deviceHold' = Set(deviceHold, d, FALSE) /\ StopScan(d)
  /\ pendingPick' = Set(pendingPick, d, FALSE) /\ waiting' = Set(waiting, d, FALSE)
  /\ doing' = Set(doing, d, {}) /\ loose' = Set(loose, d, {})

----------------------------------------------------------------------------
RadioNext == \E d \in Docs :
  \/ Connect(d) \/ Remembered(d) \/ OpenPicker(d) \/ ClickIdle(d) \/ Picked(d) \/ Disconnected(d)
  \/ Scan(d) \/ StartScan(d) \/ ScanOff(d) \/ Disconnect(d) \/ DocCloses(d)
  \/ \E op \in Asking : Granted(d, op) \/ Busy(d, op)
  \/ \E how \in {"starting", "stopped"} : Scanning(d, how)

RadioSpec == RadioInit /\ [][RadioNext]_radioVars

----------------------------------------------------------------------------
\* What uses the radio holds it, whatever the calls, clicks, refusals and closed
\* tabs in between, so two machines never do; but for a device that is adopted, or
\* kept, after a disconnect, a picker's failure or a lost link dropped the hold
\* while a pick was on its way, and a scan the browser starts after its stop.
UseIsHeld ==
  \A d \in Docs :
    /\ device[d] = "linked" => deviceHold[d] \/ "device" \in loose[d]
    /\ leScan[d] => scanHold[d] \/ "scan" \in loose[d]

\* The count is the references there are: none leaks, so the last release gives
\* the radio back, and none is dropped twice, so a sibling's is not taken.
RefsExact ==
  \A d \in Docs :
    /\ refs[d] = Count(deviceHold[d]) + Count(scanHold[d])
    /\ refs[d] > 0 <=> locks = d

\* A reference goes back to the origin when nothing is left to use it.
GivenBack ==
  \A d \in Docs :
    /\ deviceHold[d] => device[d] = "linked" \/ Picking(d)
    /\ scanHold[d] => leScan[d] \/ pendingScan[d] \/ {"starting", "stopped"} \cap doing[d] # {}

\* A call that awaits a pick has a chip to click or an open picker to answer it.
Answerable == \A d \in Docs : waiting[d] => pendingPick[d] \/ "picker" \in doing[d]

\* The radio goes round: used under its lock, counted right, given back when
\* nobody is at it, and whoever waits for a pick can get one.
RadioTrue == UseIsHeld /\ RefsExact /\ GivenBack /\ Answerable
=============================================================================
