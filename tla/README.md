# vinx in TLA+

vinx is a Linux machine in a browser tab. A page runs the emulator; inside it a
guest runs apps. Around the machine the page keeps a desktop of windows, a mirror
of the guest's `/data`, a network bridge to other tabs, and an agent: an engine in
a worker that works in the machine on a person's behalf. These modules model that
machinery from its source, TLC checks them on small instances, and TLAPS proves
some of the results for every instance.

    worker (Rust, TS)         page (TypeScript)                 |   guest (C)
                                                                |
    engine: turns, tools  <-> client, shim, toolbox             |
            approvals         VinxVm: boot, power, shell        |
                              callers -> RpcLink  == ttyS3 ==>  |  rpcd wire <-> rpcd router <-> clients
                              (rpc.ts, hostcall.ts) <== ttyS3 = |      |             |       rund: jobs, services
                              windows, consoles                 |      |             |
                              TtyBody <-> StreamMux == ttyS1 => |  rpcd streams -> PTYs       apps
                              share mirror (IndexedDB) == 9p => |  /data
                              host mounts, radio, bridge        |
                                   |                            |
                              other tabs of the origin, relays, other origins

Two serial ports carry it: `ttyS3` is the *control link* (JSON-RPC frames),
`ttyS1` the *stream lane* (terminal bytes). In the guest, `rpcd` is the
switchboard between the page and local clients, and `rund` runs jobs and
supervises apps.

## 1. The system: an inventory

Sources are under `src/`; `V` stands for
`src/linux/external/package/vinx-rpc/src`, `W` for `src/web/app`, `R` for
`src/web/runtime/src`, `C` for `src/web/crates/agent-web-core/src`.

| part | state it keeps | operations | what is hard | what makes it correct | module |
|---|---|---|---|---|---|
| control link, page half (`W/rpc.ts`) | session token, one frame in flight, send queue, pending calls, served requests | attach, detach, call, abort, notify, receive; retransmit, hello, call and serve timers | lost frames and ACKs, sessions replaced under calls, timers racing answers, full queue | calls settle once and truthfully; answers stay in their session; no frame overtakes | `RpcLink`, `ControlLink`, `CallSpec` |
| control link, guest half (`V/rpcd.c`, `V/wire.c`) | active session, rx/tx sequence, its part of the pending table | hello, dispatch, reply, sweep; dying and being respawned | duplicates after a lost ACK, replay of hello, loss of memory | dispatch at most once and in order | `RpcdWire`, `ControlLink` |
| rpcd router (`V/rpcd.c`) | client slots, pending table, per-client counts, registered methods | accept, drop, serve, request, cancel, response, sweep, session change | slots reused while calls name them, five caps, anyone leaving at any time | one answer each, to the asker; exact counts; executors told | `Rpcd` |
| rpcd events (`V/rpcd.c`) | subscriptions, backlog and dropped count per listener | watch, emit, tick | a slow listener, a new session, a reused slot | nothing lost untold, gap before newer events | `RpcdEvents` |
| rpcd byte queues (`V/rpcd.c`) | buffer length, written offset | push, flush, pump a PTY | a reader slower than the writer | bounded backlog | `OutQueue` |
| terminals (`W/stream-mux.ts`, `V/rpcd.c`, `V/mux.c`) | channels with window and queue, link budget; streams with PTY queue and credit owed | open, type, credit, close on either side, session change | two unordered lines, credits crossing closes and new sessions | credit conserved, no overrun, no window without a stream | `StreamLane` |
| rund services (`V/rund.c`) | slot per app, pid and state files | app.start, app.stop, reap, sweep, adopt | crashes, backoff, edits of the enable list, rund's own death | no process unwatched, stopped stays stopped, enabled apps run | `RundServices` |
| rund jobs and shells (`V/rund.c`) | slot per job with buffer and flags, slot per shell | proc.run, rpc.cancel, timeout, read, collect, proc.pty | processes that fork, fall silent, leave the group; cancel, timeout and loss of the socket crossing | one true answer each; nothing runs unknown; a job ends | `RundJobs` |
| apps and their windows (`W/window-manager.ts`, `V/rund.c`, `V/rpcd.c`) | windows, streams, notices and events on the link | start, crash, stop, close, loss of a session | an app ends while its notices cross with a new session | a window shows what runs; a closed app does not go on | `AppWindows` |
| window table (`W/window-manager.ts`) | windows, stacking numbers | open, raise, close, renumber | the counter runs into its ceiling | windows lie in the order they were raised | `Windows` |
| machine lifecycle (`W/vm.ts`, `machine-power.ts`) | boot phase, power, link, needs that wait | boot, stop, power off, fail, retry | awaits that outlive the machine they began in | a boot is fresh; a machine left off stays off | `VmLifecycle` |
| around a boot (`W/vm.ts`, `footer-chips.tsx`) | the bar, the audio graph and knob, the serial port | report progress, splice, attach, detach | reports out of turn, machines replaced | the bar never goes back; one port is wired | `Gear` |
| commands (`W/vm.ts`) | scripts, outputs and modes in `/data` | runShell, output refs, rewriting a file | the machine goes at any await | nothing is left behind, nothing is lost | `RunShell` |
| share mirror (`W/share-store.ts`, `share-diff.ts`) | rows in IndexedDB, fingerprints, inboxes of announcements | snapshot, replay, claim, announce, power-off | awaits between list, read and write; sibling pages | rows are lost only on purpose; the shared tier converges | `ShareMirror` |
| apps and packages (`W/vm-apps.ts`, `app-install.ts`, `app-autostart.ts`, `enabled-list.ts`, `bundled-apps.ts`) | files under `/data/apps`, two lists | install, remove, enable, seed | whole-file edits while the machine boots or replays | apps are what was last asked for | `Apps` |
| markets (`R/shim.ts`, `R/device.ts`) | cached indexes, parked packages | index, download, check, park, install | a repository that goes on publishing | what is installed is what the index named | `Market` |
| host mounts (`W/host-mount.ts`) | fingerprints of both sides, synced hashes | sweep disk, sweep guest, push, delete | disk and guest edit one file in a sweep | no write bounces back | `HostMount` |
| radio (`W/ble.ts`, `origin-broker.ts`) | the origin's lock, reference counts | connect, pick, scan, release | calls and clicks of several documents | who uses the radio holds it, each reference counted once, given back | `Radio` |
| network bridge (`W/net-bridge.ts`, `bridge-ctl.ts`, `nostr-signal.ts`) | rooms, ports, learned addresses, roster, relay sockets | host, join, invite, switch, chat, publish, reconnect | two tabs opening, members that rejoin, relays that drop | one bridge per origin, no loops, one roster, no relay forgotten | `BridgeRooms`, `BridgeHost`, `BridgeSignal` |
| network panel (`W/net-panel.tsx`) | mode stored and running, addresses, probes, room | choose, save, probe, restart | verdicts that come late | what is shown is of what stands there | `NetPanel` |
| consoles (`W/terminal.tsx`, `vm-console.tsx`) | veil, waiting game, size | boot, resize | boots tried again | veil, game and size follow the machine | `Consoles` |
| screen (`W/vga-window.tsx`) | mode, pointer, keys held | open, size, point, press | a mode that changes under a pressed key | what is down in the guest is down in the hand | `Screen` |
| host calls (`W/hostcall.ts`) | staged and answered files, aborts, one console | http.fetch, web.*, js | caps, timers and cancels racing | answers say what was done | `HostFetch`, `HostCalls`, `PageScripts` |
| agent: worker and client (`R/worker.ts`, `R/client.ts`, `W/leaving.ts`) | pending calls, streams, attached views | boot, call, attach, tool call, error | a view attaches around a turn's start; the worker dies | views exact, calls settle | `AgentWorker` |
| agent: tools (`R/device-vm.ts`, `R/index.ts`) | relay files, toolbox, briefing | read, write, edit, mount | overlapping transfers; power flips | exact transfers; the last event wins | `DeviceTools`, `ToolFollow` |
| agent core (`C/host.rs`) | queue, steered messages, turn | send, steer, stop, fail | a turn ends while messages come | each message once | `TurnQueue` |
| approvals (`C/host.rs`, the engine's loop and tasks, `R/shim.ts`, `R/client.ts`) | who asks, the bar, answers under way | ask, answer, stop, leave and look again | sub-agents that ask together | a call runs on its own answer | `Confirms` |
| librpc, `rpc(1)`, jsonlite | a socket | call, emit, watch | - | - | not modelled |
| storage and model protocol of the engine, rest of the interface, guest image, sample programs, deployment | - | - | - | - | not modelled |

The hazards of this code, each at its line and with the properties that
would notice it, are in `PROJECT.json`.

## 2. Modules and how they correspond to the code

Variables and actions keep the names of the fields and functions they stand for,
where TLA+ allows it. An action is one handler or the stretch of one between two
`await`s; a state named after a step (`"lock"`, `"gather"`, `"park"`, ...) is where
such a function waits. Timers are actions enabled while the timer is armed, with
no bound on how late one fires. `PROJECT.json` maps each definition to its lines.

### The link and the daemons

**`RpcLink`** is class `RpcLink`, one action per entry point: `Attach`, `Detach`,
`Call`, `CallAborted`, `HandlerReturns`, `OnFrame` (the whole of `onFrame` and
what it calls), and one per timer. `Pump` is `pump`, and everything that ends in
`pump` in the code ends in `Pump` here. `epoch` is the session token: a fresh
token is the next number. A call's promise is `outcome`; `serves` are the
unanswered served requests, and `running` keeps handlers that have not returned
though their request was already answered, which is what the latch is for.

**`RpcdWire`** is rpcd as the wire sees it: `HandleFrame` is `handle_frame` with
`handle_hello` and `dispatch`. `Restart` is rpcd's death: its memory is gone, unread
bytes towards it are flushed, and the page may have any prefix of what it wrote.
**`ControlLink`** puts both on lossy lanes.

**`CallSpec`** is the abstract promise of `RpcLink.call`: a call is given to the
guest at most once, has one outcome, and is a "result" only if the guest was
given it. `ControlLink` implements it: the property `CallsKeepThePromise`
maps `outcome` to itself and `runs[c]` to the number of times call `c` occurs
among the dispatched frames.

**`Rpcd`** is the router. A *slot* is an index of `clients[]`; a *party* is one
connection or one session of the page. The code knows slots only; the
entries carry, as history, the parties they were made for, so that the properties
can tell an asker from whoever inherited its slot. **`RpcdEvents`** keeps, per
listener, its queue and ledger (`ev_backlog`, `ev_dropped`). **`OutQueue`** is
`struct outq` as the stream lane uses it, bytes counted.

**`StreamLane`** is the downward half of a terminal: `Send`, `Pump`, `OnCredit` of
`StreamMux`; `Open`, `BytesIn`, `Land`, `FlushCredits`, `Drop` of rpcd; and the
notifications in `up`, which carry the session they were sent in and are ignored
by a page in another one.

**`RundServices`** is the table of services, the pid and state files, and the
processes. `SweepWith` is one whole `sweep_services`. **`RundJobs`** is the same program as the runner of
commands, with its own view of the socket; `ProcessesAsTold`, what both halves promise, is said there. `jobs`
are the slots, `Read` is `job_read` with the `job_finish` it ends in, `wait` the job whose `waitpid` rund sits in, `Leave` and `FreeJobs` are `kill_all_jobs`. Around it a job's processes write,
fork, close their output, leave the group and end as they like. **`AppWindows`** takes rund,
rpcd's streams and the page's window table together, each reduced to what concerns an
app and its window, with the lines between them: a notice is on its way for some
time, what was written in an old session is dropped, an event may be lost in a gap.

### The machine and what hangs on it

**`VmLifecycle`** numbers the calls of `start()`; each awaits the import, the guest's
DTR, the link's hello and a probe, and reads the machine's fields again after each.
`StopBoot`, `PowerOff`, `Fail` and `DeadlinePasses` come at any await, and a boot may begin while a stopped one has not noticed. **`Gear`** has the
progress of the boot's downloads, the gain node spliced into the emulator's audio
and the serial port; **`RunShell`** the scripts and outputs a command leaves in
`/data` until they are swept, rund's job (`JobStarts`, `JobEnds`) and the page's call being two things, of which either may outlive the other; **`Consoles`** the veil over a booting console and the
sizes told to the guest; **`Screen`** the VGA window, its keys and its pointer, along
one axis.

**`ShareMirror`** splits a snapshot round at its awaits (`SnapList`, `SnapNames`,
`SnapRead`, `SnapCommit`, `SnapTell`), and likewise a replay and the writers of the page.
`Hear*` and `Apply` are what a page does with a sibling's announcement. **`Apps`** edits
two lists and a tree of packages, in the mirror while the machine is off and in the
live tree while it runs. **`Market`** is a package's way in: `Index`, `AppEntry`,
`AppDownload` with its digest, `Park`, `Install`.

**`HostMount`** is one loop that sweeps the disk and every so often the guest, with
`synced` the hash of what was last synced; `own` is history, what programs of the guest wrote.
**`Windows`** has the stacking counter, with `Renumber`. **`Radio`** is the origin's lock and
the per-document counts, and each step of connecting, picking and scanning by itself, all of them crossing as they may.

### The bridge

**`BridgeRooms`** numbers the rooms opened by the pages of one origin. `Open` is what
`hostRoom`, `joinRoom`, `manualInvite` and `manualAnswer` do before their first await:
stop the active room. `TryLock`, `Beat`, `Refused` are the lock with its second try,
`LockMissing` the two ways round it (no `navigator.locks`, a rejected request), `Freed` the lock manager. **`BridgeHost`** is what the host of a LAN runs: the learning switch
with the hub of its own origin, and the control channels, the roster and the chat (`SwitchSpec`, `RosterSpec`);
**`BridgeSignal`** the subscription kept at several relays with reconnection and the
deduplication of what they bring. **`NetPanel`** is the settings in front of it.

### The agent

**`AgentWorker`** has the ordered port both ways, `Boot` and its failure, calls that wait
for `ready`, streams that attach with a snapshot, tool calls coming back to the page, and
the guard that asks before a page with a running turn is left. **`TurnQueue`** is one
session's queue: `StartTurn`, `Park`, `Steer`, `Interrupt`, `Cancel`, and how a turn ends (`Finish`, `Fail`).
**`Confirms`** is the asking before a call runs: `Route` finds whose channel an answer goes into, `bar` is what
the page shows, `saving` an answer whose directory is first being allowed. **`ToolFollow`**
chains installs and removals of the toolbox; **`DeviceTools`** transfers files directly or
through a relay file and a shell command, which may be refused, killed, break off or go on when nobody waits for it; **`PageScripts`** is the console that overlapping scripts share;
**`HostFetch`** is the guest's fetches; **`HostCalls`** extends it with whatever else the guest asks of the page.

### How the parts are composed and checked

`ControlLink` composes the two ends of the link, `AppWindows` three programs over it.
Parts that share no state are put side by side in one `MC` module under a variable `part`
that picks one of them for a behaviour: the state space is the sum of theirs, not the
product, and the others stay in their initial state. `MCServes`, `MCLive`, `MCDaemon`,
`MCAgent` and `MCPage` do so; each conjoins the assumptions of the modules it
composes. Each extends the modules it composes, so that theorem and run speak of the same definition; `MCDaemon` instantiates `RundJobs` once more, with one slot. Definitions whose comment begins "Mutant:" are variants of a definition
with a plausible bug; no specification uses them. They show that each property would notice.

## 3. What is checked

| run | parts and instance | what it shows |
|---|---|---|
| `control_link_calls` | 2 calls, 2 sessions, 1 respawn of rpcd, lanes of 1, a send queue of 2 | `InOrderAtMostOnce`: dispatch in order and at most once. `CallsKeepThePromise`: `CallSpec` implemented |
| `serves` | link: 2 requests of the guest, 2 sessions, a send queue of 5, which they cannot fill. Router: 3 ids, 2 slots for 3 connections, 2 sessions, every cap at 1 or 2. Faces: a web app, a terminal app and a shell, 2 windows, 2 runs, 1 lost session | `ServedExactly`: answers arrive in the session of their request, once, and none is forgotten. `RouterExact`: one answer each, exact counts, entries name parties, abandoned work is cancelled, one server per method; an answer longer than a frame is lost. `WindowsTrue`: windows and apps agree, or the word is on the way |
| `live` | link: 1 call, 2 sessions, 1 respawn, fairness. Events: a client and the page, backlog of 2, 4 events, 2 other lines; once more without other lines, fair | `EventuallyUp`: a calm link comes up. `EventsTold`: nothing vanishes or overtakes its gap, bounded. `GapIsTold` |
| `daemon` | lane: buffer 12, mark 4, frames to 2, kernel room 3. rund: a service and a command, 1 slot, 1 crash allowed, 2 processes each, 1 stop asked for, 1 death of rund. Jobs: 2 at once with 1 byte and 1 lost connection, 2 for one slot with 2 bytes, 1 of them past the cap; 2 shells for one slot | `BacklogBounded`. `ProcessesAsTold`: no process unwatched, stopped is stopped, each command answered once and truly. `RundKeepsUp`: enabled apps come up, jobs end |
| `terminals` | 2 terminals at once, 3 in all, 2 sessions, windows of 2 on a link of 3 | `LanesExact`: credit and link share conserved, no overrun, no window without a stream. `InFlightSettles` |
| `share_mirror` | 2 pages, one private file, 3 boots, 1 power-off, in the middle of a replay too, 1 death, 1 round over the quota | `WholeMeansReplayed`: whole is up and replayed, but after a power-off that overtook its replay. `RowsKept`: a row is lost only on purpose, a power-off stores what was written before it |
| `share_tier` | 2 pages, one shared file, 2 boots, guests and pages write and delete, 1 round that begins while the other page's news is on its way | `SharedConverges`: once the races are over announcements die out and both machines hold what the rows say |
| `agent` | 8 parts: the worker with a view, 2 turns, 2 frames, an error; 5 messages, 2 of them steered; 5 flips of the power; 2 file tools on 2 paths with a guest that writes and commands that fail in every way; 3 scripts, 3 lines, 4 runs; a turn with 2 sub-agents; a fetch of up to 3 chunks capped at 2; 2 other calls at once | `StreamExact`, `CallsSettle`; `EachOnce`; `LastEventWins`; `TransferExact`; `EveryLineHeard`; `ConsentTrue`; `CallsHonest` |
| `page` | 15 parts: a machine through 2 boots, in turn or side by side, with 2 needs; 2 pages and one radio; two mounted files, 2 edits; 3 windows over a band of 10; 2 apps, 3 edits; 2 commands, 2 jobs and 2 writers; 2 machines with 2 images; 2 packages, 2 requests, 2 versions; 2 panes, 4 acts; a console through 2 boots; a screen with one game; 2 rooms of 1 or 2 pages; a host and 2 other machines, one of which joins again; 2 members, 2 joins; 3 relays, 2 offers | `MachineTrue`: one emulator, a ready machine answers, a boot meets no earlier link; `StaysAsLeft`; `RadioTrue`: used under its lock, counted right, given back; `MountTrue`: no echo, and what is taken for known is the same on both sides; `StackTrue`; `AsAsked`; `RunsSwept`; `GearTrue`; `InstalledAsNamed`; `NetTrue`; `ConsolesTrue`; `ScreenTrue`; `BridgeTrue`: one bridge, its lock, what the guest reads; `HeardOnce`; `RostersAgree`; `SignalTrue`: offers once, no relay forgotten, nothing held when closed |
| `steer_order` | as `agent` | *violated*: see section 5, 1 |
| `cancel_at_once` | as `daemon`, `Early = TRUE` | *violated*: see section 5, 2 |
| `answer_again` | as `agent`, no sub-agents, 2 calls, `Once = FALSE` | *violated*: see section 5, 3 |

Each property is stated, with its reason, above its definition in the module. Some modules
state more than a run checks (`StopIsNoFailure`, `NeedsSettle`, `ChatOnce`, `NothingLost`,
`StopMeansStop`, `SurfaceTrue`, `EveryCallEnds`, ...); to check one, name it in the `.cfg`
of a run over its module.

**Bounds.** A constant whose comment begins "bound:" only makes the state space
finite; every other number is one of the code's own, scaled down. The instances are the
smallest in which each interesting thing happens and something comes after it: a second
session has a first to inherit from; a third connection reuses the slot of the first while
the second is there; the second process of an app is a restart; a second
boot meets the leavings of the first, or runs beside it; two rooms are two pages that try the lock, or one that opens
while it opens; a machine that joins again has two ports;
three relays leave one to be adopted late; a third window renumbers the
stack twice. In `Market` the package that leaves this runtime out is published no more, since no page
gets past its entry. `WireCap` and `MaxTx` bound only what a side sends of its own accord:
replies to a frame in hand are always sent. `Patient` of the link makes the page's timers fire only on an
idle wire, and is used for liveness alone, where a 2 s timer that keeps beating a UART
would use up the sessions; safety runs let timers fire at any moment.

Where larger instances were affordable once they were run by hand: the machine with 3 boots and no needs, 3 rooms
of 2 pages, `MaxRace = 3` for the shared tier without writers, and with two writers of one version.

**Exceptions.** In some corners the code does not keep its promise. The model goes into them like the code, and the property
says which state it then does not speak of, as narrowly as it can: by what is visible there (`ws[r] = "shut"`: a relay that dropped before it was
adopted), or by a history variable that notes the circumstance and nothing else. These are `stopped`, `abreast`, `abandoned` (`VmLifecycle`), `cut`
(`ShareMirror`), `loose` (`Radio`), `lost` (`HostMount`), `crossing` (`Apps`), `mixed` (`RunShell`), `crossed` (`Gear`), `after` (`Market`), `early`, `astray` (`Consoles`),
`unheard` (`Screen`), `bare`, `outOfTurn` (`BridgeRooms`), `severed` (`DeviceTools`), `overlong` (`Rpcd`). Nothing is guarded by them. Section 5 says of each what happens.

**Constants that switch a circumstance off.** Where the circumstance would leave nothing to say, a constant
names it; the runs have it off, and section 5 says what happens when it is on: `Legacy`, `Query` (`NetPanel`),
`Fails` (`ToolFollow`), `Once` (`Confirms`), `Early` (`RundJobs`: the liveness alone; its invariant is proved with it on).

A promise that something which is so will not stay so is written `[]<>~P`, which says what `P ~> ~P` says and is
cheaper to check.

`CHECK_DEADLOCK FALSE` is said where a bound may be used up and the system then
really has nothing to do.

**Fairness.** Weak fairness, for what the code's loops do without being asked, and no more.

- Link (`live`): both event loops take frames off the wire, armed timers fire. Frames may be
  lost at every moment, so `EventuallyUp` assumes that losses and failures cease
  (`Calm`), and exempts a page that was detached, a guest that speaks another
  protocol, and runs that used up the bounds.
- Events (`live`): a listener reads on and the main loop ticks after every poll. The part
  `"quiet"` has no other lines than events and gaps: with endless other traffic the queue
  need never run dry, and the gap is never told.
- Daemons (`daemon`): the lane's peer reads and `poll` reports it; init respawns rund, whose
  loop reaps and sweeps, reads the pipes of its jobs and finds their timers passed; a forked child gets
to its `setsid`. The exit of an app or a command is not fair.
- Terminals (`terminals`): both loops, rpcd's flush of credits, and an app that reads its terminal (`Land`).
- Mirror (`share_tier`): a promise that is awaited settles, messages of a `BroadcastChannel`
  are delivered. A round's listing is strongly fair: `MayRound` blinks while a writer of the page is at
  work, and a round is retried every few seconds for ever.
- Agent (`agent`): the worker and the page turn their event loops and the page answers tool calls.
  The model's answers are not fair: no turn need ever end.
- Machine (`page`): awaits of a boot end, each by itself or by its deadline; the property checked
  under it is a safety one.

## 4. What is proved

| theorem | says |
|---|---|
| `ControlLink_proofs!TypeCorrect` | `Spec => []TypeOK`: types, the bound of the send queue, the retransmit budget |
| `ControlLink_proofs!InOrder` | `Spec => []InOrderAtMostOnce` |
| `ControlLink_proofs!CallsRefine` | `Spec => CallsKeepThePromise`: the link implements `CallSpec`, step by step |
| `ControlLink_proofs!CallersAreToldTheTruth` | a result means the guest was given the call, a refusal that it was not |
| `ControlLink_proofs!AnswersMatch` | `Spec => []AnswersMatchRequests`: an answer is to a request of its session, one per request |
| `ControlLink_proofs!ServesExactly` | `Spec /\ []HasRoom => []ServedExactly`: and none is forgotten, as long as the send queue does not fill |
| `Rpcd_proofs!TypeCorrect`, `RouterKeepsItsWord` | `RouterSpec => []RouterTypeOK`, `[]RouterExact` |
| `Rpcd_proofs!WindowsFollowApps` | `FacesSpec => []WindowsTrue` of `AppWindows` |
| `Lanes_proofs!ListenersAreTold` | `EventsSpec => []EventsTold` |
| `Lanes_proofs!TerminalsKeepTheirBooks` | `Spec => []LanesExact` of `StreamLane` |
| `Rpcd_proofs!MuxBacklogBounded` | `Spec => []BacklogBounded` of `OutQueue`; with `QueueTypeCorrect` before it |
| `RundJobs!JobsAnsweredOnce`, `RundKeepsItsWord` | `JobsSpec => []JobsExact`, early cancels included; `ServicesSpec /\ JobsSpec => []ProcessesAsTold`: and the services keep their word |
| `Agent_proofs!ScriptsHearEveryLine` | `Spec => []EveryLineHeard` of `PageScripts` |
| `Agent_proofs!ToolboxFollowsPower` | `FollowSpec => []LastEventWins`, if the engine refuses nothing (`~Fails`) |
| `Agent_proofs!MessagesAreKept` | `TurnsSpec => []EachOnce` |
| `Agent_proofs!AnswersReachTheirCalls` | `ConfirmsSpec => []ConsentTrue` |
| `Agent_proofs!StreamsAreExact` | `WorkerSpec => []StreamExact` of `AgentWorker` |
| `Agent_proofs!ToolsTransferExactly` | `ToolsSpec => []TransferExact` of `DeviceTools` |
| `Agent_proofs!HostKeepsItsWord` | `FetchSpec /\ AskSpec => []CallsHonest` of `HostCalls`: of the guest's fetches and of its other calls |
| `Page_proofs!MarketKeepsItsWord` | `MarketSpec => []InstalledAsNamed` |
| `Origin_proofs!OneBridgePerOrigin` | `Spec => []BridgeTrue` of `BridgeRooms` |
| `Origin_proofs!OneRadioPerOrigin` | `RadioSpec => []RadioTrue` |
| `Page_proofs!OneMachineAtATime` | `VmSpec => []MachineTrue` |
| `Page_proofs!MachineStaysAsLeft`, `StopIsNotAFailure` | `VmSpec => StaysAsLeft`, `VmSpec => StopIsNoFailure`: both are action properties |
| `Page_proofs!WindowsLieAsRaised` | `WindowsSpec => []StackTrue` |
| `Page_proofs!ShellKeepsItsWord` | `ShellSpec => []RunsSwept` |
| `Origin_proofs!SwitchKeepsItsWord`, `RosterKeepsItsWord` | `SwitchSpec => []HeardOnce`, `RosterSpec => []RostersAgree` |
| `Origin_proofs!SignalKeepsItsWord` | `SignalSpec => []SignalTrue` |
| `Origin_proofs!NetKeepsItsWord` | `NetSpec => []NetTrue`, if the address names no relay and no mode of an older page is stored (`~Legacy`, `Query = "none"`) |
| `Page_proofs!AppsKeepTheirWord` | `AppsSpec => []AsAsked` |
| `Page_proofs!ConsolesKeepTheirWord` | `ConsolesSpec => []ConsolesTrue` |
| `Page_proofs!GearKeepsItsWord` | `GearSpec => []GearTrue` |
| `Page_proofs!ScreenKeepsItsWord` | `ScreenSpec => []ScreenTrue` |
| `ShareMirror_proofs!MountKeepsItsWord` | `MountSpec => []MountTrue` |
| `ShareMirror_proofs!WholeIsReplayed`, `OwnersRowsAreKept` | `Spec => []WholeMeansReplayed`, `Spec => RowsKept` |
| `ShareMirror_proofs!OwnersRowsAreTheirs` | `Spec => RowsAreTheOwners`: no private row comes from a page without the claim |

They hold for all values of the constants that satisfy the modules' assumptions, so
without the bounds TLC needs: any number of sessions, calls, connections, listeners, terminals and
bytes, any size of buffer, any number of scripts, power events, messages, sub-agents, answers, views, frames, tool calls, calls of the guest, requests, versions, pages, rooms, documents, boots, apps, deaths of rund,
windows, commands, machines on the LAN, joins, relays, edits, consoles, ports, panes, games and files. The conditions the table still names are not a convenience: with any of them off, TLC violates the property (section 5).

*Types of the link.* `TypeOK` alone is not inductive: a frame is built with the
current `epoch`, which is a session number only if a session ever began. `Types`
adds `SessionExists`. There is one lemma per handler, after one on `Pump`.

*Order.* The inductive invariant adds where frames can be: `SenderInv` (the frame in flight
is the last one numbered, and hello alone has number 0), `LaneInv` (frames in the lane do not
decrease and are no newer than the sender's counter; equal ones are retransmits) and
`DeliveredInv` (no frame in the lane is older than one dispatched, and in an active session
`rxSeq` is an upper bound of what was dispatched). A step of the page leaves the lane alone
(`Quiet`) or appends one frame with a number at least as high (`Sends`); a step of the guest
takes the head. `DeliveredInv` is why a respawned rpcd, which forgot `rxSeq`, is harmless: it
dispatches nothing before a hello, and frames behind a hello are of a new session or were
never dispatched.

*Calls and answers of the link.* The order invariant speaks of frames; what is proved here is about what they say.
`TrailInv` follows a body from `send` to its dispatch: one that is said once (a call, an answer)
is in one place of the queue, or in frames of one session and one number, so that retransmits do
not make two of it. `CallInv` adds that a call on its way was accepted and a response on its way is to a call
the guest was given; `ServeInv` that a request is on its way, being served or answered, in the session
it was made in. Every action of the link is then one step of `CallSpec` or a stutter, with `runs[c]` the number of
times `c` was dispatched. `ServedExactly` says moreover that what was accepted is served or answered, which `respond`
breaks when the queue is full: hence `HasRoom`.

*Router.* `RouterExact` is part of its own invariant: a count is right because an entry names its party, an entry
names its party because a slot's next tenant finds nothing of the last one's (`OneAnswerEach`, `drop_client`). `RouterInv` adds
that connections are not numbered twice, that an entry's asker and executor hold slots unless it was struck out,
that a party yet to come is owed nothing, and that an id whose answer was too long for the wire is spent (`OverlongSpent`). Counts are sizes of sets of entries, so that a step changes one by one element.

*Apps and windows.* `WindowsTrue` says of each pair that it agrees or that a notice is coming; what makes it inductive is the order of
the notices. Behind the notice that a terminal opened is the terminal or the notice that it closed (`OpenedTrue`), behind the one
of a run's begin is its end, unless it goes on or nobody could note the end (`BornTrue`); and no notice, bundle or window is of a later run
of an app than the one whose end is still to be told (`ExitedTrue`), which is why `markExited`, which goes by the app alone, marks no
window of a run that goes on. `Numbered` keeps runs apart, `LineEmpty` says that a lost session left nothing behind. A desktop
that was full, an end nobody noted and a stop the link lost are the cases `WindowsTrue` names, and there are no others.

*Events.* `Ledger` relates what was queued for a listener to what it knows: the queue's events rise, a gap is its first word, and
every event between the last one known and the last one emitted is in the queue or in that gap (`Covered`), unless `dropped` still counts it.

*Terminals.* `Books`: what a window has in flight is what is on the line, in rpcd's buffer, owed as credit and on its way up as
credit of this session. `Unused`: nothing was sent on a stream before its window mounted, and numbers not given yet
are clean. `Shown`: a window, or the word that it opens, is of a stream that rpcd has, or the word that it closed is behind it.
`Whole`: the link's count is the sum over the windows. Sums are sizes of sets (`Units`), so that lemmas on
cardinality replace induction over a sequence.

*Queue.* `BacklogBounded` needs `off <= len` from `TypeOK`.

*Jobs.* `JobsExact` is an invariant with what it says of jobs that are still under way: `Ledger` (no more is
kept and counted than was written, and nothing is counted before the buffer is full) and `Stage` (a call with a slot
came in the present connection and has no answer; rund waits only for a job whose pipe is closed and read out). `TakenExact`
is the arithmetic of `job_read`. Whatever kills, forks or falls silent is one of two lemmas.

*Services.* `ServicesInv` takes an app by itself (`SlotTrue`): its processes are the one its slot names, or its pid file while rund is dead; slot
and file agree; a slot that is not used is blank; the state file follows the slot, and with no pid on file it never says that the app runs, which
is what the next rund relies on. `EveryProcessWatched` needs this for the dead rund's apps, and `StoppedMeansStopped` that an app called stopped keeps its
slot and `manual_stop` (`ToldTrue`). `SpawnKeeps` is what a start by hand and the sweep share: whoever is started had nothing running, and
a slot is given up only for an app without a process.

*Scripts.* `ConsoleInv`: the sinks are those of the scripts in flight, and the console is
put aside exactly while there is one. `EveryLineHeard` alone does not say that a wrapped
console still has something to give back.

*Toolbox.* `LastEventWins` speaks of a chain with nothing left to do. `FollowInv` says what holds on the way: at each stage, what
`followPower` believes against what the engine has (`Believed`); that the last link queued, or what is installed when none is, is the
power there is (`LastIsPower`); and that links are counted, so that the page is not mounted before the first was told (`Counted`).

*Messages.* `QueueInv` takes the places one by one: a message is in each of them once at most and in one of them only, and together they
hold what was accepted. How a turn ends is one lemma (`DrainKeeps`), on what goes on waiting and what is given up; what
appending, removing, reversing and joining do to a sequence without repetitions are the others.

*Approvals.* `ConsentInv` has what is in the channels (`AnswersTrue`: denials, and answers that were late, so that what a call takes
without waiting strays only late), where the agents are (`AgentsTrue`: the sub-agent that asks has the permit, and while one lives the parent is
in its batch), and what is said of whom (`IdsTrue`): frames, bars, answers and clicks name calls that were presented, so that the call about
to be presented was never answered (`Old`). `AskTrue` then follows a call that waits: its request is the last of the turn's frames, so that whoever attaches
ends with its bar (`LastBar`), or it was answered and the answer is in `saving` or on its way. That `Route` finds the
waiting agent is the step of `OnConfirm`. Steps that publish a frame, that publish nothing, that read a message and that
post one are a lemma each.

*Streams.* `StreamExact` speaks of a view with nothing left on its port. `ViewTrue` says what holds on the way: an attach is asked for once;
until it was served nothing comes for the view and it has shown nothing, whatever turns run meanwhile; and from then on what was shown and what is on the port
add up to the engine's count. A sum over a sequence would need induction; `Counts` says instead that there is a running count, one
number per prefix, which goes up by what a frame says and stays put over the rest. A message taken, a message
added and one sequence after another are a lemma each, with the running count as witness; `EngineFrames` is that `SetToSeq` has each stream's frame once.

*File tools.* `InHand` follows the text of a call through its steps: what it has staged, in hand or written, and what the relay under its own name holds.
`Sees` says that what was read is among the texts the file had during the call, a history that only grows. `OneCallMoves`
and `FileMoves` share out the actions: a call goes on and no file moves, or one file moves and every call may see it.

*Calls of the guest.* A fetch is taken by itself (`FetchTrue`): what was read so far is within the cap, and said to be cut exactly if there was more; once
it is being written the body is whole. For the other calls `NumbersApart` keeps numbers, and so names of results, apart;
`DeedsTrue` counts at each step how often the call did what it asks; `NamelessTrue` has this machine's nameless
windows under numbers already given, which is why a new one takes over none of them.

*Markets.* `MarketInv` follows a request from its entry to its answer (`Sound`: past the
download an app with a digest has the bytes its entry named, and nothing foreign is past the
entry). What is installed is read from the park and not from the request: `ParkFits` says that whatever is parked under a name, by whichever
request, is good for that name, and `OwnPark` that it is the claimant's own, or nothing, until another parks there. Nearly every step is an instance of two lemmas, on a request that
moves on and one that is answered.

*Rooms.* `BridgeTrue` speaks of rooms on the LAN and of the lock. `RoomsInv` adds, for a page that did one thing at a time, that it
has one room opening at a time (`OneOpening`), that a room which lives is its page's
active one, except a host room until its relay has taken the subscription (`ActiveTrue`), and
that a page with a live room which took the lock holds it (`LockTrue`); and for every page that a lock it holds has a room that lives, since `Teardown` gives back the page's lock
whichever room it tears down. For a page in turn `ActiveTrue` is what makes that harmless: the room that goes down is
then the only one alive. `AskedInOrder` makes the next room's number unused.

*Radio.* `RadioInv` says of each document, by itself, that its count is the sum of its two long holds, that the lock is its own
exactly while that is positive (`Counted`), and which uses, and which steps on their way to one, have a hold and the other way round (`Used`). A document may be
in several steps at once (`doing`); the only way out of `Used` is a hold dropped while something was on its way, which `loose` notes. A lemma says
that a step of one document leaves the others' part alone.

*Machine.* What `start()` finds in the machine's fields after each await is what `VmInv` is about. `SideBySide`: of two boots under way both are known to have
crossed, so that what is said of the others speaks of one boot. `UnderWayTrue`: such a boot is the
machine's, with the emulator and link it has made so far, or the machine was switched off since. `LinksTrue`: an attached link is the machine's, of a boot that failed, or of one that crossed another.
`BegunInOrder` makes the next boot's number unused. Both action properties follow in one step.

*Windows.* The history `above` has the pairs of windows whose order is settled. `WindowsInv` adds that every window lies under the next
number, so that a raise puts its window on top. `Renumber` counts the windows below one, which keeps their order because the windows below the lower of two are
a proper subset of those below the upper one; its numbers fit because the cap and the page's own windows leave
room in the band (`TableFits`).

*Commands.* `ShellInv` says of each command, and of its job in the guest, what may still lie in `/data` at its step (`Swept`): nothing before it was asked, an output only
once the job ended with one; no script once the call is over, and an output then only if the answer names it or the reply came to nobody. The modes are as meant
unless a rewrite has a file in hand, and then that rewrite, if nothing met it, knows what it read (`ModeInHand`).

*Edits of `/data/apps`.* An edit reads a list, waits, and writes it back, while others do the same and the machine may be switched on or off in between. `AppTrue` takes an app that crossed
nothing by itself: in the tree, the rows and the replay under way each of its lines is as asked, or an edit that holds it is about to write it
(`TreeTrue`, `RowTrue`, `ReplayTrue`), and what that edit read is what there was (`ReadTrue`). `crossing` notes an app the moment one of these would break, which is what the
proof of each step checks.

*Console, gear, screen.* What is on its way ends as it should: the last `stty` under way is of the terminal's width, unless it failed or was overtaken (`WidthTrue`); "kernel" with a report means that this boot's kernel prints, not the last one's (`VeilTrue`). A sound graph is the machine's own and
was not there before it was up; ports that open together, or over another, are crossed, and so is the one that loses its place (`PortTrue`). `NearTrue`: the cursor, with the travel that was
not sent yet, is as near the hand as the last anchor put it, by the arithmetic of one step; `HeldTrue` says that what is down in the guest is held over a panel that hears, or went out of its hearing.

*Network panel.* Every probe in flight has a number no higher than the panel's, and the one with that number is of the address in the box (`Verified`); so a verdict that
comes late is dropped or true. Whatever shows a room hangs on a machine whose network was made in the browser (`WiredTrue`), for as long as no pane is restarted.

*Switch, roster, channel.* That nobody hears a frame twice is a matter of seats: a machine that joins again leaves its old port
standing until the host drops it, but has one live seat (`OneSeat`), and a frame is at any time on the hub, on one machine's way up or on the
ways down to machines that have not heard it (`HubTrue`, `UpTrue`, `DownTrue`). `RosterInv`: the last roster in a member's
channel, or what the member shows when there is none, is the host's (`EndsIn`). `SignalInv`: until the first relay answered nothing
is adopted or retried (`Dialled`), and an event reaches the listener after it was met, and once (`MetOnce`).

*Mounted folder.* `MountTrue` says the disk gets nothing that came from it, and that what is known on both sides is the same. `Ringless`: what lies in the guest and no program of it wrote is what was synced
last, or a sweep has its replacement in hand, or lost it; and a content in hand was either synced in this sweep or written by the guest. So a guest sweep
that finds a file moved by the loop's own push finds the hash it knows. `Known`: what a side is known by is what was synced, unless that is in hand or lost; stamps, which only grow (`Stamped`), make this so.

*Mirror.* `MirrorInv` compares, for the page that has the claim, each private row with the tree, at each stage of a round (`Row`). A file
the tree lacks and the mirror has is in the replay still, was removed on purpose, or a writer is at it (`RowTrue`); that is why a listing that
lacks it may remove the row. A fingerprint means that row and file agree, unless the file moved since the listing
(`ListTrue`, `NamesTrue`); what a round has read, or had no need to, is either stored or equal, so that after its commit every
name that did not move agrees with its row (`ReadTrue`, `TellTrue`), and a final round carries this to the
destroy through what was `still` since the press. Pages without the claim are `Apart`: no private name is
in their rounds or plans (`PlanTrue`). `Compose` reduces each action to the page it is of; the lemmas `TreeStep`, `RoundStep` and
`RoundEnds` treat alike the actions that put a file, that go on in a round and that end one. The set of shared names is finite,
as announcements are sent one by one.

Only model-checked: all liveness (`EventuallyUp`, `GapIsTold`, `RundKeepsUp`, `InFlightSettles`, `SharedConverges`, `CallsSettle`; fairness and `ENABLED` are beyond
the prover). Every safety invariant and every action property of the passing runs is proved.
What a fold computes for every sequence or set needs induction over data, also beyond
the prover. No module declares a RECURSIVE operator.

## 5. Where the code and its own words disagree

Three disagreements have a run that shows them:

1. `steer_order`. `C/host.rs:1955` puts each requeued steer of a failed turn at the front of
   the queue, so two of them run in reverse, against "the order the user typed it in"
   (`src/web/vendor/engine/agent_loop.rs:242`).
2. `cancel_at_once`. `job_cancel` (`V/rund.c:486`) kills the group of a child that has not called
   `setsid` yet: there is none, nothing dies, and the flag it sets also disarms the timeout. That is so when rund, after a wait,
   reads a request and its cancel in one go. rpcd cancels again at the call's deadline, and never
   if the session is gone (`V/rpcd.c:845`). Against "the process group dies and the reply is a CANCELLED error" (`rund.c:22`).
3. `answer_again`. `C/host.rs:974` puts an answer that names no presented sub-agent into the
   parent's channel, whatever call it names. A bar that comes back with a stream, answered twice, decides the
   next call, against "it decides who the answer belongs to" (`R/client.ts:478`).

The others were met while modelling. The modules have the behaviour; where a history variable, a constant or a
definition singles it out, it is named.

On the link and in the guest:

- `W/rpc.ts:1040`: `respond` ignores that `enqueue` refused. With a full send queue an accepted
  request is never answered, against "answered exactly once" (`rpc.ts:39`): run `serves` with `MAX_SEND_QUEUE = 2`.
- While the page is `unavailable` it goes on accepting requests of the dead session (`rpc.ts:837`),
  runs their handlers and drops the answers.
- `rpc.ts:32` calls the guest's sequence numbers "for diagnosis only", but `rpc.ts:852`
  drops what does not exceed the last one. After a carrier drop, rpcd opens a session anew under
  the same token and counts from 1: its reply to the resent hello can be taken for a duplicate.
- `V/rpcd.c:567`: `stream_pump_out` ignores that `outq_push` refused, and `outq_push` measures
  bytes since the queue was last empty. Under a flood output already read from the PTY is lost
  (`OutQueue!NothingLost`). By the same count a client that reads, but never lets its queue run empty, is
  shut down as gone (`rpcd.c:272`).
- `W/stream-mux.ts:130`: room on the link that one channel gives back is not offered to others
  (`StreamLane!QueueWaitsForCredit`, with `MUX_LINK_WINDOW = 2`). A paste longer than
  `CHANNEL_QUEUE_MAX` into an idle terminal is dropped whole (`stream-mux.ts:139`; line 22 expects it to lose "its tail").
- `V/rund.c:805`: one `stop_reply` per app, so a second `app.stop` of a stopping app takes the
  first one's answer (`RundServices!OwedIsRemembered`, with `MaxAsk = 2`).
- `manual_stop` is "no autostart this boot" (`rund.c:128`), but a stop of an app without a slot
  notes nothing, and a respawned rund has forgotten it. Likewise an enabled command runs
  "once per boot" (`rund.c:1087`), and again after a respawn that finds it ended.
- `app.start` of the ninth app is refused with "app stop one first" (`rund.c:755`), but a stopped
  app keeps its slot until its package is removed.
- `V/rund.c:391`: at the end of a job's output rund waits for its leader, so a command that closes its output and
  goes on stops all of rund, services included, and its own timeout. A process that left the group and keeps the pipe
  holds the slot past the timeout (`RundJobs!Stuck`).
- `AppWindows!DeadSaySo`: `app.exited` may be dropped with a gap, lost with its session, or overtake
  a `window.create` that is being read; the window is then never marked, against "a dead backend says
  so in its window's title". An `app.stop` of a closed window is lost with its session or refused
  while the link is down. An enabled terminal app that the sweep starts has no terminal. A child an app leaves behind
  keeps its terminal open after its window is closed.
- `V/rpcd.c:248` drops a frame over 4096 bytes without a word, after `route_response` has struck the call out (`rpcd.c:1131`): an answer of
  that length to the page is lost and its call ends by the page's own deadline (`overlong`). Between two clients, or to rund, length does not matter.
- An app named `web-1` has the id of the first nameless window.

Around the machine:

- `W/vm.ts:656`: a boot that fails after its link was attached leaves the link (`abandoned`), which goes on
  knocking at the retry's guest; the two may take the session from each other (`ReadyAnswers`), against "A retry after 'failed' is a fresh
  boot" (`vm.ts:619`).
- A boot begun before a stopped `start()` has looked runs beside it (`abreast`): each constructs an emulator, the one the fields lose is never
  destroyed, and the stopped one's end is taken for a failure of the new machine and destroys it (`vm.ts:657`).
- Opening the console boots a machine that was left off (`vm-console.tsx:220`, `terminal.tsx:521`; `vm.ts:563` and `machine-power.ts:23` name the explicit gestures, and
  this one does not write "on").
- `W/share-store.ts:672`: the replay that a power-off overtook ends on a machine that is off and declares it whole (`cut`); so it stays until the replay of
  the next boot has landed, edits of `/data` made meanwhile included, against "False from the moment the machine goes down until the next restore
  completes" (`share-store.ts:451`).
- `W/share-store.ts:36` says that the mirrors converge. Two pages whose rounds, announcements or removals keep crossing can swap two contents of a file as long as
  they do: `MaxRace` is how often a round begins, or a writer stores its row, while the other page's news is not yet taken in; when that ends, they converge.
- `attachSerial` checks before it awaits (`vm.ts:1712`), so attaches that overlap leave the first port open and feeding the guest's input, with nobody to detach it, and
  its end takes the other's place (`crossed`), against "One port at a time; attaching replaces the previous one" (`vm.ts:1703`). The knob is applied to the first
  machine's graph and not again to the next one's, against "survives guest reboots" (`Gear!KnobSurvives`; `footer-chips.tsx:31`).
  The serial chip stays lit after a power-off.
- rund writes a command's output file (`V/rund.c:436`) before its reply travels. If the reply is lost or comes after the deadline, or the write breaks off in the middle, the file
  stays until the next boot's sweep (answers `unread`, `failed` of `RunShell`; job and call go on apart).
- Two `putFile`s that overlap, or one that a `chmod` meets, lose the mode of an executable (`mixed`, `vm.ts:1774`).
- `W/terminal.tsx:574`: what the boot before reported is never reset, so after a boot that got to its kernel one that reports nothing for thirty seconds
  drops the veil (`early`). Of two `stty`s the one that ends last counts, and one that fails is not sent again (`astray`, `vm.ts:1185`).
- `W/vga-window.tsx:110`: keys or a button held when the panel or its focus goes stay down in the guest until the panel next hears of them, or a boot (`unheard`). A long
  step of the pointer is not cut to the nine bits a PS/2 packet carries (`vga-window.tsx:168`).
- `window-manager.ts:157`: "hears every rise-to-top", but a new window comes up on top unannounced
  (its number is the last one given, so `raise` takes it for the top one already): `Windows!FocusHeard`.
- `W/host-mount.ts:19`: a file that is touched on the host to bring it back is not brought back
  while its bytes are those last synced (`TouchBringsBack`), and a deletion met by an edit in the guest leaves the
  file in the guest alone (`host-mount.ts:11`, `GoneIsGone`). A sweep notes a file as synced before it pushes it
  (`host-mount.ts:187`): if a push, or the reading of a later file, fails, what was read is lost and taken for synced (`lost`), and the next sweep of the guest puts the
  guest's older copy over the person's newer file, against "the re-read bytes hash to what was just synced, so the
  echo dies" (line 18). A write to the disk that fails may leave an empty file there, which the next sweep pushes over the guest's.
- Edits of `/data/apps` that cross (`crossing`): two of one app at once; lists put back from an older reading (`app-install.ts:91`, `vm-apps.ts:271`); a mirror
  behind the machine when a switch-off or a boot comes in the middle; a command on the console during the replay, which the replay undoes, as only the page's own calls
  wait for the whole of `/data` (`vm-apps.ts:163`). After a replay that a power-off overtook, `whole` is stale for them too.
- `W/ble.ts:471`: a disconnect drops the hold while a pick is on its way (so do a picker that fails and a link that is lost) and leaves the chip, whose click then
  adopts a device without the lock (`loose`). A scan that the browser starts after its stop runs without its hold in the same way (`ble.ts:275`).
- `W/origin-broker.ts:22`: one machine's calls "must not deadlock against" each other, but of two that ask for
  the lock at the same time the second is told that the radio is in use, by its own machine (`Busy`).
- `W/leaving.ts:19`: stale counts "fail towards a prompt that should not have appeared", but an error of the
  worker that rejects a poll (`R/client.ts`) counts as no turns and ends the polling, and a worker that goes on has
  its turn left unasked (`AgentWorker!OnError`).

The bridge and its panel:

- `W/net-bridge.ts:122`: `tryLock` lets a room through without a lock when there is no `navigator.locks` (a page over plain HTTP, which is meant to
  bridge: `nostr-signal.ts:70`) or the request is rejected (`net-bridge.ts:137`); such rooms (`bare`) run beside any other, against "one bridge per LAN" (`net-bridge.ts:34`).
- A stop, or a second opening, while a room of the page is opening (`outOfTurn`) does not reach it: it comes up and nobody can stop it, or the teardown of one
  gives back the lock from under the other, and another page's bridge runs beside it. The page is back in turn when it is loaded anew.
- `W/nostr-signal.ts:197`: a relay that drops between its opening and its adoption is kept as adopted and never tried again (`ws[r] = "shut"`). Offers that arrive while the channel is
  being dialled have no listener and are lost.
- `W/net-panel.tsx:853`: a stored mode `"fetch"` and a `?relay=` in the address make the panel say other than
  what runs (`Legacy`, `Query`); a mode saved in one tab is not seen by another.

The agent:

- `R/client.ts:314`: a call made after `close` or after the worker broke is never settled.
- Two installs of one package share a parked path (`R/shim.ts:1069`): one installs what the other parked (`after`), another version or kind, though never
  bytes whose digest was not checked.
- `R/device-vm.ts:475`: a relay is "removed on every path out" (line 545) by a command in the guest. If that is refused (the link is down, rund is busy), killed, cut short or never answered, or the
  write of the relay itself breaks off, the relay stays until the boot's sweep (`severed`); also when `/data` is not mounted there. A write that was answered failed may still land later.
- `R/device-vm.ts:748`: an edit replaces with `String.replace`, which expands `$$`, `$&` and the like in the new
  text, against "exact content transfer" (`device-vm.ts:139`): the tool `edit$`.
- A refusal of the engine breaks the chain of installs (`Fails`, `R/index.ts:211`), and `/api/tools` says
  `installed` before the engine has answered (`index.ts:326`).
- Stop does not wake a parent that waits on an approval (`C/host.rs:917`), and an approval given after Stop still
  runs the call. A sub-agent that waits for its turn to ask does not look at its deadline, against "the task
  still never exceeds `timeout_secs`" (`agent_task.rs`). A tail of 2048 frames may have dropped the one
  that asks (`host.rs:340`), so that the bar does not come back.

## 6. What is not modelled, and what is abstracted

- Not at all: librpc, `rpc(1)` and jsonlite; the engine's storage, virtual file system and model protocol; vendored code, except
  where `TurnQueue` and `Confirms` need its loop; the guest image, sample programs and deployment;
  drawing and layout.
- Frames are records: `FrameParser`, `V/wire.c` and the mux parser are left out, and a frame they cannot
  read is a lost frame. Noise that turns one valid frame into another is left out.
- In `Rpcd`, a party reads what it was sent before it acts, and what rpcd answers on the spot
  (`rpc.*`, `stream.*`, a bad id, an oversized frame) changes nothing. `RpcdEvents` chooses who hears
  an event instead of matching topics.
- `StreamLane` has neither the guest's output, nor lost frames on its lines, nor a carrier drop. A
  lost `stream.credit` would shrink a window for good; that hazard is listed without a property.
- `OutQueue` leaves out a failing `realloc`. `BacklogBounded` says that what waits stays small; that output already read is not refused
  (`NothingLost`) does not hold and is not checked (section 5).
- `RundServices` numbers processes instead of reusing pids, takes a process for its whole group,
  and lets rund die only between turns of its loop.
- `RundJobs` lets SIGKILL work at once and rund live; what a job leaves behind when it is over is not followed, nor is
  a failing `malloc`.
- `ShareMirror` has one machine's identity; a file is its version. `HostMount` hashes without collisions, and the budgets of a sweep (files, bytes) are left out.
- `HostCalls` drops the calls in flight with their machine. In the code a handler of the old one may still run and put its file into the next
  one's `/data` (`vm.ts:874`).
- `Gear` has one attach of each port under way at a time, `Radio` one call of each kind in each document: bounds. The page's and the browser's half of a release of the radio's lock are one step, and
  both Web Bluetooth and Web Locks ask for a secure context, so there is no radio without locks.
- `Consoles` leaves out the opens that wait for a click (`terminal.tsx:728`: the chip is of the last one only) and `Apps` two commands that
  guests run at once. A copy within the guest (`DeviceTools`) and a whole command of `app(1)` are one step each.
- A stalled boot's late phase: `ConsolesTrue` speaks of the veil, not of the words on it.
- WebRTC, relays, the lock manager, IndexedDB and the model are external: they appear as the events
  and answers the code awaits from them.

## 7. Plan

Done: every component of the inventory above that names a module.

Left, in this order:

1. `StreamLane` completed: guest output through `OutQueue`'s pump and its arrival before the
   window; losses on both lines; a carrier drop.
2. rund's death between a fork and its pid file, and pids reused.
3. Composition of `Rpcd` with `RundServices` and jobs over a socket that may be lost: one answer end to end.
4. Pure algorithms over bounded inputs: the frame parsers' resynchronisation, `topic_matches`,
   the share diff, the scanner of jsonlite.

Proofs to add: `Rpcd` composed with the above.

## 8. Running it

    tlc -config MCPage.cfg MCPage                    # likewise for the other runs
    tlapm Page_proofs.tla                            # likewise for the other *_proofs, RundJobs

A run takes between some seconds and three minutes on two workers; a module of proofs between one and about
five.
