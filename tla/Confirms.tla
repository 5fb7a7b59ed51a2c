------------------------------ MODULE Confirms ------------------------------
(***************************************************************************)
(* Asking before a tool call runs: a turn and the sub-agents it fans out   *)
(* to, the bar a person answers, and the way of an answer back through the *)
(* shim and the client to the agent that waits (host.rs, agent_loop.rs,     *)
(* agent_task.rs).  The engine is one thread: each step below is one        *)
(* message, or one stretch of an agent between two awaits.                  *)
(***************************************************************************)
EXTENDS Integers, FiniteSetsExt, SequencesExt

CONSTANTS
  Kids,      \* the sub-agents of a batch
  Dirs,      \* directories calls write to
  Once,      \* a bar that comes back for a call already answered is left alone
  MaxAsk,    \* bound: calls of one agent in a turn
  MaxTurns,  \* bound: turns
  MaxClick   \* bound: what the person does besides plain answers, and timeouts

\* What the constants are taken to be.
ConfirmsAssumption == {"parent", "none"} \cap Kids = {} /\ Once \in BOOLEAN /\ {MaxAsk, MaxTurns, MaxClick} \subseteq Nat

Agents == {"parent"} \cup Kids

VARIABLES
  current,      \* its number, and whether it runs
  cancel,    \* its cancel flag
  at,        \* each agent: "off", "free", "gate", "asking", "ahead", "busy"; the parent's "batch"
  made,      \* calls each has made this turn
  dir,       \* where the present call writes
  chan,      \* the answers in each agent's channel
  gate,      \* the sub-agent whose call is presented and routed; "none"
  stopped,   \* sub-agents told to stop
  auto,      \* the session asks no more
  learned,   \* directories that are written without asking
  tail,      \* confirm and result frames of the turn, replayed to who attaches
  following, \* the page's stream is attached
  toPage, toEngine,
  bar,       \* the frame the page asks about, or none
  saving,    \* answers whose directory the engine has been told
  clicked,  \* history: calls a bar of which was answered
  strays,    \* history: the calls that ran upon another's answer, each with it
  clicks     \* bound

confirmsVars == <<current, cancel, at, made, dir, chan, gate, stopped, auto, learned, tail, following, toPage,
                  toEngine, bar, saving, clicked, strays, clicks>>
session == <<current, cancel, stopped>>
calls   == <<at, made, dir, chan, gate, auto, strays>>
stream  == <<tail, following, toPage>>
page    == <<bar, saving, clicked, clicks>>

Id(a) == <<current.n, a, made[a]>>
Idle == [a \in Agents |-> "off"]
NoBar == [of |-> <<>>, kind |-> "none", dir |-> "none"]

ConfirmsInit ==
  /\ current = [n |-> 0, on |-> FALSE] /\ cancel = FALSE
  /\ at = Idle /\ made = [a \in Agents |-> 0] /\ dir = [a \in Agents |-> "none"]
  /\ chan = [a \in Agents |-> <<>>] /\ gate = "none" /\ stopped = {}
  /\ auto = FALSE /\ learned = {} /\ tail = <<>> /\ following = TRUE
  /\ toPage = <<>> /\ toEngine = <<>>
  /\ bar = NoBar /\ saving = <<>> /\ clicked = {} /\ strays = {} /\ clicks = 0

----------------------------------------------------------------------------
(* The engine: a turn and its sub-agents.                                  *)

Click == clicks < MaxClick /\ clicks' = clicks + 1

\* publish: to the tail, and to the stream that is attached.
Publish(frames) ==
  /\ tail' = tail \o frames
  /\ toPage' = IF following THEN toPage \o frames ELSE toPage
Frame(id, kind, d) == <<[of |-> id, kind |-> kind, dir |-> d]>>

\* start_turn
BeginTurn ==
  /\ ~current.on /\ current.n < MaxTurns /\ current' = [n |-> current.n + 1, on |-> TRUE]
  /\ at' = [Idle EXCEPT !["parent"] = "free"]
  /\ UNCHANGED <<cancel, stopped, made, dir, chan, gate, auto, learned, stream, toEngine, page, strays>>

\* The model is done, or a check between two steps finds the flag set: the
\* turn's channels, router and frames go with it.
EndTurn ==
  /\ at["parent"] = "free" /\ current' = [current EXCEPT !.on = FALSE] /\ at' = Idle
  /\ cancel' = FALSE /\ stopped' = {} /\ gate' = "none" /\ tail' = <<>>
  /\ made' = [a \in Agents |-> 0] /\ chan' = [a \in Agents |-> <<>>]
  /\ UNCHANGED <<dir, auto, learned, following, toPage, toEngine, page, strays>>

\* run_batch: every task becomes a sub-agent, and all of them are awaited.
Batch ==
  /\ at["parent"] = "free" /\ ~cancel /\ \A k \in Kids : made[k] = 0 /\ k \notin stopped
  /\ at' = [a \in Agents |-> IF a = "parent" THEN "batch" ELSE "free"]
  /\ UNCHANGED <<session, made, dir, chan, gate, auto, learned, stream, toEngine, page, strays>>
BatchDone ==
  /\ at["parent"] = "batch" /\ (\A k \in Kids : at[k] = "off") /\ at' = [at EXCEPT !["parent"] = "free"]
  /\ UNCHANGED <<session, made, dir, chan, gate, auto, learned, stream, toEngine, page, strays>>
KidDone(k) ==
  /\ at[k] = "free" /\ at' = [at EXCEPT ![k] = "off"]
  /\ UNCHANGED <<session, made, dir, chan, gate, auto, learned, stream, toEngine, page, strays>>

Stopping(a) == IF a = "parent" THEN cancel ELSE a \in stopped

\* needs_confirm, of a write.
NeedsConfirm(d) == ~auto /\ d \notin learned

\* A call goes by an answer.
Goes(id, answer) ==
  strays' = IF answer.kind = "deny" \/ answer.of = id THEN strays ELSE strays \cup {<<id, answer>>}

\* A call: one that must ask takes what its channel holds, or waits for it.
\* The parent's bar goes out at once, a sub-agent's when its driver presents it.
Call(a, d) == LET id == <<current.n, a, made[a] + 1>> IN
  /\ at[a] = "free" /\ ~Stopping(a) /\ made[a] < MaxAsk
  /\ made' = [made EXCEPT ![a] = @ + 1] /\ dir' = [dir EXCEPT ![a] = d]
  /\ IF NeedsConfirm(d)
     THEN /\ IF a = "parent" THEN Publish(Frame(id, "confirm", d)) ELSE UNCHANGED <<tail, toPage>>
          /\ IF chan[a] = <<>>
             THEN /\ at' = [at EXCEPT ![a] = IF a = "parent" THEN "asking" ELSE "gate"]
                  /\ UNCHANGED <<chan, auto, strays>>
             ELSE /\ at' = [at EXCEPT ![a] = IF a = "parent" THEN "busy" ELSE "ahead"]
                  /\ chan' = [chan EXCEPT ![a] = Tail(@)] /\ Goes(id, Head(chan[a]))
                  /\ auto' = (auto \/ Head(chan[a]).kind = "all")
     ELSE at' = [at EXCEPT ![a] = "busy"] /\ UNCHANGED <<chan, auto, strays, tail, toPage>>
  /\ UNCHANGED <<session, gate, learned, following, toEngine, page>>

\* drive_child: one permit presents a sub-agent's call and routes its answer.
Present(k) ==
  /\ at[k] \in {"gate", "ahead"} /\ gate = "none" /\ gate' = k
  /\ at' = [at EXCEPT ![k] = IF @ = "gate" THEN "asking" ELSE "busy"]
  /\ Publish(Frame(Id(k), "confirm", dir[k]))
  /\ UNCHANGED <<session, made, dir, chan, auto, learned, following, toEngine, page, strays>>

\* The call has run, or was refused: its result closes the bar and gives the
\* permit back.
Result(a) ==
  /\ at[a] = "busy" /\ at' = [at EXCEPT ![a] = "free"] /\ dir' = [dir EXCEPT ![a] = "none"]
  /\ Publish(Frame(Id(a), "result", dir[a])) /\ gate' = IF gate = a THEN "none" ELSE gate
  /\ UNCHANGED <<session, made, chan, auto, learned, following, toEngine, page, strays>>

\* An answer reaches an agent: one that waits goes by it, else it stays in the
\* channel.
Put(a, answer) ==
  IF at[a] = "asking"
  THEN at' = [at EXCEPT ![a] = "busy"] /\ Goes(Id(a), answer) /\ UNCHANGED chan
  ELSE chan' = [chan EXCEPT ![a] = Append(@, answer)] /\ UNCHANGED <<at, strays>>

Denial == [of |-> <<>>, kind |-> "deny", dir |-> "none", late |-> FALSE]

\* The driver winds its sub-agent down: it was cancelled, the turn was, or its
\* time is up.  A driver that waits for the permit does not look.
WindDown(k) ==
  /\ at[k] \in {"free", "asking", "busy"} /\ Denial \notin ToSet(chan[k])
  /\ IF cancel \/ k \in stopped THEN UNCHANGED clicks ELSE Click
  /\ stopped' = stopped \cup {k} /\ Put(k, Denial)
  /\ UNCHANGED <<current, cancel, made, dir, gate, auto, learned, stream, toEngine, bar, saving, clicked>>

\* ... and after a grace leaves a tool that does not end; no result tells.
Abandon(k) ==
  /\ k \in stopped /\ at[k] = "busy" /\ at' = [at EXCEPT ![k] = "off"]
  /\ gate' = IF gate = k THEN "none" ELSE gate
  /\ UNCHANGED <<session, made, dir, chan, auto, learned, stream, toEngine, page, strays>>

----------------------------------------------------------------------------
(* The engine: what the page tells it.                                     *)

\* The next message, of an operation.
Read(op) == toEngine # <<>> /\ Head(toEngine).op = op /\ toEngine' = Tail(toEngine)

\* Mutant: an answer is the parent's, whoever asked.
RouteParent(answer) == "parent"

\* confirm: the call's id says whose the answer is.
Route(answer) == IF gate # "none" /\ answer.of = Id(gate) THEN gate ELSE "parent"

Waits(id) == current.on /\ \E a \in Agents : at[a] = "asking" /\ Id(a) = id

OnConfirm ==
  /\ Read("confirm")
  /\ LET answer == Head(toEngine).answer IN
     /\ auto' = (auto \/ answer.kind = "all")
     /\ IF current.on THEN Put(Route(answer), [answer EXCEPT !.late = ~Waits(answer.of)]) ELSE UNCHANGED <<at, chan, strays>>
  /\ UNCHANGED <<session, made, dir, gate, learned, stream, page>>

\* allow_dir; the shim sends the approval when this is answered.
OnAllowDir ==
  /\ Read("allowDir")
  /\ learned' = learned \cup {Head(toEngine).answer.dir} /\ saving' = Append(saving, Head(toEngine).answer)
  /\ UNCHANGED <<session, calls, stream, bar, clicked, clicks>>
OnForgetDirs ==
  /\ Read("forgetDirs") /\ learned' = {}
  /\ UNCHANGED <<session, calls, stream, page>>

OnSetAuto ==
  /\ Read("setAuto") /\ auto' = Head(toEngine).on
  /\ UNCHANGED <<session, at, made, dir, chan, gate, strays, learned, stream, page>>

\* cancel: the turn's flag, and a denial to the sub-agent that is presented.
OnCancel ==
  /\ Read("cancel") /\ cancel' = current.on
  /\ IF current.on /\ gate # "none" THEN Put(gate, Denial) ELSE UNCHANGED <<at, chan, strays>>
  /\ UNCHANGED <<current, stopped, made, dir, gate, auto, learned, stream, page>>

\* cancel_task: the flag of one that lives.
OnCancelTask ==
  /\ Read("cancelTask")
  /\ LET k == Head(toEngine).kid IN stopped' = IF at[k] = "off" THEN stopped ELSE stopped \cup {k}
  /\ UNCHANGED <<current, cancel, calls, learned, stream, page>>

\* attach: the turn's frames so far.
OnAttach ==
  /\ Read("attach") /\ following' = TRUE /\ toPage' = IF current.on THEN toPage \o tail ELSE toPage
  /\ UNCHANGED <<session, calls, learned, tail, page>>

----------------------------------------------------------------------------
(* The page.                                                               *)

Post(message) == toEngine' = Append(toEngine, message)

\* One bar: a request takes it, and the result of its call clears it.
OnFrame ==
  /\ toPage # <<>> /\ toPage' = Tail(toPage)
  /\ bar' = IF Head(toPage).kind = "confirm" THEN Head(toPage)
            ELSE IF bar.of = Head(toPage).of THEN NoBar ELSE bar
  /\ UNCHANGED <<session, calls, learned, tail, following, toEngine, saving, clicked, clicks>>

\* The bar's buttons: no, yes, yes to everything, and yes with the folder.
Answer(kind, folder) ==
  /\ bar # NoBar /\ (Once => bar.of \notin clicked) /\ (folder => kind = "yes")
  /\ LET answer == [of |-> bar.of, kind |-> kind, dir |-> IF folder THEN bar.dir ELSE "none",
                late |-> FALSE] IN
     Post([op |-> IF folder THEN "allowDir" ELSE "confirm", answer |-> answer])
  /\ IF folder \/ kind = "all" THEN Click ELSE UNCHANGED clicks
  /\ clicked' = clicked \cup {bar.of} /\ bar' = NoBar
  /\ UNCHANGED <<session, calls, learned, stream, saving>>
Allowed ==
  /\ saving # <<>> /\ saving' = Tail(saving) /\ Post([op |-> "confirm", answer |-> Head(saving)])
  /\ UNCHANGED <<session, calls, learned, stream, bar, clicked, clicks>>

\* Another session is looked at, and this one again: its bar goes, the stream
\* ends, and a new one is asked for.
Switch ==
  /\ Click /\ following' = FALSE /\ toPage' = <<>> /\ bar' = NoBar /\ Post([op |-> "attach"])
  /\ UNCHANGED <<session, calls, learned, tail, saving, clicked>>

\* The composer's badge, Stop, a task's cross, and the settings' list.
Press(message) ==
  /\ Click /\ Post(message)
  /\ UNCHANGED <<session, calls, learned, stream, bar, saving, clicked>>

----------------------------------------------------------------------------
ConfirmsNext ==
  \/ BeginTurn \/ EndTurn \/ Batch \/ BatchDone
  \/ \E a \in Agents : Result(a) \/ \E d \in Dirs : Call(a, d)
  \/ \E k \in Kids : KidDone(k) \/ Present(k) \/ WindDown(k) \/ Abandon(k)
  \/ OnConfirm \/ OnAllowDir \/ OnForgetDirs \/ OnSetAuto \/ OnCancel \/ OnCancelTask \/ OnAttach
  \/ OnFrame \/ Allowed \/ Switch
  \/ \E kind \in {"deny", "yes", "all"}, folder \in BOOLEAN : Answer(kind, folder)
  \/ Press([op |-> "setAuto", on |-> ~auto]) \/ Press([op |-> "cancel"]) \/ Press([op |-> "forgetDirs"])
  \/ \E k \in Kids : Press([op |-> "cancelTask", kid |-> k])

ConfirmsSpec == ConfirmsInit /\ [][ConfirmsNext]_confirmsVars

----------------------------------------------------------------------------
\* Through sub-agents that ask together, Stop, sessions left and looked at
\* again: a call runs upon the answer given to it, unless the answer was read
\* too late for the call it was given for; a call that waits is the one the bar
\* shows, or its answer is on the way.
ConsentTrue ==
  /\ \A s \in strays : s[2].late
  /\ \A a \in Agents : at[a] = "asking" =>
       IF Id(a) \in clicked
       THEN \/ \E i \in DOMAIN saving : saving[i].of = Id(a)
            \/ \E i \in DOMAIN toEngine : toEngine[i].op \in {"confirm", "allowDir"} /\ toEngine[i].answer.of = Id(a)
       ELSE toPage = <<>> /\ following => bar.of = Id(a)

\* client.ts: "`callId` is the tool call the frame was about, and it decides who
\* the answer belongs to".
AnswersTheirCall == strays = {}
=============================================================================
