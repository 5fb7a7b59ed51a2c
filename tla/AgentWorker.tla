----------------------------- MODULE AgentWorker -----------------------------
(***************************************************************************)
(* The agent's page half and its worker: calls awaiting the worker's       *)
(* start, replies and stream frames on one ordered port, the device tool   *)
(* calls that come back the other way, the chat route of the fetch shim    *)
(* and the guard that asks before a page with a running turn is left.      *)
(*                                                                         *)
(* The engine is external: it runs one turn at a time, makes frames of it, *)
(* and asks the page for the machine.  An uncaught error of the worker     *)
(* reaches the page and leaves the worker running; one that never loaded   *)
(* answers nothing.                                                        *)
(***************************************************************************)
EXTENDS Integers, SequencesExt

CONSTANTS
  Views,     \* chat views, each attaching one stream
  MaxTurn,   \* bound: messages sent
  MaxFrame,  \* bound: frames the engine makes
  MaxError   \* bound: uncaught errors of the worker

\* What the constants are taken to be.
WorkerAssumption == {MaxTurn, MaxFrame, MaxError} \subseteq Nat

VARIABLES
  worker,    \* "loading", "up", "broken"
  ready,     \* the client's promise: "pending", "ok", "failed"
  waiting,   \* calls that await it, in order
  pending,   \* calls posted and not settled
  toWorker, posted,
  streams,   \* the page's listeners
  view,      \* each view: "none", "open", "closed"
  shown,     \* frames each view has shown, its history snapshot counted
  attached,  \* the engine's subscriptions
  log,       \* frames the engine has made
  busy,      \* a turn runs
  parked,    \* messages queued behind it
  tool,      \* the running turn's tool call: "none", "asked", "handling", "answered"
  running,   \* the leave guard's count
  polling,   \* its timer is set
  errors, sent  \* history: errors of the worker; messages sent

port == <<pending, toWorker, posted>>
engineState == <<attached, log, busy, parked>>
guard == <<running, polling>>
workerVars == <<worker, ready, waiting, port, streams, view, shown, engineState, tool, guard, errors, sent>>

Msg(op, what) == [op |-> op, what |-> what]

WorkerInit ==
  /\ worker = "loading" /\ ready = "pending" /\ waiting = <<>>
  /\ pending = {} /\ toWorker = <<>> /\ posted = <<>>
  /\ streams = {} /\ view = [v \in Views |-> "none"] /\ shown = [v \in Views |-> 0]
  /\ attached = {} /\ log = 0 /\ busy = FALSE /\ parked = 0 /\ tool = "none"
  /\ running = 0 /\ polling = FALSE /\ errors = 0 /\ sent = 0

----------------------------------------------------------------------------
(* The client.                                                             *)

\* call(): once the worker is ready; a worker that never will be refuses.
CallWorker(m) ==
  \/ ready = "pending" /\ waiting' = Append(waiting, m) /\ UNCHANGED <<toWorker, pending>>
  \/ ready = "ok" /\ toWorker' = Append(toWorker, m) /\ pending' = pending \cup {m} /\ UNCHANGED waiting
  \/ ready = "failed" /\ UNCHANGED <<waiting, toWorker, pending>>

\* A poll's answer that is yet to come.
PollOut == \E m \in pending : m.op = "turns"

\* chat(): a message, which may be parked behind the turn that runs.
Send(queue) ==
  /\ sent < MaxTurn /\ sent' = sent + 1
  /\ CallWorker(Msg(IF queue THEN "park" ELSE "send", sent'))
  /\ UNCHANGED <<worker, ready, posted, streams, view, shown, engineState, tool, guard, errors>>

\* Mutant: a view that attaches while the worker starts has no listener yet.
AttachUnheard(v) ==
  /\ view[v] = "none"
  /\ view' = [view EXCEPT ![v] = "open"] /\ streams' = IF ready = "ok" THEN streams \cup {v} ELSE streams
  /\ CallWorker(Msg("attach", v))
  /\ UNCHANGED <<worker, ready, posted, shown, engineState, tool, guard, errors, sent>>

\* streamResponse: a view attaches; the listener is there before the call.
Attach(v) ==
  /\ view[v] = "none"
  /\ view' = [view EXCEPT ![v] = "open"] /\ streams' = streams \cup {v}
  /\ CallWorker(Msg("attach", v))
  /\ UNCHANGED <<worker, ready, posted, shown, engineState, tool, guard, errors, sent>>

\* The reader cancels or aborts.
Detach(v) ==
  /\ view[v] = "open"
  /\ view' = [view EXCEPT ![v] = "closed"] /\ streams' = streams \ {v}
  /\ CallWorker(Msg("detach", v))
  /\ UNCHANGED <<worker, ready, posted, shown, engineState, tool, guard, errors, sent>>

\* onReady: the calls that waited go out in order, or are refused.
OnReady ==
  /\ posted # <<>> /\ Head(posted).op = "ready" /\ posted' = Tail(posted)
  /\ waiting' = <<>>
  /\ IF ready = "pending" /\ Head(posted).what = "ok"
     THEN /\ ready' = "ok" /\ toWorker' = toWorker \o waiting
          /\ pending' = pending \cup {waiting[i] : i \in DOMAIN waiting}
     ELSE /\ ready' = IF ready = "pending" THEN "failed" ELSE ready
          /\ UNCHANGED <<toWorker, pending>>
  /\ UNCHANGED <<worker, streams, view, shown, engineState, tool, guard, errors, sent>>

\* A frame: to its listener, if it still has one.
ToListener ==
  /\ posted # <<>> /\ Head(posted).op = "frame" /\ posted' = Tail(posted)
  /\ LET f == Head(posted).what IN
     shown' = IF f[1] \in streams THEN [shown EXCEPT ![f[1]] = @ + f[2]] ELSE shown
  /\ UNCHANGED <<worker, ready, waiting, pending, toWorker, streams, view, engineState, tool, guard, errors, sent>>

\* ask(): what a poll's answer does, a refused one counting as 0.
Asked(result) == running' = result /\ polling' = (polling /\ result # 0)

\* settleCall: a reply to a call still pending.  A turn that started, and was
\* not parked, tells the leave guard.
SettleCall ==
  /\ posted # <<>> /\ Head(posted).op = "reply" /\ posted' = Tail(posted)
  /\ LET m == Head(posted).what[1]
         r == Head(posted).what[2] IN
     /\ pending' = pending \ {m}
     /\ \/ m \in pending /\ m.op = "turns" /\ Asked(IF r = "some" THEN 1 ELSE 0)
        \/ m \in pending /\ m.op \in {"send", "park"} /\ r = "started" /\ running' = 1 /\ polling' = TRUE
        \/ (m \notin pending \/ r \in {"busy", "queued", "done"}) /\ UNCHANGED guard
  /\ UNCHANGED <<worker, ready, waiting, toWorker, streams, view, shown, engineState, tool, errors, sent>>

\* answerVmCall: the page's handler is called ...
OnVmCall ==
  /\ posted # <<>> /\ Head(posted).op = "vmCall" /\ posted' = Tail(posted)
  /\ tool' = "handling"
  /\ UNCHANGED <<worker, ready, waiting, pending, toWorker, streams, view, shown, engineState, guard, errors, sent>>

\* Mutant: a handler that throws answers nothing.
VmAnswerOrThrow ==
  /\ tool = "handling" /\ tool' = "answered"
  /\ toWorker' \in {toWorker, Append(toWorker, Msg("vmResult", 0))}
  /\ UNCHANGED <<worker, ready, waiting, pending, posted, streams, view, shown, engineState, guard, errors, sent>>

\* ... and whatever becomes of it, an answer is posted.
VmAnswer ==
  /\ tool = "handling" /\ tool' = "answered"
  /\ toWorker' = Append(toWorker, Msg("vmResult", 0))
  /\ UNCHANGED <<worker, ready, waiting, pending, posted, streams, view, shown, engineState, guard, errors, sent>>

\* onerror: nothing will answer what is pending; a worker that has not said it
\* is ready will not.
OnError ==
  /\ errors < MaxError /\ errors' = errors + 1
  /\ worker' = IF worker = "loading" THEN "broken" ELSE worker
  /\ ready' = IF ready = "pending" THEN "failed" ELSE ready
  /\ waiting' = IF ready = "pending" THEN <<>> ELSE waiting
  /\ pending' = {}
  /\ IF PollOut THEN Asked(0) ELSE UNCHANGED guard
  /\ UNCHANGED <<toWorker, posted, streams, view, shown, engineState, tool, sent>>

\* The guard's timer asks the engine how many turns run.
Poll ==
  /\ polling /\ ~PollOut
  /\ CallWorker(Msg("turns", 0))
  /\ UNCHANGED <<worker, ready, posted, streams, view, shown, engineState, tool, running, polling, errors, sent>>

----------------------------------------------------------------------------
(* The worker.                                                             *)

\* boot: persistent storage or memory; neither refuses.
Boot ==
  /\ worker = "loading"
  /\ \/ worker' = "up" /\ posted' = Append(posted, Msg("ready", "ok"))
     \/ worker' = "broken" /\ posted' = Append(posted, Msg("ready", "failed"))
  /\ UNCHANGED <<ready, waiting, pending, toWorker, streams, view, shown, engineState, tool, guard, errors, sent>>

Reply(m, r) == <<Msg("reply", <<m, r>>)>>

\* onmessage: one call, dispatched and answered in one piece.
Serve ==
  /\ worker = "up" /\ toWorker # <<>> /\ toWorker' = Tail(toWorker)
  /\ LET m == Head(toWorker) IN
     \/ /\ m.op = "send"
        /\ busy' = TRUE /\ posted' = posted \o Reply(m, IF busy THEN "busy" ELSE "started")
        /\ UNCHANGED <<attached, parked, tool>>
     \/ /\ m.op = "park"
        /\ busy' = TRUE /\ parked' = IF busy THEN parked + 1 ELSE parked
        /\ posted' = posted \o Reply(m, IF busy THEN "queued" ELSE "started")
        /\ UNCHANGED <<attached, tool>>
     \/ /\ m.op = "attach"
        /\ attached' = attached \cup {m.what}
        /\ posted' = posted \o <<Msg("frame", <<m.what, log>>)>> \o Reply(m, "done")
        /\ UNCHANGED <<busy, parked, tool>>
     \/ /\ m.op = "detach"
        /\ attached' = attached \ {m.what} /\ posted' = posted \o Reply(m, "done")
        /\ UNCHANGED <<busy, parked, tool>>
     \/ /\ m.op = "turns"
        /\ posted' = posted \o Reply(m, IF busy THEN "some" ELSE "none")
        /\ UNCHANGED <<attached, busy, parked, tool>>
     \/ /\ m.op = "vmResult"
        /\ tool' = "none" /\ UNCHANGED <<attached, busy, parked, posted>>
  /\ UNCHANGED <<worker, ready, waiting, pending, streams, view, shown, log, guard, errors, sent>>

\* The engine makes a frame for every stream that is attached.
EngineFrame ==
  /\ busy /\ log < MaxFrame /\ log' = log + 1
  /\ posted' = posted \o SetToSeq({Msg("frame", <<v, 1>>) : v \in attached})
  /\ UNCHANGED <<worker, ready, waiting, pending, toWorker, streams, view, shown, attached, busy, parked,
                 tool, guard, errors, sent>>

\* The engine calls a device tool: fetch to the machine's endpoint.
ToolCall ==
  /\ busy /\ tool = "none"
  /\ tool' = "asked" /\ posted' = Append(posted, Msg("vmCall", 0))
  /\ UNCHANGED <<worker, ready, waiting, pending, toWorker, streams, view, shown, engineState, guard, errors, sent>>

\* A turn ends, its tool answered; a parked message starts the next.
TurnEnds ==
  /\ busy /\ tool = "none"
  /\ busy' = (parked > 0) /\ parked' = IF parked > 0 THEN parked - 1 ELSE 0
  /\ UNCHANGED <<worker, ready, waiting, port, streams, view, shown, attached, log, tool, guard, errors, sent>>

----------------------------------------------------------------------------
WorkerNext ==
  \/ \E queue \in BOOLEAN : Send(queue)
  \/ \E v \in Views : Attach(v) \/ Detach(v)
  \/ OnReady \/ ToListener \/ SettleCall \/ OnVmCall \/ VmAnswer \/ OnError \/ Poll
  \/ Boot \/ Serve \/ EngineFrame \/ ToolCall \/ TurnEnds

\* Messages are delivered, timers fire, tool handlers have deadlines; a turn
\* may take for ever.
WorkerFairness ==
  /\ WF_workerVars(OnReady \/ ToListener \/ SettleCall \/ OnVmCall) /\ WF_workerVars(VmAnswer) /\ WF_workerVars(Poll)
  /\ WF_workerVars(Boot) /\ WF_workerVars(Serve)

WorkerSpec == WorkerInit /\ [][WorkerNext]_workerVars /\ WorkerFairness

----------------------------------------------------------------------------
\* A view that took all its port brought shows the session as the engine has
\* it: its snapshot and every frame since, none missed and none twice, however
\* it attached around the start of a turn.
StreamExact ==
  \A v \in attached :
    view[v] = "open" /\ (\A i \in DOMAIN posted : posted[i].op = "frame" => posted[i].what[1] # v) => shown[v] = log

\* What either side asks of the other is answered: a call of the page, across
\* the worker's start, its failure and its errors; a device tool of the engine.
CallsSettle ==
  /\ []<>(waiting = <<>>) /\ []<>(PollOut \/ pending = {})
  /\ []<>~PollOut /\ []<>(tool = "none")

\* A view that is gone is soon nothing the engine publishes to.
DetachReaches == \A v \in Views : view[v] = "closed" ~> v \notin attached

\* The guard lets go of a page whose last turn is over.
GuardReleases == running = 1 ~> running = 0 \/ busy
=============================================================================
