------------------------------- MODULE RpcLink -------------------------------
(***************************************************************************)
(* The page half of the ttyS3 control link: class RpcLink of               *)
(* web/app/rpc.ts.  Two FIFO byte lanes carry frames between the page and  *)
(* whatever holds the far end; the page sends stop-and-wait (one unacked   *)
(* data frame), the guest sends unacked.  Bodies are kept only as far as   *)
(* the link tells them apart.  Timers are actions enabled while the timer  *)
(* is armed: no upper bound on how late one fires is assumed.              *)
(*                                                                         *)
(* The random session token is the number of the session (`epoch`), fresh  *)
(* for every startSession.                                                 *)
(***************************************************************************)
EXTENDS Integers, Sequences, FiniteSets

CONSTANTS
  Requests,           \* ids of guest -> page requests
  MaxEpoch,           \* bound: sessions the page starts
  MaxCall,            \* bound: calls the page makes
  WireCap,            \* bound: frames on a lane before a sender of its own accord waits
  Patient,            \* timers fire only on an idle wire (2 s is ages to a UART)
  MAX_PENDING_CALLS, MAX_SERVE_PENDING, MAX_SEND_QUEUE,
  MAX_RETRANSMITS, HELLO_RETRANSMITS

ASSUME RpcLinkAssumption ==
  /\ MaxEpoch \in Nat /\ MaxCall \in Nat /\ WireCap \in Nat
  /\ MAX_PENDING_CALLS \in Nat /\ MAX_SERVE_PENDING \in Nat /\ MAX_SEND_QUEUE \in Nat
  /\ Patient \in BOOLEAN
  /\ MAX_RETRANSMITS \in Nat /\ HELLO_RETRANSMITS \in Nat

VARIABLES
  state,          \* stateValue
  epoch,          \* epoch of the session, 0 before the first
  nextId,         \* next call is p.nextId
  outcome,        \* how each call made so far stands (pending is outcome "pending")
  serves,         \* unanswered serve jobs of the session
  running,        \* jobs whose handler has not returned, latched ones included
  queue,          \* bodies behind the stop-and-wait window
  inflight,       \* the unacked frame, or none
  nextSeq,
  guestSeqSeen,   \* highest guest -> page sequence of the session
  owed,           \* history: requests accepted this session, answer not yet in the queue
  toGuest, toPage \* the two lanes of the wire

laneVars == <<queue, inflight, nextSeq, toGuest>>
pageVars == <<state, epoch, nextId, outcome, serves, running, queue, inflight, nextSeq, guestSeqSeen, owed>>

----------------------------------------------------------------------------
(* Frames and bodies.                                                      *)

Calls == 1 .. MaxCall
Ids   == Calls \cup Requests

Body(type, id) == [type |-> type, id |-> id]
Hello == Body("hello", 0)
Watch == Body("watch", 0)      \* rpc.watch, the notification onSessionUp sends
Data(e, s, b) == [kind |-> "data", epoch |-> e, seq |-> s, body |-> b]
Ack(e, s)     == [kind |-> "ack", epoch |-> e, seq |-> s, body |-> Hello]

NoFlight == [seq |-> -1, body |-> Hello, attempts |-> 0]
Pending  == {c \in Calls : outcome[c] = "pending"}
Job(r, s) == [id |-> r, epoch |-> epoch, seq |-> s]

----------------------------------------------------------------------------
(* The stop-and-wait sender.  Pump sends the head of `q` when nothing is   *)
(* in flight.  In state hello only hello itself may leave, and sendHello   *)
(* puts it on the wire at once: it never waits in the queue.               *)

CanFly(q, st, fl) == fl = NoFlight /\ q # <<>> /\ st # "hello"

Flight(s, b) == [seq |-> s, body |-> b, attempts |-> 0]

Pump(q, st, fl, ns) ==
  \/ /\ CanFly(q, st, fl)
     /\ queue' = Tail(q)
     /\ inflight' = Flight(ns, Head(q))
     /\ nextSeq' = ns + 1
     /\ toGuest' = Append(toGuest, Data(epoch, ns, Head(q)))
  \/ /\ ~CanFly(q, st, fl)
     /\ queue' = q
     /\ inflight' = fl
     /\ nextSeq' = ns
     /\ UNCHANGED toGuest

HasRoom == Len(queue) < MAX_SEND_QUEUE

\* enqueue: false, and nothing happens, when the queue is full.
Enqueue(b) ==
  \/ HasRoom /\ Pump(Append(queue, b), state, inflight, nextSeq)
  \/ ~HasRoom /\ UNCHANGED laneVars

\* notify and respond speak only in an established session, and neither
\* looks at whether the queue took the body.
Established == state \in {"hello", "up"}
Say(b) == IF Established THEN Enqueue(b) ELSE UNCHANGED laneVars

\* Retransmissions wait while the lane is at its bound.
TimerMayFire ==
  /\ Len(toGuest) < WireCap
  /\ Patient => toGuest = <<>> /\ toPage = <<>>

\* sendHello: whatever was in flight is abandoned, hello takes sequence 0
\* and leaves ahead of the queue.
SendHello(e, q, ns) ==
  /\ queue' = q
  /\ nextSeq' = ns
  /\ inflight' = Flight(0, Hello)
  /\ toGuest' = Append(toGuest, Data(e, 0, Hello))

----------------------------------------------------------------------------
(* Sessions.                                                               *)

\* failSession, the part that is not the send lane: every pending call is
\* rejected UNAVAILABLE, every serve job is latched.
FailSession ==
  /\ outcome' = [c \in Calls |-> IF c \in Pending THEN "unavailable" ELSE outcome[c]]
  /\ serves' = {}
  /\ owed' = {}

\* Mutant: the unacked frame is carried over into the new session.
StartSessionCarryingOver ==
  /\ epoch < MaxEpoch
  /\ FailSession
  /\ epoch' = epoch + 1
  /\ guestSeqSeen' = 0
  /\ state' = "hello"
  /\ SendHello(epoch + 1, IF inflight.seq > 0 THEN <<inflight.body>> ELSE <<>>, 1)
  /\ UNCHANGED <<nextId, running, toPage>>

StartSession ==
  /\ epoch < MaxEpoch
  /\ FailSession
  /\ epoch' = epoch + 1
  /\ guestSeqSeen' = 0
  /\ state' = "hello"
  /\ SendHello(epoch + 1, <<>>, 1)
  /\ UNCHANGED <<nextId, running, toPage>>

LinkLost ==
  /\ FailSession
  /\ state' = "unavailable"
  /\ queue' = <<>>
  /\ inflight' = NoFlight

Attach == StartSession

RetryHello == state = "unavailable" /\ StartSession

Detach ==
  /\ state # "idle"
  /\ FailSession
  /\ state' = "idle"
  /\ queue' = <<>>
  /\ inflight' = NoFlight
  /\ UNCHANGED <<epoch, nextId, running, nextSeq, guestSeqSeen, toGuest, toPage>>

\* Mutant: the watchdog resends only a hello that was never ACKed.
HelloWatchdogUnacked ==
  /\ state = "hello" /\ inflight # NoFlight
  /\ TimerMayFire
  /\ SendHello(epoch, queue, nextSeq)
  /\ UNCHANGED <<state, epoch, nextId, outcome, serves, running, guestSeqSeen, owed, toPage>>

\* The 8 s watchdog: the hello is rebuilt and resent under the same token.
HelloWatchdog ==
  /\ state = "hello"
  /\ TimerMayFire
  /\ SendHello(epoch, queue, nextSeq)
  /\ UNCHANGED <<state, epoch, nextId, outcome, serves, running, guestSeqSeen, owed, toPage>>

----------------------------------------------------------------------------
(* Calls the page makes.                                                   *)

Call ==
  /\ Established
  /\ Cardinality(Pending) < MAX_PENDING_CALLS
  /\ nextId <= MaxCall
  /\ nextId' = nextId + 1
  /\ outcome' = [outcome EXCEPT ![nextId] = IF HasRoom THEN "pending" ELSE "overloaded"]
  /\ Enqueue(Body("call", nextId))
  /\ UNCHANGED <<state, epoch, serves, running, guestSeqSeen, owed, toPage>>

\* The deadline timer and the caller's AbortSignal do the same thing: tell
\* the guest (if the queue takes it), then settle locally.
GiveUp(c, how) ==
  /\ outcome[c] = "pending"
  /\ Say(Body("cancel", c))
  /\ outcome' = [outcome EXCEPT ![c] = how]
  /\ UNCHANGED <<state, epoch, nextId, serves, running, guestSeqSeen, owed, toPage>>

CallDeadline(c) == GiveUp(c, "deadline")
CallAborted(c)  == GiveUp(c, "cancelled")

----------------------------------------------------------------------------
(* The ACK timer.                                                          *)

Budget == IF inflight.body = Hello THEN HELLO_RETRANSMITS ELSE MAX_RETRANSMITS

Retransmit ==
  /\ TimerMayFire
  /\ toGuest' = Append(toGuest, Data(epoch, inflight.seq, inflight.body))

AckTimeoutResend ==
  /\ inflight # NoFlight
  /\ inflight.attempts < Budget
  /\ Retransmit
  /\ inflight' = [inflight EXCEPT !.attempts = @ + 1]
  /\ UNCHANGED <<state, epoch, nextId, outcome, serves, running, queue, nextSeq, guestSeqSeen, owed, toPage>>

\* A fire that comes grossly late is the page's own freeze: no strike.
AckTimeoutFrozen ==
  /\ inflight # NoFlight
  /\ Retransmit
  /\ UNCHANGED <<pageVars, toPage>>

AckTimeoutLost ==
  /\ inflight # NoFlight
  /\ inflight.attempts >= Budget
  /\ TimerMayFire
  /\ LinkLost
  /\ UNCHANGED <<epoch, nextId, running, nextSeq, guestSeqSeen, toGuest, toPage>>

----------------------------------------------------------------------------
(* Requests the page serves.                                               *)

Respond(r) == Say(Body("answer", r))
AnswerTaken == Established /\ HasRoom

\* The single-answer latch of runServe: only the first of the handler's
\* return, the serve deadline and an abort answers.
Answer(j) ==
  /\ serves' = serves \ {j}
  /\ IF j \in serves
     THEN Respond(j.id) /\ owed' = IF AnswerTaken THEN owed \ {j.id} ELSE owed
     ELSE UNCHANGED <<laneVars, owed>>

HandlerReturns(j) ==
  /\ j \in running
  /\ running' = running \ {j}
  /\ Answer(j)
  /\ UNCHANGED <<state, epoch, nextId, outcome, guestSeqSeen, toPage>>

ServeDeadline(j) ==
  /\ j \in serves
  /\ Answer(j)
  /\ UNCHANGED <<state, epoch, nextId, outcome, running, guestSeqSeen, toPage>>

\* onRequest: an id in flight and a full table are answered at once with
\* an error, anything else starts a handler.
StartServe(r, s) ==
  IF \/ \E j \in serves : j.id = r
     \/ Cardinality(serves) >= MAX_SERVE_PENDING
  THEN Respond(r) /\ UNCHANGED <<serves, running, owed>>
  ELSE /\ serves' = serves \cup {Job(r, s)}
       /\ running' = running \cup {Job(r, s)}
       /\ owed' = owed \cup {r}
       /\ UNCHANGED laneVars

\* Mutant: a cancelled job is dropped without its CANCELLED answer.
CancelServeSilently(r) ==
  /\ serves' = {j \in serves : j.id # r}
  /\ UNCHANGED <<laneVars, owed>>

CancelServe(r) ==
  \/ \E j \in serves : j.id = r /\ Answer(j)
  \/ (\A j \in serves : j.id # r) /\ UNCHANGED <<serves, laneVars, owed>>

----------------------------------------------------------------------------
(* The receive path: onFrame takes the next frame off the lane.            *)

OnAck(f) ==
  /\ f.kind = "ack"
  /\ IF inflight # NoFlight /\ f.seq = inflight.seq
     THEN Pump(queue, state, NoFlight, nextSeq)
     ELSE UNCHANGED laneVars
  /\ UNCHANGED <<state, epoch, nextId, outcome, serves, running, guestSeqSeen, owed>>

\* onSessionUp sends rpc.watch before the queue is pumped.
OnHelloReply(b) ==
  /\ b.type \in {"helloOk", "helloRefused"}
  /\ CASE state = "hello" /\ b.type = "helloOk" ->
            /\ state' = "up"
            /\ Pump(IF HasRoom THEN Append(queue, Watch) ELSE queue, "up", inflight, nextSeq)
            /\ UNCHANGED <<outcome, serves, owed>>
       [] state = "hello" /\ b.type = "helloRefused" ->
            LinkLost /\ UNCHANGED <<nextSeq, toGuest>>
       [] OTHER -> UNCHANGED <<state, outcome, serves, owed, laneVars>>
  /\ UNCHANGED <<epoch, nextId, running>>

\* A response to a call that is not pending is stale and ignored.
OnResponse(b) ==
  /\ b.type = "response"
  /\ outcome' = [c \in Calls |->
                   IF c = b.id /\ c \in Pending THEN "result" ELSE outcome[c]]
  /\ UNCHANGED <<state, epoch, nextId, serves, running, owed, laneVars>>

OnRequest(b, s) ==
  /\ b.type = "request"
  /\ StartServe(b.id, s)
  /\ UNCHANGED <<state, epoch, nextId, outcome>>

OnCancel(b) ==
  /\ b.type = "cancel"
  /\ CancelServe(b.id)
  /\ UNCHANGED <<state, epoch, nextId, outcome, running>>

OnData(f) ==
  /\ f.kind = "data"
  /\ \/ /\ f.seq <= guestSeqSeen
        /\ UNCHANGED pageVars /\ UNCHANGED toGuest
     \/ /\ f.seq > guestSeqSeen
        /\ guestSeqSeen' = f.seq
        /\ \/ OnHelloReply(f.body)
           \/ OnResponse(f.body)
           \/ OnRequest(f.body, f.seq)
           \/ OnCancel(f.body)

OnFrame ==
  /\ toPage # <<>>
  /\ toPage' = Tail(toPage)
  /\ IF state = "idle" \/ Head(toPage).epoch # epoch
     THEN UNCHANGED pageVars /\ UNCHANGED toGuest
     ELSE OnAck(Head(toPage)) \/ OnData(Head(toPage))

----------------------------------------------------------------------------
PageInit ==
  /\ state = "idle"
  /\ epoch = 0
  /\ nextId = 1
  /\ outcome = [c \in Calls |-> "none"]
  /\ serves = {}
  /\ running = {}
  /\ queue = <<>>
  /\ inflight = NoFlight
  /\ nextSeq = 1
  /\ guestSeqSeen = 0
  /\ owed = {}

PageTimers ==
  \/ AckTimeoutResend \/ AckTimeoutFrozen \/ AckTimeoutLost
  \/ HelloWatchdog \/ RetryHello
  \/ \E c \in Calls : CallDeadline(c)
  \/ \E j \in serves : ServeDeadline(j)

PageNext ==
  \/ Attach \/ Detach
  \/ Call
  \/ \E c \in Calls : CallAborted(c)
  \/ \E j \in running : HandlerReturns(j)
  \/ PageTimers
  \/ OnFrame
=============================================================================
