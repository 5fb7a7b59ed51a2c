------------------------------ MODULE RpcdWire ------------------------------
(***************************************************************************)
(* The guest end of the control link: what rpcd.c does with the frames of  *)
(* ttyS3 (handle_frame, handle_hello, session_down), with the page's calls *)
(* and with the guest's own requests, as seen from the wire.  The routing  *)
(* between local clients is the module Rpcd; here whoever executes a call  *)
(* or asks the page for something is the guest as a whole.                 *)
(***************************************************************************)
EXTENDS RpcLink

CONSTANTS
  WIRE_PENDING,
  MaxTx,        \* bound: guest frames of a session after which it asks and replays nothing
  MaxRestart    \* bound: times rpcd dies and is respawned

ASSUME RpcdWireAssumption ==
  WIRE_PENDING \in Nat /\ MaxTx \in Nat /\ MaxRestart \in Nat

VARIABLES
  speaks,           \* PROTO_MIN <= the page's protocol <= PROTO_MAX, as installed
  active, gEpoch,   \* S.active, S.epoch (the token)
  txSeq, rxSeq,     \* S.tx_seq, S.rx_seq
  executing,        \* the page's calls in the pending table
  asked,            \* the guest's requests in the pending table
  restarts,
  delivered,        \* history: the page's frames dispatched, in order
  askedIn           \* history: every <<epoch, request>> sent to the page

sessionVars == <<active, gEpoch, txSeq, rxSeq>>
historyVars == <<delivered, askedIn>>
guestVars == <<speaks, sessionVars, executing, asked, restarts, historyVars>>

----------------------------------------------------------------------------
\* wire_send_body: nothing leaves without a session; a body that outgrows
\* the frame buffer still takes a sequence number.
Send(b) ==
  /\ txSeq' = txSeq + 1
  /\ toPage' = Append(toPage, Data(gEpoch, txSeq + 1, b))

Dropped ==
  /\ txSeq' = txSeq + 1
  /\ UNCHANGED toPage

----------------------------------------------------------------------------
(* Hello: handle_hello.                                                    *)

\* The refusal rides the hello's own epoch, as sequence 1.
RefuseHello(f) ==
  /\ ~speaks
  /\ toPage' = toPage \o <<Ack(f.epoch, f.seq), Data(f.epoch, 1, Body("helloRefused", 0))>>
  /\ UNCHANGED <<sessionVars, executing, asked, historyVars>>

ReplayHello(f) ==
  /\ speaks
  /\ active /\ f.epoch = gEpoch
  /\ txSeq < MaxTx
  /\ txSeq' = txSeq + 1
  /\ toPage' = toPage \o <<Ack(gEpoch, 0), Data(gEpoch, txSeq + 1, Body("helloOk", 0))>>
  /\ UNCHANGED <<active, gEpoch, rxSeq, executing, asked, historyVars>>

\* session_down for whatever session there was, then the new one.
NewSession(f) ==
  /\ speaks
  /\ ~(active /\ f.epoch = gEpoch)
  /\ active' = TRUE
  /\ gEpoch' = f.epoch
  /\ txSeq' = 1
  /\ rxSeq' = 0
  /\ executing' = {}
  /\ asked' = {}
  /\ toPage' = toPage \o <<Ack(f.epoch, 0), Data(f.epoch, 1, Body("helloOk", 0))>>
  /\ UNCHANGED historyVars

----------------------------------------------------------------------------
(* Data frames: handle_frame, then dispatch.                               *)

StaleFrame(f) ==
  /\ ~active \/ f.epoch # gEpoch
  /\ UNCHANGED <<sessionVars, executing, asked, toPage, historyVars>>

\* Its ACK was lost: acknowledged again, not dispatched again.
DuplicateFrame(f) ==
  /\ active /\ f.epoch = gEpoch /\ f.seq <= rxSeq
  /\ toPage' = Append(toPage, Ack(gEpoch, f.seq))
  /\ UNCHANGED <<sessionVars, executing, asked, historyVars>>

\* What dispatching a body does to the pending table.  A call past the
\* wire's share of it is answered OVERLOADED on the spot.
Overloads(b) == b.type = "call" /\ Cardinality(executing) >= WIRE_PENDING

DispatchBody(b) ==
  /\ executing' = IF b.type = "call" /\ ~Overloads(b) THEN executing \cup {b.id} ELSE executing
  /\ asked' = IF b.type = "answer" THEN asked \ {b.id} ELSE asked

\* Mutant: no deduplication by rx_seq.
DispatchFrameAgain(f) ==
  /\ active /\ f.epoch = gEpoch
  /\ rxSeq' = f.seq
  /\ delivered' = Append(delivered, f)
  /\ DispatchBody(f.body)
  /\ toPage' = Append(toPage, Ack(gEpoch, f.seq))
  /\ UNCHANGED <<active, gEpoch, txSeq, askedIn>>

DispatchFrame(f) ==
  /\ active /\ f.epoch = gEpoch /\ f.seq > rxSeq
  /\ rxSeq' = f.seq
  /\ delivered' = Append(delivered, f)
  /\ DispatchBody(f.body)
  /\ IF Overloads(f.body)
     THEN /\ txSeq' = txSeq + 1
          /\ toPage' = toPage \o <<Ack(gEpoch, f.seq),
                                   Data(gEpoch, txSeq + 1, Body("response", f.body.id))>>
     ELSE /\ toPage' = Append(toPage, Ack(gEpoch, f.seq))
          /\ UNCHANGED txSeq
  /\ UNCHANGED <<active, gEpoch, askedIn>>

HandleFrame ==
  /\ toGuest # <<>>
  /\ Len(toPage) < WireCap
  /\ toGuest' = Tail(toGuest)
  /\ LET f == Head(toGuest) IN
       IF f.body = Hello
       THEN RefuseHello(f) \/ ReplayHello(f) \/ NewSession(f)
       ELSE StaleFrame(f) \/ DuplicateFrame(f) \/ DispatchFrame(f)
  /\ UNCHANGED <<speaks, restarts>>

----------------------------------------------------------------------------
(* The guest's own doings.                                                 *)

\* The executor's answer, its death, or the deadline sweep: one response,
\* unless it is too large for the frame.
AnswerCall(c) ==
  /\ c \in executing
  /\ Len(toPage) < WireCap
  /\ executing' = executing \ {c}
  /\ Send(Body("response", c)) \/ Dropped
  /\ UNCHANGED <<speaks, active, gEpoch, rxSeq, asked, restarts, historyVars, toGuest>>

\* Request ids are unique (g.<n>), so each is asked once.
AskPage(r) ==
  /\ active /\ txSeq < MaxTx /\ Len(toPage) < WireCap
  /\ \A e \in 1 .. MaxEpoch : <<e, r>> \notin askedIn
  /\ asked' = asked \cup {r}
  /\ askedIn' = askedIn \cup {<<gEpoch, r>>}
  /\ Send(Body("request", r))
  /\ UNCHANGED <<speaks, active, gEpoch, rxSeq, executing, restarts, delivered, toGuest>>

\* route_cancel and drop_client leave the entry, the sweep removes it.
CancelAsked(r) ==
  /\ r \in asked
  /\ txSeq < MaxTx /\ Len(toPage) < WireCap
  /\ asked' \in {asked, asked \ {r}}
  /\ Send(Body("cancel", r))
  /\ UNCHANGED <<speaks, active, gEpoch, rxSeq, executing, restarts, historyVars, toGuest>>

\* Carrier drop or a framing stall (session_down with no successor).
SessionDown ==
  /\ active
  /\ active' = FALSE
  /\ txSeq' = 0 /\ rxSeq' = 0
  /\ executing' = {} /\ asked' = {}
  /\ UNCHANGED <<speaks, gEpoch, restarts, historyVars, toGuest, toPage>>

\* rpcd dies and init respawns it: memory is gone, the new open flushes
\* both directions of the port, bytes the page already holds stay.
Restart ==
  /\ restarts < MaxRestart
  /\ restarts' = restarts + 1
  /\ active' = FALSE /\ gEpoch' = 0
  /\ txSeq' = 0 /\ rxSeq' = 0
  /\ executing' = {} /\ asked' = {}
  /\ toGuest' = <<>>
  /\ \E n \in 0 .. Len(toPage) : toPage' = SubSeq(toPage, 1, n)
  /\ UNCHANGED <<speaks, historyVars>>

----------------------------------------------------------------------------
GuestInit ==
  /\ speaks \in BOOLEAN
  /\ active = FALSE /\ gEpoch = 0
  /\ txSeq = 0 /\ rxSeq = 0
  /\ executing = {} /\ asked = {}
  /\ restarts = 0
  /\ delivered = <<>>
  /\ askedIn = {}

GuestNext ==
  \/ HandleFrame
  \/ \E c \in executing : AnswerCall(c)
  \/ \E r \in Requests : AskPage(r) \/ CancelAsked(r)
  \/ SessionDown
  \/ Restart
=============================================================================
