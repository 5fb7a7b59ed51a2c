---------------------------- MODULE ControlLink ----------------------------
(***************************************************************************)
(* The control link as a whole: the page's RpcLink, the guest's rpcd, and  *)
(* the lossy lanes between them.  Line noise destroys frames (the parsers  *)
(* skip what does not parse); it neither reorders nor duplicates them.     *)
(***************************************************************************)
EXTENDS RpcdWire

vars == <<pageVars, guestVars, toGuest, toPage>>

(* What wire_next (guest) and FrameParser (page) make of a damaged frame:  *)
(* it is counted bad and skipped up to the next header, no handler runs,   *)
(* and the frames behind it stay whole.  A damaged length that swallows    *)
(* its neighbours is several losses in a row.                              *)
LoseToGuest ==
  /\ toGuest # <<>>
  /\ toGuest' = Tail(toGuest)
  /\ UNCHANGED <<pageVars, guestVars, toPage>>

LoseToPage ==
  /\ toPage # <<>>
  /\ toPage' = Tail(toPage)
  /\ UNCHANGED <<pageVars, guestVars, toGuest>>

Init == PageInit /\ GuestInit /\ toGuest = <<>> /\ toPage = <<>>

Next ==
  \/ PageNext /\ UNCHANGED guestVars
  \/ GuestNext /\ UNCHANGED pageVars
  \/ LoseToGuest
  \/ LoseToPage

Spec == Init /\ [][Next]_vars

(* Fairness: both event loops run, the page's timers fire, and every frame *)
(* in a lane is handled unless noise got it first.                         *)
Fairness ==
  /\ WF_vars(OnFrame /\ UNCHANGED guestVars)
  /\ WF_vars(HandleFrame /\ UNCHANGED pageVars)
  /\ WF_vars(AckTimeoutResend /\ UNCHANGED guestVars)
  /\ WF_vars(AckTimeoutLost /\ UNCHANGED guestVars)
  /\ WF_vars(HelloWatchdog /\ UNCHANGED guestVars)
  /\ WF_vars(RetryHello /\ UNCHANGED guestVars)
  /\ \A c \in Calls : WF_vars(CallDeadline(c) /\ UNCHANGED guestVars)

FairSpec == Spec /\ Fairness

----------------------------------------------------------------------------
Bodies ==
  [type : {"hello", "watch", "helloOk", "helloRefused"}, id : {0}]
    \cup [type : {"call", "response"}, id : Calls]
    \cup [type : {"cancel"}, id : Ids]
    \cup [type : {"answer", "request"}, id : Requests]
Frames  == [kind : {"data", "ack"}, epoch : 1 .. MaxEpoch, seq : Nat, body : Bodies]
Flights == [seq : Nat, body : Bodies, attempts : Nat] \cup {NoFlight}
Jobs    == [id : Requests, epoch : 1 .. MaxEpoch, seq : Nat]
Outcomes == {"none", "pending", "result", "deadline", "cancelled", "unavailable", "overloaded"}

LaneTypeOK ==
  /\ queue \in Seq(Bodies) /\ Len(queue) <= MAX_SEND_QUEUE
  /\ inflight \in Flights /\ inflight.attempts <= Budget
  /\ nextSeq \in Nat \ {0}
  /\ toGuest \in Seq(Frames)

PageTypeOK ==
  /\ state \in {"idle", "hello", "up", "unavailable"}
  /\ epoch \in 0 .. MaxEpoch
  /\ nextId \in Nat \ {0}
  /\ outcome \in [Calls -> Outcomes]
  /\ serves \subseteq Jobs /\ running \subseteq Jobs
  /\ guestSeqSeen \in Nat
  /\ owed \subseteq Requests

GuestTypeOK ==
  /\ speaks \in BOOLEAN /\ active \in BOOLEAN /\ gEpoch \in 0 .. MaxEpoch
  /\ txSeq \in Nat /\ rxSeq \in Nat
  /\ executing \subseteq Calls /\ asked \subseteq Requests
  /\ restarts \in Nat
  /\ delivered \in Seq(Frames)
  /\ askedIn \subseteq (0 .. MaxEpoch) \X Requests

\* Every variable has its type; the send queue keeps its bound and no frame
\* is sent more often than its retransmit budget allows.
TypeOK == PageTypeOK /\ LaneTypeOK /\ GuestTypeOK /\ toPage \in Seq(Frames)

\* There is a session to speak in whenever the page speaks.
SessionExists ==
  /\ Established \/ inflight # NoFlight \/ serves # {} => epoch >= 1
  /\ active \/ executing # {} \/ asked # {} => gEpoch >= 1

Before(f, g) == f.epoch < g.epoch \/ (f.epoch = g.epoch /\ f.seq < g.seq)

\* The guest dispatches what the page sent at most once and in the order it
\* was sent, across retransmits, lost ACKs, replaced sessions and restarts
\* of rpcd (handle_frame's rx_seq, hello's fresh epoch).
InOrderAtMostOnce ==
  \A i, j \in 1 .. Len(delivered) : i < j => Before(delivered[i], delivered[j])

\* Every answer the guest dispatches answers a request of the very session
\* it arrives in, and a request gets one answer at most: an answer of a
\* torn-down session never reaches its successor (failSession's latch).
AnswersMatchRequests ==
  \A i \in 1 .. Len(delivered) : delivered[i].body.type = "answer" =>
    /\ <<delivered[i].epoch, delivered[i].body.id>> \in askedIn
    /\ \A j \in 1 .. Len(delivered) : delivered[j].body = delivered[i].body => i = j

\* While a session stands, an accepted request is being served or its answer
\* has been handed to the sender (runServe's latch, respond).
AcceptedIsAnswered ==
  state \in {"hello", "up"} => \A r \in owed : \E j \in serves : j.id = r

\* The page answers what it took in the session it took it in, once, and owes
\* nothing it no longer serves.
ServedExactly == AnswersMatchRequests /\ AcceptedIsAnswered

\* Calls implement the abstract promise: at most one execution, one outcome,
\* a result only for a call the guest was given.
runs == [c \in Calls |->
           Cardinality({i \in 1 .. Len(delivered) : delivered[i].body = Body("call", c)})]
Promise == INSTANCE CallSpec WITH Calls <- Calls, outcome <- outcome, runs <- runs
CallsKeepThePromise == Promise!Spec

\* Every call settles, whatever the wire and the guest do: its deadline
\* timer does not depend on the queue taking the rpc.cancel.
CallsSettle == \A c \in Calls : outcome[c] = "pending" ~> outcome[c] # "pending"

\* Once noise and failures stop, the page is up again and again, unless it
\* was detached, speaks another protocol, or the model's bounds (sessions,
\* hello replays of one session) are used up.
Calm == <>[][~(LoseToGuest \/ LoseToPage \/ SessionDown \/ Restart)]_vars
BoundsUsedUp == (state = "unavailable" /\ epoch = MaxEpoch) \/ txSeq >= MaxTx
EventuallyUp == Calm => []<>(state \in {"up", "idle"} \/ ~speaks \/ BoundsUsedUp)
=============================================================================
