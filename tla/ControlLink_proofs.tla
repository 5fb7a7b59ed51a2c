------------------------ MODULE ControlLink_proofs ------------------------
(***************************************************************************)
(* What holds of the control link for any number of sessions, calls and    *)
(* requests, any capacities and any losses: first types and the order of   *)
(* frames, then what callers and servers can count on: calls implement     *)
(* CallSpec, and answers answer what was asked in their session.           *)
(***************************************************************************)
EXTENDS ControlLink, SequenceTheorems, FiniteSetTheorems, TLAPS

Types == TypeOK /\ SessionExists

----------------------------------------------------------------------------
(* The send lane.                                                          *)

LEMMA PumpTypes ==
  ASSUME NEW q \in Seq(Bodies), Len(q) <= MAX_SEND_QUEUE + 1,
         NEW st, NEW fl \in Flights, NEW ns \in Nat \ {0},
         fl.attempts <= IF fl.body = Hello THEN HELLO_RETRANSMITS ELSE MAX_RETRANSMITS,
         ~CanFly(q, st, fl) => Len(q) <= MAX_SEND_QUEUE,
         CanFly(q, st, fl) => epoch \in 1 .. MaxEpoch,
         toGuest \in Seq(Frames), Pump(q, st, fl, ns)
  PROVE  LaneTypeOK'
<1> USE RpcLinkAssumption
<1>1. CASE CanFly(q, st, fl)
  <2>1. /\ queue' = Tail(q) /\ inflight' = Flight(ns, Head(q)) /\ nextSeq' = ns + 1
        /\ toGuest' = Append(toGuest, Data(epoch, ns, Head(q)))
    BY <1>1 DEF Pump
  <2>2. q # <<>>
    BY <1>1 DEF CanFly
  <2>3. Head(q) \in Bodies /\ Tail(q) \in Seq(Bodies) /\ Len(Tail(q)) <= MAX_SEND_QUEUE
    BY <2>2
  <2>4. Data(epoch, ns, Head(q)) \in Frames
    BY <1>1, <2>3 DEF Data, Frames
  <2>5. toGuest' \in Seq(Frames)
    BY <2>1, <2>4
  <2>6. inflight' \in Flights /\ inflight'.attempts <= Budget'
    BY <2>1, <2>3 DEF Flight, Flights, Budget
  <2> QED BY <2>1, <2>3, <2>5, <2>6 DEF LaneTypeOK
<1>2. CASE ~CanFly(q, st, fl)
  BY <1>2 DEF Pump, LaneTypeOK, Budget
<1> QED BY <1>1, <1>2

LEMMA SayTypes ==
  ASSUME Types, NEW b \in Bodies, Say(b)
  PROVE  LaneTypeOK'
<1> USE RpcLinkAssumption
<1>1. CASE Established /\ HasRoom
  <2>1. Pump(Append(queue, b), state, inflight, nextSeq)
    BY <1>1 DEF Say, Enqueue
  <2>2. Append(queue, b) \in Seq(Bodies) /\ Len(Append(queue, b)) <= MAX_SEND_QUEUE
    BY <1>1 DEF Types, TypeOK, LaneTypeOK, HasRoom
  <2>3. epoch \in 1 .. MaxEpoch
    BY <1>1 DEF Types, TypeOK, PageTypeOK, SessionExists
  <2>4. inflight \in Flights /\ nextSeq \in Nat \ {0} /\ toGuest \in Seq(Frames)
    BY DEF Types, TypeOK, LaneTypeOK
  <2>5. inflight.attempts <= IF inflight.body = Hello THEN HELLO_RETRANSMITS ELSE MAX_RETRANSMITS
    BY DEF Types, TypeOK, LaneTypeOK, Budget
  <2>6. Len(Append(queue, b)) <= MAX_SEND_QUEUE + 1
    BY <2>2
  <2> QED BY <2>1, <2>2, <2>3, <2>4, <2>5, <2>6, PumpTypes
<1>2. CASE ~(Established /\ HasRoom)
  BY <1>2 DEF Say, Enqueue, laneVars, Types, TypeOK, LaneTypeOK, Budget
<1> QED BY <1>1, <1>2

LEMMA GuestIdle ==
  ASSUME Types, UNCHANGED guestVars
  PROVE  GuestTypeOK' /\ (active' \/ executing' # {} \/ asked' # {} => gEpoch' >= 1)
BY DEF Types, TypeOK, GuestTypeOK, SessionExists, guestVars, sessionVars, historyVars

LEMMA PageIdle ==
  ASSUME Types, UNCHANGED pageVars
  PROVE  PageTypeOK' /\ (Established' \/ inflight' # NoFlight \/ serves' # {} => epoch' >= 1)
BY DEF Types, TypeOK, PageTypeOK, SessionExists, pageVars, Established

----------------------------------------------------------------------------
(* The page's actions.                                                     *)

LEMMA StartSessionTypes ==
  ASSUME Types, StartSession, UNCHANGED guestVars
  PROVE  Types'
<1> USE RpcLinkAssumption
<1>1. PageTypeOK'
  BY DEF Types, TypeOK, PageTypeOK, StartSession, FailSession, Outcomes
<1>2. LaneTypeOK'
  <2>1. Data(epoch + 1, 0, Hello) \in Frames /\ Hello \in Bodies
    BY DEF Types, TypeOK, PageTypeOK, StartSession, Data, Frames, Bodies, Hello, Body
  <2>2. Flight(0, Hello) \in Flights /\ Flight(0, Hello).attempts = 0
    BY <2>1 DEF Flight, Flights
  <2>3. toGuest' = Append(toGuest, Data(epoch + 1, 0, Hello)) /\ queue' = <<>> /\ nextSeq' = 1
        /\ inflight' = Flight(0, Hello)
    BY DEF StartSession, SendHello
  <2> QED BY <2>1, <2>2, <2>3 DEF Types, TypeOK, LaneTypeOK, Budget
<1>3. toPage' \in Seq(Frames)
  BY DEF Types, TypeOK, StartSession
<1>4. SessionExists'
  BY GuestIdle DEF Types, TypeOK, PageTypeOK, StartSession, SessionExists
<1> QED BY <1>1, <1>2, <1>3, <1>4, GuestIdle DEF Types, TypeOK

LEMMA LinkLostTypes ==
  ASSUME Types, LinkLost
  PROVE  /\ outcome' \in [Calls -> Outcomes] /\ serves' = {} /\ owed' = {}
         /\ queue' = <<>> /\ inflight' = NoFlight /\ NoFlight \in Flights
         /\ NoFlight.attempts <= Budget'
<1> USE RpcLinkAssumption
<1> QED BY DEF Types, TypeOK, PageTypeOK, LinkLost, FailSession, Outcomes, Flights, NoFlight, Budget, Hello, Body

LEMMA DetachTypes ==
  ASSUME Types, Detach, UNCHANGED guestVars
  PROVE  Types'
<1> USE RpcLinkAssumption
<1>1. PageTypeOK' /\ toPage' \in Seq(Frames)
  BY DEF Types, TypeOK, PageTypeOK, Detach, FailSession, Outcomes
<1>2. LaneTypeOK'
  BY DEF Types, TypeOK, LaneTypeOK, Detach, Flights, NoFlight, Budget, Hello, Body
<1>3. SessionExists'
  BY GuestIdle DEF Detach, FailSession, SessionExists, Established
<1> QED BY <1>1, <1>2, <1>3, GuestIdle DEF Types, TypeOK

LEMMA HelloWatchdogTypes ==
  ASSUME Types, HelloWatchdog, UNCHANGED guestVars
  PROVE  Types'
<1> USE RpcLinkAssumption
<1>1. epoch \in 1 .. MaxEpoch
  BY DEF HelloWatchdog, Types, TypeOK, PageTypeOK, SessionExists, Established
<1>2. Data(epoch, 0, Hello) \in Frames /\ Hello \in Bodies
  BY <1>1 DEF Data, Frames, Bodies, Hello, Body
<1>3. LaneTypeOK'
  <2>1. Flight(0, Hello) \in Flights /\ Flight(0, Hello).attempts = 0
    BY <1>2 DEF Flight, Flights
  <2> QED BY <1>2, <2>1 DEF HelloWatchdog, SendHello, Types, TypeOK, LaneTypeOK, Budget
<1>4. PageTypeOK' /\ toPage' \in Seq(Frames)
  BY DEF HelloWatchdog, Types, TypeOK, PageTypeOK
<1>5. SessionExists'
  BY <1>1, GuestIdle DEF HelloWatchdog, SessionExists
<1> QED BY <1>3, <1>4, <1>5, GuestIdle DEF Types, TypeOK

LEMMA CallTypes ==
  ASSUME Types, Call, UNCHANGED guestVars
  PROVE  Types'
<1>1. Body("call", nextId) \in Bodies /\ nextId \in Calls
  BY RpcLinkAssumption DEF Call, Types, TypeOK, PageTypeOK, Calls, Bodies, Body
<1>2. Say(Body("call", nextId))
  BY DEF Call, Say
<1>3. LaneTypeOK'
  BY <1>1, <1>2, SayTypes
<1>4. PageTypeOK' /\ toPage' \in Seq(Frames)
  BY <1>1 DEF Call, Types, TypeOK, PageTypeOK, Outcomes
<1>5. SessionExists'
  BY GuestIdle DEF Call, Types, SessionExists, Established
<1> QED BY <1>3, <1>4, <1>5, GuestIdle DEF Types, TypeOK

LEMMA GiveUpTypes ==
  ASSUME Types, NEW c \in Calls, NEW how \in {"deadline", "cancelled"}, GiveUp(c, how), UNCHANGED guestVars
  PROVE  Types'
<1>1. Body("cancel", c) \in Bodies
  BY DEF Bodies, Body, Ids
<1>2. LaneTypeOK'
  BY <1>1, SayTypes DEF GiveUp
<1>3. PageTypeOK' /\ toPage' \in Seq(Frames)
  BY DEF GiveUp, Types, TypeOK, PageTypeOK, Outcomes
<1>4. SessionExists'
  BY GuestIdle DEF GiveUp, Say, laneVars, Types, SessionExists, Established
<1> QED BY <1>2, <1>3, <1>4, GuestIdle DEF Types, TypeOK

LEMMA AckTimeoutTypes ==
  ASSUME Types, AckTimeoutResend \/ AckTimeoutFrozen \/ AckTimeoutLost, UNCHANGED guestVars
  PROVE  Types'
<1> USE RpcLinkAssumption
<1>1. inflight # NoFlight /\ epoch \in 1 .. MaxEpoch
  BY DEF AckTimeoutResend, AckTimeoutFrozen, AckTimeoutLost, Types, TypeOK, PageTypeOK, SessionExists
<1>2. inflight \in [seq : Nat, body : Bodies, attempts : Nat]
  BY <1>1 DEF Types, TypeOK, LaneTypeOK, Flights
<1>3. Data(epoch, inflight.seq, inflight.body) \in Frames
  BY <1>1, <1>2 DEF Data, Frames
<1>4. CASE AckTimeoutResend
  <2>1. LaneTypeOK'
    <3>1. inflight' \in Flights /\ inflight'.attempts <= Budget'
      BY <1>2, <1>4 DEF AckTimeoutResend, Flights, Budget
    <3> QED BY <1>3, <1>4, <3>1 DEF AckTimeoutResend, Retransmit, Types, TypeOK, LaneTypeOK
  <2>2. PageTypeOK' /\ toPage' \in Seq(Frames)
    BY <1>4 DEF AckTimeoutResend, Types, TypeOK, PageTypeOK
  <2>3. SessionExists'
    BY <1>1, <1>4, GuestIdle DEF AckTimeoutResend, SessionExists
  <2> QED BY <2>1, <2>2, <2>3, GuestIdle DEF Types, TypeOK
<1>5. CASE AckTimeoutFrozen
  <2>1. LaneTypeOK'
    BY <1>3, <1>5 DEF AckTimeoutFrozen, Retransmit, pageVars, Types, TypeOK, LaneTypeOK, Budget
  <2>2. toPage' \in Seq(Frames)
    BY <1>5 DEF AckTimeoutFrozen, Types, TypeOK
  <2> QED BY <1>5, <2>1, <2>2, GuestIdle, PageIdle DEF AckTimeoutFrozen, Types, TypeOK, SessionExists
<1>6. CASE AckTimeoutLost
  <2>1. LaneTypeOK' /\ PageTypeOK' /\ toPage' \in Seq(Frames)
    BY <1>6, LinkLostTypes DEF AckTimeoutLost, LinkLost, Types, TypeOK, LaneTypeOK, PageTypeOK
  <2>2. SessionExists'
    BY <1>6, GuestIdle, LinkLostTypes DEF AckTimeoutLost, LinkLost, SessionExists, Established
  <2> QED BY <2>1, <2>2, GuestIdle DEF Types, TypeOK
<1> QED BY <1>4, <1>5, <1>6

\* Jobs and what answering one does to the page.
LEMMA AnswerTypes ==
  ASSUME Types, NEW j \in Jobs, Answer(j)
  PROVE  LaneTypeOK' /\ serves' \subseteq Jobs /\ serves' \subseteq serves /\ owed' \subseteq Requests
         /\ (inflight' # NoFlight => inflight # NoFlight \/ Established)
<1>1. Body("answer", j.id) \in Bodies
  BY DEF Jobs, Bodies, Body
<1>2. CASE j \in serves
  <2>1. Say(Body("answer", j.id))
    BY <1>2 DEF Answer, Respond
  <2>2. LaneTypeOK'
    BY <1>1, <2>1, SayTypes
  <2>3. inflight' # NoFlight => inflight # NoFlight \/ Established
    BY <2>1 DEF Say, laneVars
  <2> QED BY <2>2, <2>3, <1>2 DEF Answer, Types, TypeOK, PageTypeOK
<1>3. CASE j \notin serves
  BY <1>3 DEF Answer, Types, TypeOK, PageTypeOK, LaneTypeOK, laneVars, Budget
<1> QED BY <1>2, <1>3

LEMMA HandlerTypes ==
  ASSUME Types, NEW j \in Jobs, HandlerReturns(j) \/ ServeDeadline(j), UNCHANGED guestVars
  PROVE  Types'
<1>1. Answer(j) /\ UNCHANGED <<state, epoch, nextId, outcome, guestSeqSeen, toPage>>
      /\ running' \subseteq running
  BY DEF HandlerReturns, ServeDeadline
<1>2. LaneTypeOK' /\ serves' \subseteq Jobs /\ serves' \subseteq serves /\ owed' \subseteq Requests
      /\ (inflight' # NoFlight => inflight # NoFlight \/ Established)
  BY <1>1, AnswerTypes
<1>3. PageTypeOK' /\ toPage' \in Seq(Frames)
  BY <1>1, <1>2 DEF Types, TypeOK, PageTypeOK
<1>4. SessionExists'
  BY <1>1, <1>2, GuestIdle DEF Types, SessionExists, Established
<1> QED BY <1>2, <1>3, <1>4, GuestIdle DEF Types, TypeOK

----------------------------------------------------------------------------
(* The page's receive path.  What it does to the page, part by part:       *)

PageStep ==
  /\ LaneTypeOK' /\ PageTypeOK'
  /\ (Established' \/ inflight' # NoFlight \/ serves' # {} => epoch' >= 1)

LEMMA ReceivePump ==
  ASSUME Types, epoch >= 1, NEW st, NEW fl \in {NoFlight, inflight},
         NEW q \in Seq(Bodies), Len(q) <= MAX_SEND_QUEUE, Pump(q, st, fl, nextSeq)
  PROVE  LaneTypeOK'
<1> USE RpcLinkAssumption
<1>1. fl \in Flights
  BY DEF Types, TypeOK, LaneTypeOK, Flights
<1>2. fl.attempts <= IF fl.body = Hello THEN HELLO_RETRANSMITS ELSE MAX_RETRANSMITS
  BY DEF Types, TypeOK, LaneTypeOK, Budget, NoFlight, Hello, Body
<1>3. epoch \in 1 .. MaxEpoch /\ nextSeq \in Nat \ {0} /\ toGuest \in Seq(Frames)
  BY DEF Types, TypeOK, PageTypeOK, LaneTypeOK
<1>4. Len(q) <= MAX_SEND_QUEUE + 1
  OBVIOUS
<1> QED BY <1>1, <1>2, <1>3, <1>4, PumpTypes

LEMMA OnAckTypes ==
  ASSUME Types, epoch >= 1, NEW f \in Frames, OnAck(f)
  PROVE  PageStep
<1>1. PageTypeOK' /\ epoch' >= 1
  BY DEF OnAck, Types, TypeOK, PageTypeOK
<1>2. CASE Pump(queue, state, NoFlight, nextSeq)
  <2>1. queue \in Seq(Bodies) /\ Len(queue) <= MAX_SEND_QUEUE
    BY DEF Types, TypeOK, LaneTypeOK
  <2> QED BY <1>1, <1>2, <2>1, ReceivePump DEF PageStep
<1>3. CASE UNCHANGED laneVars
  BY <1>1, <1>3 DEF laneVars, Types, TypeOK, LaneTypeOK, Budget, PageStep
<1> QED BY <1>2, <1>3 DEF OnAck

LEMMA OnHelloReplyTypes ==
  ASSUME Types, epoch >= 1, NEW f \in Frames, guestSeqSeen' = f.seq, OnHelloReply(f.body)
  PROVE  PageStep
<1> USE RpcLinkAssumption
<1>1. epoch' = epoch /\ guestSeqSeen' \in Nat
  BY DEF OnHelloReply, Frames
<1>2. CASE state = "hello" /\ f.body.type = "helloOk"
  <2>1. /\ state' = "up" /\ UNCHANGED <<outcome, serves, owed, epoch, nextId, running>>
        /\ Pump(IF HasRoom THEN Append(queue, Watch) ELSE queue, "up", inflight, nextSeq)
    BY <1>2 DEF OnHelloReply
  <2>2. Watch \in Bodies
    BY DEF Watch, Body, Bodies
  <2> DEFINE q == IF HasRoom THEN Append(queue, Watch) ELSE queue
  <2>3. q \in Seq(Bodies) /\ Len(q) <= MAX_SEND_QUEUE
    BY <2>2 DEF HasRoom, Types, TypeOK, LaneTypeOK
  <2>4. LaneTypeOK'
    <3> HIDE DEF q
    <3>1. Pump(q, "up", inflight, nextSeq)
      BY <2>1 DEF q
    <3> QED BY <2>3, <3>1, ReceivePump
  <2> QED BY <1>1, <2>1, <2>4 DEF Types, TypeOK, PageTypeOK, PageStep
<1>3. CASE state = "hello" /\ f.body.type = "helloRefused"
  <2>1. LinkLost /\ UNCHANGED <<nextSeq, toGuest, epoch, nextId, running>>
    BY <1>3 DEF OnHelloReply
  <2>2. LaneTypeOK' /\ PageTypeOK'
    BY <1>1, <2>1, LinkLostTypes DEF LinkLost, Types, TypeOK, LaneTypeOK, PageTypeOK
  <2> QED BY <1>1, <2>2 DEF PageStep
<1>4. CASE UNCHANGED <<state, outcome, serves, owed, laneVars>>
  BY <1>1, <1>4 DEF OnHelloReply, laneVars, Types, TypeOK, PageTypeOK, LaneTypeOK, Budget, PageStep
<1> QED BY <1>2, <1>3, <1>4 DEF OnHelloReply

LEMMA OnResponseTypes ==
  ASSUME Types, epoch >= 1, NEW f \in Frames, guestSeqSeen' = f.seq, OnResponse(f.body)
  PROVE  PageStep
<1>1. LaneTypeOK'
  BY DEF OnResponse, laneVars, Types, TypeOK, LaneTypeOK, Budget
<1>2. PageTypeOK' /\ epoch' >= 1
  BY DEF OnResponse, Frames, Types, TypeOK, PageTypeOK, Outcomes
<1> QED BY <1>1, <1>2 DEF PageStep

LEMMA OnRequestTypes ==
  ASSUME Types, epoch >= 1, NEW f \in Frames, guestSeqSeen' = f.seq, OnRequest(f.body, f.seq)
  PROVE  PageStep
<1>1. f.body.id \in Requests /\ f.body \in Bodies /\ f.seq \in Nat
  BY DEF OnRequest, Frames, Bodies
<1>2. StartServe(f.body.id, f.seq) /\ UNCHANGED <<state, epoch, nextId, outcome>>
  BY DEF OnRequest
<1>3. CASE Respond(f.body.id) /\ UNCHANGED <<serves, running, owed>>
  <2>1. Body("answer", f.body.id) \in Bodies
    BY <1>1 DEF Bodies, Body
  <2>2. LaneTypeOK'
    BY <1>3, <2>1, SayTypes DEF Respond
  <2> QED BY <1>1, <1>2, <1>3, <2>2 DEF Types, TypeOK, PageTypeOK, PageStep
<1>4. CASE /\ serves' = serves \cup {Job(f.body.id, f.seq)}
           /\ running' = running \cup {Job(f.body.id, f.seq)}
           /\ owed' = owed \cup {f.body.id}
           /\ UNCHANGED laneVars
  <2>1. Job(f.body.id, f.seq) \in Jobs
    BY <1>1 DEF Job, Jobs, Types, TypeOK, PageTypeOK
  <2>2. LaneTypeOK'
    BY <1>4 DEF laneVars, Types, TypeOK, LaneTypeOK, Budget
  <2> QED BY <1>1, <1>2, <1>4, <2>1, <2>2 DEF Types, TypeOK, PageTypeOK, PageStep
<1> QED BY <1>2, <1>3, <1>4 DEF StartServe

LEMMA OnCancelTypes ==
  ASSUME Types, epoch >= 1, NEW f \in Frames, guestSeqSeen' = f.seq, OnCancel(f.body)
  PROVE  PageStep
<1>1. UNCHANGED <<state, epoch, nextId, outcome, running>> /\ f.seq \in Nat
  BY DEF OnCancel, Frames
<1>2. CASE \E j \in serves : j.id = f.body.id /\ Answer(j)
  <2>1. PICK j \in serves : Answer(j)
    BY <1>2
  <2>2. LaneTypeOK' /\ serves' \subseteq Jobs /\ owed' \subseteq Requests
    BY <2>1, AnswerTypes DEF Types, TypeOK, PageTypeOK
  <2> QED BY <1>1, <2>2 DEF Types, TypeOK, PageTypeOK, PageStep
<1>3. CASE UNCHANGED <<serves, laneVars, owed>>
  BY <1>1, <1>3 DEF laneVars, Types, TypeOK, PageTypeOK, LaneTypeOK, Budget, PageStep
<1> QED BY <1>2, <1>3 DEF OnCancel, CancelServe

LEMMA OnFrameTypes ==
  ASSUME Types, OnFrame, UNCHANGED guestVars
  PROVE  Types'
<1> DEFINE f == Head(toPage)
<1>1. f \in Frames /\ toPage' \in Seq(Frames)
  BY DEF OnFrame, Types, TypeOK
<1>2. CASE UNCHANGED pageVars /\ UNCHANGED toGuest
  <2>1. LaneTypeOK'
    BY <1>2 DEF pageVars, Types, TypeOK, LaneTypeOK, Budget
  <2> QED BY <1>1, <1>2, <2>1, GuestIdle, PageIdle DEF Types, TypeOK, SessionExists
<1>3. CASE f.epoch = epoch /\ (OnAck(f) \/ (OnData(f) /\ guestSeqSeen' = f.seq))
  <2>1. epoch >= 1
    BY <1>1, <1>3 DEF Frames
  <2>2. PageStep
    <3> HIDE DEF f
    <3>1. CASE OnAck(f)
      BY <1>1, <2>1, <3>1, OnAckTypes
    <3>2. CASE guestSeqSeen' = f.seq /\ OnHelloReply(f.body)
      BY <1>1, <2>1, <3>2, OnHelloReplyTypes
    <3>3. CASE guestSeqSeen' = f.seq /\ OnResponse(f.body)
      BY <1>1, <2>1, <3>3, OnResponseTypes
    <3>4. CASE guestSeqSeen' = f.seq /\ OnRequest(f.body, f.seq)
      BY <1>1, <2>1, <3>4, OnRequestTypes
    <3>5. CASE guestSeqSeen' = f.seq /\ OnCancel(f.body)
      BY <1>1, <2>1, <3>5, OnCancelTypes
    <3>6. CASE UNCHANGED pageVars /\ UNCHANGED toGuest
      BY <2>1, <3>6, PageIdle DEF pageVars, Types, TypeOK, LaneTypeOK, Budget, PageStep
    <3> QED BY <1>3, <3>1, <3>2, <3>3, <3>4, <3>5, <3>6 DEF OnData
  <2> QED BY <1>1, <2>2, GuestIdle DEF PageStep, Types, TypeOK, SessionExists
<1> QED BY <1>2, <1>3 DEF OnFrame, OnData

----------------------------------------------------------------------------
(* The guest's actions, and noise.                                         *)

GuestStep ==
  /\ GuestTypeOK'
  /\ (active' \/ executing' # {} \/ asked' # {} => gEpoch' >= 1)
  /\ toGuest' \in Seq(Frames) /\ toPage' \in Seq(Frames)

LEMMA GuestStepTypes ==
  ASSUME Types, GuestStep, UNCHANGED pageVars
  PROVE  Types'
<1>1. LaneTypeOK'
  BY DEF GuestStep, pageVars, Types, TypeOK, LaneTypeOK, Budget
<1> QED BY <1>1, PageIdle DEF GuestStep, Types, TypeOK, SessionExists

LEMMA SayToPage ==
  ASSUME Types, gEpoch >= 1, NEW b \in Bodies, Send(b) \/ Dropped
  PROVE  toPage' \in Seq(Frames) /\ txSeq' \in Nat
<1>1. Data(gEpoch, txSeq + 1, b) \in Frames
  BY DEF Data, Frames, Types, TypeOK, GuestTypeOK
<1> QED BY <1>1 DEF Send, Dropped, Types, TypeOK, GuestTypeOK

LEMMA HandleFrameTypes ==
  ASSUME Types, HandleFrame, UNCHANGED pageVars
  PROVE  Types'
<1> USE RpcLinkAssumption, RpcdWireAssumption
<1> DEFINE f == Head(toGuest)
<1>1. f \in Frames /\ toGuest' \in Seq(Frames) /\ UNCHANGED <<speaks, restarts>>
  BY DEF HandleFrame, Types, TypeOK, LaneTypeOK
<1> HIDE DEF f
<1>2. f.epoch \in 1 .. MaxEpoch /\ f.seq \in Nat /\ f.body \in Bodies
  BY <1>1 DEF Frames
<1>3. txSeq \in Nat /\ toPage \in Seq(Frames)
  BY DEF Types, TypeOK, GuestTypeOK
<1>4. Body("helloRefused", 0) \in Bodies /\ Body("helloOk", 0) \in Bodies /\ Hello \in Bodies
  BY DEF Bodies, Body, Hello
<1>5. \A e \in 1 .. MaxEpoch, s \in Nat, b \in Bodies : Ack(e, s) \in Frames /\ Data(e, s, b) \in Frames
  BY <1>4 DEF Ack, Data, Frames
<1>6. CASE RefuseHello(f)
  <2>1. toPage' \in Seq(Frames)
    BY <1>2, <1>3, <1>4, <1>5, <1>6 DEF RefuseHello
  <2> QED BY <1>1, <1>6, <2>1, GuestStepTypes
       DEF RefuseHello, sessionVars, historyVars, Types, TypeOK, GuestTypeOK, SessionExists, GuestStep
<1>7. CASE ReplayHello(f)
  <2>1. toPage' \in Seq(Frames)
    BY <1>2, <1>3, <1>4, <1>5, <1>7 DEF ReplayHello
  <2> QED BY <1>1, <1>7, <2>1, GuestStepTypes
       DEF ReplayHello, historyVars, Types, TypeOK, GuestTypeOK, SessionExists, GuestStep
<1>8. CASE NewSession(f)
  <2>1. toPage' \in Seq(Frames)
    BY <1>2, <1>3, <1>4, <1>5, <1>8 DEF NewSession
  <2> QED BY <1>1, <1>2, <1>8, <2>1, GuestStepTypes
       DEF NewSession, historyVars, Types, TypeOK, GuestTypeOK, GuestStep
<1>9. CASE StaleFrame(f)
  BY <1>1, <1>9, GuestStepTypes
     DEF StaleFrame, sessionVars, historyVars, Types, TypeOK, GuestTypeOK, SessionExists, GuestStep
<1>10. CASE DuplicateFrame(f)
  <2>1. toPage' \in Seq(Frames)
    BY <1>2, <1>3, <1>5, <1>10 DEF DuplicateFrame
  <2> QED BY <1>1, <1>10, <2>1, GuestStepTypes
       DEF DuplicateFrame, sessionVars, historyVars, Types, TypeOK, GuestTypeOK, SessionExists, GuestStep
<1>11. CASE DispatchFrame(f)
  <2>1. Overloads(f.body) => Body("response", f.body.id) \in Bodies
    BY <1>2 DEF Overloads, Bodies, Body
  <2>2. toPage' \in Seq(Frames) /\ txSeq' \in Nat
    <3>1. Ack(gEpoch, f.seq) \in Frames /\ gEpoch = f.epoch
      BY <1>2, <1>5, <1>11 DEF DispatchFrame
    <3>2. CASE Overloads(f.body)
      <4>1. Data(gEpoch, txSeq + 1, Body("response", f.body.id)) \in Frames
        BY <1>2, <1>3, <1>5, <2>1, <3>1, <3>2
      <4>2. /\ txSeq' = txSeq + 1
            /\ toPage' = toPage \o <<Ack(gEpoch, f.seq),
                                     Data(gEpoch, txSeq + 1, Body("response", f.body.id))>>
        BY <1>11, <3>2 DEF DispatchFrame
      <4> QED BY <1>3, <3>1, <4>1, <4>2
    <3>3. CASE ~Overloads(f.body)
      BY <1>3, <1>11, <3>1, <3>3 DEF DispatchFrame
    <3> QED BY <3>2, <3>3
  <2>3. executing' \subseteq Calls /\ asked' \subseteq Requests
    BY <1>2, <1>11 DEF DispatchFrame, DispatchBody, Bodies, Types, TypeOK, GuestTypeOK
  <2>4. delivered' \in Seq(Frames)
    <3>1. delivered \in Seq(Frames) /\ delivered' = Append(delivered, f)
      BY <1>11 DEF DispatchFrame, Types, TypeOK, GuestTypeOK
    <3> QED BY <1>1, <3>1
  <2>5. rxSeq' \in Nat /\ gEpoch >= 1
    BY <1>2, <1>11 DEF DispatchFrame, Types, SessionExists
  <2> QED BY <1>1, <1>11, <2>2, <2>3, <2>4, <2>5, GuestStepTypes
       DEF DispatchFrame, Types, TypeOK, GuestTypeOK, GuestStep
<1> QED BY <1>6, <1>7, <1>8, <1>9, <1>10, <1>11 DEF HandleFrame, f

LEMMA GuestNextTypes ==
  ASSUME Types, GuestNext, UNCHANGED pageVars
  PROVE  Types'
<1> USE RpcLinkAssumption, RpcdWireAssumption
<1>1. CASE HandleFrame
  BY <1>1, HandleFrameTypes
<1>2. ASSUME NEW c \in executing, AnswerCall(c) PROVE Types'
  <2>1. gEpoch >= 1 /\ Body("response", c) \in Bodies
    BY DEF Types, TypeOK, GuestTypeOK, SessionExists, Bodies, Body
  <2>2. toPage' \in Seq(Frames) /\ txSeq' \in Nat
    BY <1>2, <2>1, SayToPage DEF AnswerCall
  <2> QED BY <1>2, <2>1, <2>2, GuestStepTypes
       DEF AnswerCall, historyVars, Types, TypeOK, LaneTypeOK, GuestTypeOK, SessionExists, GuestStep
<1>3. ASSUME NEW r \in Requests, AskPage(r) PROVE Types'
  <2>1. gEpoch >= 1 /\ Body("request", r) \in Bodies
    BY <1>3 DEF AskPage, Types, TypeOK, GuestTypeOK, SessionExists, Bodies, Body
  <2>2. toPage' \in Seq(Frames) /\ txSeq' \in Nat
    BY <1>3, <2>1, SayToPage DEF AskPage
  <2> QED BY <1>3, <2>1, <2>2, GuestStepTypes
       DEF AskPage, Types, TypeOK, LaneTypeOK, GuestTypeOK, SessionExists, GuestStep
<1>4. ASSUME NEW r \in Requests, CancelAsked(r) PROVE Types'
  <2>1. gEpoch >= 1 /\ Body("cancel", r) \in Bodies
    BY <1>4 DEF CancelAsked, Types, TypeOK, GuestTypeOK, SessionExists, Bodies, Body, Ids
  <2>2. toPage' \in Seq(Frames) /\ txSeq' \in Nat
    BY <1>4, <2>1, SayToPage DEF CancelAsked
  <2>3. asked' \subseteq Requests
    BY <1>4 DEF CancelAsked, Types, TypeOK, GuestTypeOK
  <2> QED BY <1>4, <2>1, <2>2, <2>3, GuestStepTypes
       DEF CancelAsked, historyVars, Types, TypeOK, LaneTypeOK, GuestTypeOK, SessionExists, GuestStep
<1>5. CASE SessionDown
  BY <1>5, GuestStepTypes
     DEF SessionDown, historyVars, Types, TypeOK, LaneTypeOK, GuestTypeOK, SessionExists, GuestStep
<1>6. CASE Restart
  <2>1. PICK n \in 0 .. Len(toPage) : toPage' = SubSeq(toPage, 1, n)
    BY <1>6 DEF Restart
  <2>2. toPage' \in Seq(Frames)
    <3>1. toPage \in Seq(Frames)
      BY DEF Types, TypeOK
    <3>2. \A i \in 1 .. n : toPage[i] \in Frames
      BY <3>1
    <3> QED BY <2>1, <3>1, <3>2, SubSeqProperties
  <2>3. /\ UNCHANGED <<speaks, historyVars>> /\ toGuest' = <<>> /\ restarts' = restarts + 1
        /\ txSeq' = 0 /\ rxSeq' = 0 /\ gEpoch' = 0 /\ executing' = {} /\ asked' = {}
    BY <1>6 DEF Restart
  <2>4. active' = FALSE
    BY <1>6 DEF Restart
  <2>5. GuestTypeOK'
    <3>1. active' \in BOOLEAN /\ speaks' \in BOOLEAN
      BY <2>3, <2>4 DEF Types, TypeOK, GuestTypeOK
    <3> QED BY <2>3, <3>1 DEF historyVars, Types, TypeOK, GuestTypeOK
  <2> QED BY <2>2, <2>3, <2>4, <2>5, GuestStepTypes DEF GuestStep
<1> QED BY <1>1, <1>2, <1>3, <1>4, <1>5, <1>6 DEF GuestNext

LEMMA PageNextTypes ==
  ASSUME Types, PageNext, UNCHANGED guestVars
  PROVE  Types'
<1>1. CASE Attach \/ RetryHello
  BY <1>1, StartSessionTypes DEF Attach, RetryHello
<1>2. CASE \E c \in Calls : CallDeadline(c) \/ CallAborted(c)
  <2>1. PICK c \in Calls : GiveUp(c, "deadline") \/ GiveUp(c, "cancelled")
    BY <1>2 DEF CallDeadline, CallAborted
  <2>2. CASE GiveUp(c, "deadline")
    BY <2>2, GiveUpTypes
  <2>3. CASE GiveUp(c, "cancelled")
    BY <2>3, GiveUpTypes
  <2> QED BY <2>1, <2>2, <2>3
<1>3. CASE (\E j \in running : HandlerReturns(j)) \/ (\E j \in serves : ServeDeadline(j))
  <2>1. PICK j \in Jobs : HandlerReturns(j) \/ ServeDeadline(j)
    BY <1>3 DEF Types, TypeOK, PageTypeOK
  <2> QED BY <2>1, HandlerTypes
<1>4. CASE Detach \/ Call \/ HelloWatchdog \/ OnFrame
  BY <1>4, DetachTypes, CallTypes, HelloWatchdogTypes, OnFrameTypes
<1>5. CASE AckTimeoutResend \/ AckTimeoutFrozen \/ AckTimeoutLost
  BY <1>5, AckTimeoutTypes
<1> QED BY <1>1, <1>2, <1>3, <1>4, <1>5 DEF PageNext, PageTimers

LEMMA NoiseTypes ==
  ASSUME Types, LoseToGuest \/ LoseToPage
  PROVE  Types'
<1>1. toGuest \in Seq(Frames) /\ toPage \in Seq(Frames)
  BY DEF Types, TypeOK, LaneTypeOK
<1>2. toGuest' \in Seq(Frames) /\ toPage' \in Seq(Frames)
  BY <1>1, HeadTailProperties DEF LoseToGuest, LoseToPage
<1>3. UNCHANGED pageVars /\ UNCHANGED guestVars
  BY DEF LoseToGuest, LoseToPage
<1> QED BY <1>2, <1>3, GuestIdle, GuestStepTypes DEF GuestStep

LEMMA InitTypes == Init => Types
<1> USE RpcLinkAssumption, RpcdWireAssumption
<1> SUFFICES ASSUME Init PROVE Types
  OBVIOUS
<1>1. PageTypeOK
  BY DEF Init, PageInit, PageTypeOK, Outcomes
<1>4. GuestTypeOK
  <2>1. speaks \in BOOLEAN /\ active \in BOOLEAN
    BY DEF Init, GuestInit
  <2> QED BY <2>1 DEF Init, GuestInit, GuestTypeOK
<1>2. LaneTypeOK
  BY DEF Init, PageInit, LaneTypeOK, Flights, NoFlight, Budget, Hello, Body
<1>3. SessionExists
  BY DEF Init, PageInit, GuestInit, SessionExists, Established
<1> QED BY <1>1, <1>2, <1>3, <1>4 DEF Init, Types, TypeOK

LEMMA NextTypes == Types /\ [Next]_vars => Types'
<1> SUFFICES ASSUME Types, [Next]_vars PROVE Types'
  OBVIOUS
<1>1. CASE PageNext /\ UNCHANGED guestVars
  BY <1>1, PageNextTypes
<1>2. CASE GuestNext /\ UNCHANGED pageVars
  BY <1>2, GuestNextTypes
<1>3. CASE LoseToGuest \/ LoseToPage
  BY <1>3, NoiseTypes
<1>4. CASE UNCHANGED vars
  <2>1. GuestStep
    BY <1>4, GuestIdle DEF vars, Types, TypeOK, LaneTypeOK, GuestStep
  <2> QED BY <1>4, <2>1, GuestStepTypes DEF vars
<1> QED BY <1>1, <1>2, <1>3, <1>4 DEF Next

\* Whatever the number of sessions, calls and requests and however much is
\* lost, every variable keeps its type: in particular the send queue never
\* outgrows MAX_SEND_QUEUE and no frame is resent past its budget (pump,
\* enqueue, onAckTimeout).
THEOREM TypeCorrect == Spec => []TypeOK
<1>1. Types => TypeOK
  BY DEF Types
<1> QED BY <1>1, InitTypes, NextTypes, PTL DEF Spec

----------------------------------------------------------------------------
(* The order of dispatch.  It rests on the order of the lane: read from its *)
(* head, the lane holds frames of ever later <<epoch, seq>>, repeated only  *)
(* by retransmission, none of them earlier than anything dispatched; and    *)
(* rxSeq stands at or above everything dispatched in the open session.      *)

NoLater(f, g) == f.epoch < g.epoch \/ (f.epoch = g.epoch /\ f.seq <= g.seq)
Sent(f)       == f.epoch < epoch \/ (f.epoch = epoch /\ f.seq < nextSeq)
NoHello(q)    == \A i \in 1 .. Len(q) : q[i] # Hello

\* The sender: hello alone has sequence 0, and the frame in flight is the
\* last one numbered.
SenderInv ==
  /\ NoHello(queue)
  /\ inflight # NoFlight => /\ inflight.seq + 1 = nextSeq
                            /\ inflight.body = Hello <=> inflight.seq = 0
  /\ state = "hello" => nextSeq = 1

LaneInv ==
  /\ \A i \in 1 .. Len(toGuest) :
        Sent(toGuest[i]) /\ (toGuest[i].body = Hello <=> toGuest[i].seq = 0)
  /\ \A i, j \in 1 .. Len(toGuest) : i < j => NoLater(toGuest[i], toGuest[j])

DeliveredInv ==
  /\ \A k \in 1 .. Len(delivered) : Sent(delivered[k]) /\ delivered[k].seq >= 1
  /\ \A k \in 1 .. Len(delivered), i \in 1 .. Len(toGuest) : NoLater(delivered[k], toGuest[i])
  /\ active => \A k \in 1 .. Len(delivered) :
       delivered[k].epoch < gEpoch \/ (delivered[k].epoch = gEpoch /\ delivered[k].seq <= rxSeq)

OrderInv == SenderInv /\ LaneInv /\ DeliveredInv /\ InOrderAtMostOnce

----------------------------------------------------------------------------
(* A step of the page either leaves the lane alone or appends to it the    *)
(* frame it then has in flight.                                            *)

Quiet ==
  /\ UNCHANGED <<toGuest, epoch, nextSeq>>
  /\ inflight' \in {inflight, NoFlight}
  /\ NoHello(queue')
  /\ state' = "hello" => state = "hello"

Sends ==
  /\ toGuest' = Append(toGuest, Data(epoch', inflight'.seq, inflight'.body))
  /\ inflight' # NoFlight
  /\ nextSeq' = inflight'.seq + 1
  /\ inflight'.seq \in Nat /\ inflight'.body \in Bodies
  /\ epoch' \in Nat
  /\ epoch' > epoch \/ (epoch' = epoch /\ inflight'.seq + 1 >= nextSeq)
  /\ inflight'.body = Hello <=> inflight'.seq = 0
  /\ NoHello(queue')
  /\ state' = "hello" => nextSeq' = 1

LEMMA NoHelloTail == ASSUME NEW q \in Seq(Bodies), q # <<>>, NoHello(q)
                     PROVE  NoHello(Tail(q)) /\ Head(q) # Hello
BY HeadTailProperties DEF NoHello

LEMMA NoHelloAppend == ASSUME NEW q \in Seq(Bodies), NEW b \in Bodies, b # Hello, NoHello(q)
                       PROVE  NoHello(Append(q, b))
BY DEF NoHello

LEMMA PumpOrder ==
  ASSUME Types, SenderInv, NEW q \in Seq(Bodies), NoHello(q), NEW st, NEW fl \in {NoFlight, inflight},
         Pump(q, st, fl, nextSeq), epoch' = epoch, state' = st, state' = "hello" => state = "hello"
  PROVE  Quiet \/ Sends
<1>1. CASE CanFly(q, st, fl)
  <2>1. /\ queue' = Tail(q) /\ inflight' = Flight(nextSeq, Head(q)) /\ nextSeq' = nextSeq + 1
        /\ toGuest' = Append(toGuest, Data(epoch, nextSeq, Head(q)))
    BY <1>1 DEF Pump
  <2>2. st # "hello" /\ q # <<>>
    BY <1>1 DEF CanFly
  <2>3. NoHello(queue') /\ Head(q) # Hello /\ Head(q) \in Bodies
    BY <2>1, <2>2, NoHelloTail, HeadTailProperties
  <2>4. epoch \in Nat /\ nextSeq \in Nat \ {0}
    BY DEF Types, TypeOK, PageTypeOK, LaneTypeOK
  <2>5. inflight'.seq = nextSeq /\ inflight'.body = Head(q) /\ inflight' # NoFlight
    BY <2>1, <2>4 DEF Flight, NoFlight
  <2> QED BY <2>1, <2>2, <2>3, <2>4, <2>5 DEF Sends
<1>2. CASE ~CanFly(q, st, fl)
  BY <1>2 DEF Pump, Quiet
<1> QED BY <1>1, <1>2

LEMMA SayOrder ==
  ASSUME Types, SenderInv, NEW b \in Bodies, b # Hello, Say(b), UNCHANGED <<epoch, state>>
  PROVE  Quiet \/ Sends
<1>1. CASE Established /\ HasRoom
  <2>1. Pump(Append(queue, b), state, inflight, nextSeq)
    BY <1>1 DEF Say, Enqueue
  <2>2. Append(queue, b) \in Seq(Bodies) /\ NoHello(Append(queue, b))
    BY NoHelloAppend DEF Types, TypeOK, LaneTypeOK, SenderInv
  <2> QED BY <2>1, <2>2, PumpOrder
<1>2. CASE ~(Established /\ HasRoom)
  BY <1>2 DEF Say, Enqueue, laneVars, Quiet, SenderInv
<1> QED BY <1>1, <1>2

LEMMA AnswerOrder ==
  ASSUME Types, SenderInv, NEW j \in Jobs, Answer(j), UNCHANGED <<epoch, state>>
  PROVE  Quiet \/ Sends
<1>1. CASE j \in serves
  <2>1. Body("answer", j.id) \in Bodies /\ Body("answer", j.id) # Hello /\ Say(Body("answer", j.id))
    BY <1>1 DEF Jobs, Bodies, Body, Hello, Answer, Respond
  <2> QED BY <2>1, SayOrder
<1>2. CASE j \notin serves
  BY <1>2 DEF Answer, laneVars, Quiet, SenderInv
<1> QED BY <1>1, <1>2

LEMMA LinkLostQuiet ==
  ASSUME SenderInv, LinkLost, UNCHANGED <<toGuest, epoch, nextSeq>>
  PROVE  Quiet
BY DEF LinkLost, Quiet, NoHello

LEMMA OnFrameOrder ==
  ASSUME Types, SenderInv, OnFrame
  PROVE  Quiet \/ Sends
<1> DEFINE f == Head(toPage)
<1>1. f \in Frames
  BY DEF OnFrame, Types, TypeOK
<1> HIDE DEF f
<1>2. queue \in Seq(Bodies) /\ NoHello(queue)
  BY DEF Types, TypeOK, LaneTypeOK, SenderInv
<1>3. CASE UNCHANGED pageVars /\ UNCHANGED toGuest
  BY <1>3 DEF pageVars, Quiet, SenderInv
<1>4. CASE OnAck(f)
  <2>1. UNCHANGED <<epoch, state>> /\ (Pump(queue, state, NoFlight, nextSeq) \/ UNCHANGED laneVars)
    BY <1>4 DEF OnAck
  <2>2. CASE Pump(queue, state, NoFlight, nextSeq)
    BY <1>2, <2>1, <2>2, PumpOrder
  <2>3. CASE UNCHANGED laneVars
    BY <2>1, <2>3 DEF laneVars, Quiet, SenderInv
  <2> QED BY <2>1, <2>2, <2>3
<1>5. CASE OnHelloReply(f.body)
  <2>1. CASE state = "hello" /\ f.body.type = "helloOk"
    <3> DEFINE q == IF HasRoom THEN Append(queue, Watch) ELSE queue
    <3>1. state' = "up" /\ epoch' = epoch /\ Pump(q, "up", inflight, nextSeq)
      BY <1>5, <2>1 DEF OnHelloReply
    <3>2. Watch \in Bodies /\ Watch # Hello
      BY DEF Watch, Body, Bodies, Hello
    <3>3. q \in Seq(Bodies) /\ NoHello(q)
      BY <1>2, <3>2, NoHelloAppend
    <3> HIDE DEF q
    <3> QED BY <3>1, <3>3, PumpOrder
  <2>2. CASE state = "hello" /\ f.body.type = "helloRefused"
    BY <1>5, <2>2, LinkLostQuiet DEF OnHelloReply
  <2>3. CASE UNCHANGED <<state, outcome, serves, owed, laneVars>>
    BY <1>5, <2>3 DEF OnHelloReply, laneVars, Quiet, SenderInv
  <2> QED BY <1>5, <2>1, <2>2, <2>3 DEF OnHelloReply
<1>6. CASE OnResponse(f.body)
  BY <1>6 DEF OnResponse, laneVars, Quiet, SenderInv
<1>7. CASE OnRequest(f.body, f.seq)
  <2>1. UNCHANGED <<epoch, state>> /\ (Respond(f.body.id) \/ UNCHANGED laneVars)
    BY <1>7 DEF OnRequest, StartServe
  <2>2. CASE Respond(f.body.id)
    <3>1. f.body.id \in Requests
      BY <1>1, <1>7 DEF OnRequest, Frames, Bodies
    <3>2. Body("answer", f.body.id) \in Bodies /\ Body("answer", f.body.id) # Hello
      BY <3>1 DEF Bodies, Body, Hello
    <3> QED BY <2>1, <2>2, <3>2, SayOrder DEF Respond
  <2>3. CASE UNCHANGED laneVars
    BY <2>1, <2>3 DEF laneVars, Quiet, SenderInv
  <2> QED BY <2>1, <2>2, <2>3
<1>8. CASE OnCancel(f.body)
  <2>1. UNCHANGED <<epoch, state>>
    BY <1>8 DEF OnCancel
  <2>2. CASE \E j \in serves : Answer(j)
    BY <2>1, <2>2, AnswerOrder DEF Types, TypeOK, PageTypeOK
  <2>3. CASE UNCHANGED laneVars
    BY <2>1, <2>3 DEF laneVars, Quiet, SenderInv
  <2> QED BY <1>8, <2>2, <2>3 DEF OnCancel, CancelServe
<1> QED BY <1>3, <1>4, <1>5, <1>6, <1>7, <1>8 DEF OnFrame, OnData, f

LEMMA PageNextOrder ==
  ASSUME Types, SenderInv, PageNext
  PROVE  Quiet \/ Sends
<1> USE RpcLinkAssumption
<1>0. epoch \in Nat /\ nextSeq \in Nat \ {0} /\ Hello \in Bodies
  BY DEF Types, TypeOK, PageTypeOK, LaneTypeOK, Hello, Body, Bodies
<1>1. CASE Attach \/ RetryHello
  <2>1. StartSession
    BY <1>1 DEF Attach, RetryHello
  <2> QED BY <1>0, <2>1 DEF StartSession, SendHello, Flight, NoFlight, Sends, NoHello
<1>2. CASE HelloWatchdog
  <2>1. nextSeq = 1 /\ NoHello(queue)
    BY <1>2 DEF HelloWatchdog, SenderInv
  <2> QED BY <1>0, <1>2, <2>1 DEF HelloWatchdog, SendHello, Flight, NoFlight, Sends
<1>3. CASE \E c \in Calls : CallDeadline(c) \/ CallAborted(c)
  <2>1. PICK c \in Calls : Say(Body("cancel", c)) /\ UNCHANGED <<epoch, state>>
    BY <1>3 DEF CallDeadline, CallAborted, GiveUp
  <2>2. Body("cancel", c) \in Bodies /\ Body("cancel", c) # Hello
    BY DEF Bodies, Body, Ids, Hello
  <2> QED BY <2>1, <2>2, SayOrder
<1>4. CASE (\E j \in running : HandlerReturns(j)) \/ (\E j \in serves : ServeDeadline(j))
  <2>1. PICK j \in Jobs : Answer(j) /\ UNCHANGED <<epoch, state>>
    BY <1>4 DEF HandlerReturns, ServeDeadline, Types, TypeOK, PageTypeOK
  <2> QED BY <2>1, AnswerOrder
<1>5. CASE Detach
  BY <1>5 DEF Detach, Quiet, NoHello
<1>6. CASE Call
  <2>1. Body("call", nextId) \in Bodies /\ Body("call", nextId) # Hello
    BY <1>6 DEF Call, Types, TypeOK, PageTypeOK, Calls, Bodies, Body, Hello
  <2>2. Say(Body("call", nextId)) /\ UNCHANGED <<epoch, state>>
    BY <1>6 DEF Call, Say
  <2> QED BY <2>1, <2>2, SayOrder
<1>7. CASE OnFrame
  BY <1>7, OnFrameOrder
<1>8. CASE AckTimeoutResend \/ AckTimeoutFrozen
  <2>1. inflight # NoFlight /\ Retransmit /\ UNCHANGED <<state, epoch, queue, nextSeq>>
        /\ inflight' \in {inflight, [inflight EXCEPT !.attempts = @ + 1]}
    BY <1>8 DEF AckTimeoutResend, AckTimeoutFrozen, pageVars
  <2>2. inflight \in [seq : Nat, body : Bodies, attempts : Nat]
    BY <2>1 DEF Types, TypeOK, LaneTypeOK, Flights
  <2>3. inflight'.seq = inflight.seq /\ inflight'.body = inflight.body /\ inflight.seq \in Nat
        /\ inflight.body \in Bodies
    BY <2>1, <2>2
  <2>4. inflight' # NoFlight
    BY <2>3 DEF NoFlight
  <2> QED BY <1>0, <2>1, <2>3, <2>4 DEF Retransmit, SenderInv, Sends
<1>9. CASE AckTimeoutLost
  BY <1>9, LinkLostQuiet DEF AckTimeoutLost
<1> QED BY <1>1, <1>2, <1>3, <1>4, <1>5, <1>6, <1>7, <1>8, <1>9 DEF PageNext, PageTimers

----------------------------------------------------------------------------
(* Each kind of step keeps OrderInv.                                       *)

LEMMA QuietOrder ==
  ASSUME Types, OrderInv, Quiet, UNCHANGED guestVars
  PROVE  OrderInv'
<1>1. SenderInv'
  BY DEF Quiet, OrderInv, SenderInv, NoHello
<1>2. LaneInv'
  BY DEF Quiet, OrderInv, LaneInv, Sent, NoLater
<1>3. DeliveredInv' /\ InOrderAtMostOnce'
  BY DEF Quiet, OrderInv, DeliveredInv, InOrderAtMostOnce, Before, Sent, NoLater, guestVars, sessionVars, historyVars
<1> QED BY <1>1, <1>2, <1>3 DEF OrderInv

LEMMA SendsOrder ==
  ASSUME Types, OrderInv, Sends, UNCHANGED guestVars
  PROVE  OrderInv'
<1> DEFINE g == Data(epoch', inflight'.seq, inflight'.body)
           Now(f) == f.epoch < epoch' \/ (f.epoch = epoch' /\ f.seq < nextSeq')
<1>1. toGuest \in Seq(Frames) /\ delivered \in Seq(Frames) /\ epoch \in Nat /\ nextSeq \in Nat \ {0}
  BY RpcLinkAssumption DEF Types, TypeOK, LaneTypeOK, GuestTypeOK, PageTypeOK
<1>2. /\ g.epoch = epoch' /\ g.seq = inflight'.seq /\ g.body = inflight'.body
      /\ g.epoch \in Nat /\ g.seq \in Nat
  BY DEF Sends, Data
<1>3. /\ \A i \in 1 .. Len(toGuest) : toGuest'[i] = toGuest[i]
      /\ toGuest'[Len(toGuest')] = g
      /\ Len(toGuest') = Len(toGuest) + 1 /\ Len(toGuest) \in Nat
  BY <1>1 DEF Sends
<1>4. \A f \in Frames : Sent(f) => Now(f) /\ NoLater(f, g)
  <2> TAKE f \in Frames
  <2>1. f.epoch \in Nat /\ f.seq \in Nat
    BY RpcLinkAssumption DEF Frames
  <2> QED BY <1>1, <1>2, <2>1 DEF Sends, Sent, NoLater
<1>5. \A i \in 1 .. Len(toGuest) : toGuest[i] \in Frames
  BY <1>1
<1>6. \A k \in 1 .. Len(delivered) : delivered[k] \in Frames
  BY <1>1
<1>7. delivered' = delivered /\ active' = active /\ gEpoch' = gEpoch /\ rxSeq' = rxSeq
  BY DEF guestVars, sessionVars, historyVars
<1>8. Now(g) /\ (g.body = Hello <=> g.seq = 0)
  BY <1>2 DEF Sends, Sent
<1> HIDE DEF g
<1>9. SenderInv'
  BY <1>1 DEF Sends, SenderInv, NoHello
<1>10. LaneInv'
  <2>1. \A i \in 1 .. Len(toGuest) : Now(toGuest[i]) /\ NoLater(toGuest[i], g)
    BY <1>4, <1>5 DEF OrderInv, LaneInv
  <2>2. \A i \in 1 .. Len(toGuest') :
           Now(toGuest'[i]) /\ (toGuest'[i].body = Hello <=> toGuest'[i].seq = 0)
    <3> TAKE i \in 1 .. Len(toGuest')
    <3>1. CASE i \in 1 .. Len(toGuest)
      BY <1>3, <2>1, <3>1 DEF OrderInv, LaneInv
    <3>2. CASE i = Len(toGuest')
      BY <1>3, <1>8, <3>2
    <3> QED BY <1>3, <3>1, <3>2
  <2>3. \A i, j \in 1 .. Len(toGuest') : i < j => NoLater(toGuest'[i], toGuest'[j])
    <3> SUFFICES ASSUME NEW i \in 1 .. Len(toGuest'), NEW j \in 1 .. Len(toGuest'), i < j
                 PROVE  NoLater(toGuest'[i], toGuest'[j])
      OBVIOUS
    <3>1. i \in 1 .. Len(toGuest)
      BY <1>3
    <3>2. CASE j \in 1 .. Len(toGuest)
      BY <1>3, <3>1, <3>2 DEF OrderInv, LaneInv
    <3>3. CASE j = Len(toGuest')
      BY <1>3, <2>1, <3>1, <3>3
    <3> QED BY <1>3, <3>2, <3>3
  <2> QED BY <2>2, <2>3 DEF LaneInv, NoLater, Sent
<1>11. DeliveredInv'
  <2>1. \A k \in 1 .. Len(delivered) : Now(delivered[k]) /\ NoLater(delivered[k], g) /\ delivered[k].seq >= 1
    BY <1>4, <1>6 DEF OrderInv, DeliveredInv
  <2>2. \A k \in 1 .. Len(delivered), i \in 1 .. Len(toGuest') : NoLater(delivered[k], toGuest'[i])
    <3> TAKE k \in 1 .. Len(delivered), i \in 1 .. Len(toGuest')
    <3>1. CASE i \in 1 .. Len(toGuest)
      BY <1>3, <3>1 DEF OrderInv, DeliveredInv
    <3>2. CASE i = Len(toGuest')
      BY <1>3, <2>1, <3>2
    <3> QED BY <1>3, <3>1, <3>2
  <2> QED BY <1>7, <2>1, <2>2 DEF OrderInv, DeliveredInv, NoLater, Sent
<1>12. InOrderAtMostOnce'
  BY <1>7 DEF OrderInv, InOrderAtMostOnce, Before
<1> QED BY <1>9, <1>10, <1>11, <1>12 DEF OrderInv

\* Frames leave the lane at its head: handled, lost or flushed.
LEMMA ShorterLane ==
  ASSUME Types, LaneInv, toGuest # <<>>, toGuest' = Tail(toGuest), UNCHANGED <<epoch, nextSeq>>
  PROVE  /\ LaneInv'
         /\ \A i \in 1 .. Len(toGuest') : toGuest'[i] = toGuest[i + 1] /\ i + 1 \in 1 .. Len(toGuest)
         /\ \A i \in 1 .. Len(toGuest') : NoLater(Head(toGuest), toGuest'[i])
<1>1. toGuest \in Seq(Frames)
  BY DEF Types, TypeOK, LaneTypeOK
<1>2. \A i \in 1 .. Len(toGuest') : toGuest'[i] = toGuest[i + 1] /\ i + 1 \in 1 .. Len(toGuest)
  BY <1>1, HeadTailProperties
<1>3. Len(toGuest) \in Nat /\ 1 \in 1 .. Len(toGuest) /\ Head(toGuest) = toGuest[1] /\ Len(toGuest') \in Nat
  BY <1>1, HeadTailProperties
<1>4. \A i \in 1 .. Len(toGuest') : NoLater(Head(toGuest), toGuest'[i])
  BY <1>2, <1>3 DEF LaneInv
<1>5. LaneInv'
  BY <1>2, <1>3 DEF LaneInv, NoLater, Sent
<1> QED BY <1>2, <1>4, <1>5

LEMMA DropOrder ==
  ASSUME Types, OrderInv, toGuest # <<>>, toGuest' = Tail(toGuest), UNCHANGED pageVars,
         UNCHANGED <<delivered, gEpoch, rxSeq>>, active' => active
  PROVE  OrderInv'
<1>1. UNCHANGED <<epoch, nextSeq, queue, inflight, state>>
  BY DEF pageVars
<1>2. SenderInv' /\ InOrderAtMostOnce'
  BY <1>1 DEF OrderInv, SenderInv, NoHello, InOrderAtMostOnce, Before
<1>3. LaneInv' /\ \A i \in 1 .. Len(toGuest') : toGuest'[i] = toGuest[i + 1] /\ i + 1 \in 1 .. Len(toGuest)
  BY <1>1, ShorterLane DEF OrderInv
<1>4. DeliveredInv'
  BY <1>1, <1>3 DEF OrderInv, DeliveredInv, Sent, NoLater
<1> QED BY <1>2, <1>3, <1>4 DEF OrderInv

LEMMA GuestIdleOrder ==
  ASSUME OrderInv, UNCHANGED pageVars,
         UNCHANGED <<delivered, gEpoch>>, toGuest' \in {toGuest, <<>>}, active' => active /\ rxSeq' = rxSeq
  PROVE  OrderInv'
<1>1. UNCHANGED <<epoch, nextSeq, queue, inflight, state>>
  BY DEF pageVars
<1>2. SenderInv' /\ InOrderAtMostOnce'
  BY <1>1 DEF OrderInv, SenderInv, NoHello, InOrderAtMostOnce, Before
<1>3. LaneInv' /\ DeliveredInv'
  BY <1>1 DEF OrderInv, LaneInv, DeliveredInv, Sent, NoLater
<1> QED BY <1>2, <1>3 DEF OrderInv

LEMMA NewSessionOrder ==
  ASSUME Types, OrderInv, toGuest # <<>>, toGuest' = Tail(toGuest), UNCHANGED pageVars,
         Head(toGuest).body = Hello, NewSession(Head(toGuest))
  PROVE  OrderInv'
<1> DEFINE f == Head(toGuest)
<1>1. UNCHANGED <<epoch, nextSeq, queue, inflight, state>>
  BY DEF pageVars
<1>2. gEpoch' = f.epoch /\ rxSeq' = 0 /\ delivered' = delivered
  BY DEF NewSession, historyVars
<1>3. toGuest \in Seq(Frames) /\ delivered \in Seq(Frames)
  BY DEF Types, TypeOK, LaneTypeOK, GuestTypeOK
<1>4. 1 \in 1 .. Len(toGuest) /\ f = toGuest[1]
  BY <1>3, HeadTailProperties
<1>5. f.seq = 0
  BY <1>4 DEF OrderInv, LaneInv
<1>6. \A k \in 1 .. Len(delivered) : delivered[k].epoch < gEpoch'
  <2> TAKE k \in 1 .. Len(delivered)
  <2>1. NoLater(delivered[k], f) /\ delivered[k].seq >= 1
    BY <1>4 DEF OrderInv, DeliveredInv
  <2>2. delivered[k].seq \in Nat
    <3>1. delivered[k] \in Frames
      BY <1>3
    <3> QED BY <3>1 DEF Frames
  <2> QED BY <1>2, <1>5, <2>1, <2>2 DEF NoLater
<1>7. SenderInv' /\ InOrderAtMostOnce'
  BY <1>1, <1>2 DEF OrderInv, SenderInv, NoHello, InOrderAtMostOnce, Before
<1>8. LaneInv' /\ \A i \in 1 .. Len(toGuest') : toGuest'[i] = toGuest[i + 1] /\ i + 1 \in 1 .. Len(toGuest)
  BY <1>1, ShorterLane DEF OrderInv
<1>9. DeliveredInv'
  <2>1. \A k \in 1 .. Len(delivered), i \in 1 .. Len(toGuest') : NoLater(delivered[k], toGuest'[i])
    BY <1>8 DEF OrderInv, DeliveredInv
  <2>2. (\A k \in 1 .. Len(delivered) : Sent(delivered[k]) /\ delivered[k].seq >= 1)'
    BY <1>1, <1>2 DEF OrderInv, DeliveredInv, Sent
  <2>3. (\A k \in 1 .. Len(delivered), i \in 1 .. Len(toGuest) : NoLater(delivered[k], toGuest[i]))'
    BY <1>2, <2>1 DEF NoLater
  <2>4. (\A k \in 1 .. Len(delivered) :
           delivered[k].epoch < gEpoch \/ (delivered[k].epoch = gEpoch /\ delivered[k].seq <= rxSeq))'
    BY <1>2, <1>6
  <2> QED BY <2>2, <2>3, <2>4 DEF DeliveredInv
<1> QED BY <1>7, <1>8, <1>9 DEF OrderInv

\* The frame dispatched goes to the end of `delivered`: above all that is
\* there (rx_seq, and the session's epoch), below all that is in the lane.
LEMMA DispatchOrder ==
  ASSUME Types, OrderInv, toGuest # <<>>, toGuest' = Tail(toGuest), UNCHANGED pageVars,
         Head(toGuest).body # Hello, DispatchFrame(Head(toGuest))
  PROVE  OrderInv'
<1> DEFINE f == Head(toGuest)
           n == Len(delivered)
<1>1. UNCHANGED <<epoch, nextSeq, queue, inflight, state>>
  BY DEF pageVars
<1>2. toGuest \in Seq(Frames) /\ delivered \in Seq(Frames) /\ rxSeq \in Nat
  BY DEF Types, TypeOK, LaneTypeOK, GuestTypeOK
<1>3. 1 \in 1 .. Len(toGuest) /\ f = toGuest[1] /\ f \in Frames
  BY <1>2, HeadTailProperties
<1>4. f.seq \in Nat /\ f.seq >= 1 /\ Sent(f) /\ f.epoch \in Nat
  BY <1>3, RpcLinkAssumption DEF OrderInv, LaneInv, Frames
<1>5. /\ active /\ f.epoch = gEpoch /\ f.seq > rxSeq
      /\ delivered' = Append(delivered, f) /\ rxSeq' = f.seq /\ gEpoch' = gEpoch
  BY DEF DispatchFrame
<1> HIDE DEF f
<1>6. /\ n \in Nat /\ Len(delivered') = n + 1 /\ delivered'[n + 1] = f
      /\ \A k \in 1 .. n : delivered'[k] = delivered[k] /\ delivered[k] \in Frames
  BY <1>2, <1>3, <1>5
<1> HIDE DEF n
<1>7. \A k \in 1 .. n : delivered[k].seq \in Nat /\ delivered[k].epoch \in Nat
  BY <1>6, RpcLinkAssumption DEF Frames
<1>8. \A k \in 1 .. n : Before(delivered[k], f)
  BY <1>2, <1>4, <1>5, <1>7 DEF OrderInv, DeliveredInv, Before, n
<1>9. SenderInv'
  BY <1>1 DEF OrderInv, SenderInv, NoHello
<1>10. /\ LaneInv'
       /\ \A i \in 1 .. Len(toGuest') : toGuest'[i] = toGuest[i + 1] /\ i + 1 \in 1 .. Len(toGuest)
       /\ \A i \in 1 .. Len(toGuest') : NoLater(f, toGuest'[i])
  BY <1>1, ShorterLane DEF OrderInv, f
<1>11. \A k \in 1 .. n + 1 : k \in 1 .. n \/ k = n + 1
  BY <1>6
<1>12. InOrderAtMostOnce'
  <2> SUFFICES ASSUME NEW i \in 1 .. Len(delivered'), NEW j \in 1 .. Len(delivered'), i < j
               PROVE  Before(delivered'[i], delivered'[j])
    BY DEF InOrderAtMostOnce, Before
  <2>1. i \in 1 .. n
    BY <1>6
  <2>2. CASE j \in 1 .. n
    BY <1>6, <2>1, <2>2 DEF OrderInv, InOrderAtMostOnce, n
  <2>3. CASE j = n + 1
    BY <1>6, <1>8, <2>1, <2>3
  <2> QED BY <1>6, <1>11, <2>2, <2>3
<1>13. DeliveredInv'
  <2>1. \A k \in 1 .. Len(delivered') : Sent(delivered'[k]) /\ delivered'[k].seq >= 1
    BY <1>4, <1>6, <1>11 DEF OrderInv, DeliveredInv, n
  <2>2. \A k \in 1 .. Len(delivered'), i \in 1 .. Len(toGuest') : NoLater(delivered'[k], toGuest'[i])
    BY <1>6, <1>10, <1>11 DEF OrderInv, DeliveredInv, n
  <2>3. \A k \in 1 .. Len(delivered') :
          delivered'[k].epoch < gEpoch' \/ (delivered'[k].epoch = gEpoch' /\ delivered'[k].seq <= rxSeq')
    BY <1>4, <1>5, <1>6, <1>7, <1>8, <1>11 DEF Before
  <2> QED BY <1>1, <2>1, <2>2, <2>3 DEF DeliveredInv, Sent, NoLater
<1> QED BY <1>9, <1>10, <1>12, <1>13 DEF OrderInv

LEMMA GuestNextOrder ==
  ASSUME Types, OrderInv, GuestNext, UNCHANGED pageVars
  PROVE  OrderInv'
<1>1. CASE HandleFrame
  <2> DEFINE f == Head(toGuest)
  <2>1. toGuest # <<>> /\ toGuest' = Tail(toGuest)
    BY <1>1 DEF HandleFrame
  <2>2. CASE f.body = Hello /\ NewSession(f)
    BY <2>1, <2>2, NewSessionOrder
  <2>3. CASE f.body # Hello /\ DispatchFrame(f)
    BY <2>1, <2>3, DispatchOrder
  <2>4. CASE RefuseHello(f) \/ ReplayHello(f) \/ StaleFrame(f) \/ DuplicateFrame(f)
    BY <2>1, <2>4, DropOrder
       DEF RefuseHello, ReplayHello, StaleFrame, DuplicateFrame, sessionVars, historyVars
  <2> QED BY <1>1, <2>2, <2>3, <2>4 DEF HandleFrame
<1>2. CASE \E c \in executing : AnswerCall(c)
  BY <1>2, GuestIdleOrder DEF AnswerCall, historyVars
<1>3. CASE \E r \in Requests : AskPage(r) \/ CancelAsked(r)
  BY <1>3, GuestIdleOrder DEF AskPage, CancelAsked, historyVars
<1>4. CASE SessionDown
  BY <1>4, GuestIdleOrder DEF SessionDown, historyVars
<1>5. CASE Restart
  <2>1. UNCHANGED <<epoch, nextSeq, queue, inflight, state>>
    BY DEF pageVars
  <2>2. toGuest' = <<>> /\ delivered' = delivered /\ ~active'
    BY <1>5 DEF Restart, historyVars
  <2>3. SenderInv' /\ LaneInv'
    BY <2>1, <2>2 DEF OrderInv, SenderInv, NoHello, LaneInv
  <2>4. DeliveredInv' /\ InOrderAtMostOnce'
    BY <2>1, <2>2 DEF OrderInv, DeliveredInv, Sent, InOrderAtMostOnce, Before
  <2> QED BY <2>3, <2>4 DEF OrderInv
<1> QED BY <1>1, <1>2, <1>3, <1>4, <1>5 DEF GuestNext

LEMMA InitOrder == Init => OrderInv
BY DEF Init, PageInit, GuestInit, OrderInv, SenderInv, LaneInv, DeliveredInv, InOrderAtMostOnce, NoHello

LEMMA NextOrder == Types /\ OrderInv /\ [Next]_vars => OrderInv'
<1> SUFFICES ASSUME Types, OrderInv, [Next]_vars PROVE OrderInv'
  OBVIOUS
<1>1. CASE PageNext /\ UNCHANGED guestVars
  BY <1>1, PageNextOrder, QuietOrder, SendsOrder DEF OrderInv
<1>2. CASE GuestNext /\ UNCHANGED pageVars
  BY <1>2, GuestNextOrder
<1>3. CASE LoseToGuest
  BY <1>3, DropOrder DEF LoseToGuest, guestVars, sessionVars, historyVars
<1>4. CASE LoseToPage \/ UNCHANGED vars
  BY <1>4, GuestIdleOrder DEF LoseToPage, vars, guestVars, sessionVars, historyVars
<1> QED BY <1>1, <1>2, <1>3, <1>4 DEF Next

\* However often frames are retransmitted, lost or answered late, sessions
\* replaced and rpcd respawned, the guest dispatches every frame of the page
\* at most once and in the order of sending (handle_frame, sendHello, pump).
THEOREM InOrder == Spec => []InOrderAtMostOnce
<1>1. Init => Types /\ OrderInv
  BY InitTypes, InitOrder
<1>2. Types /\ OrderInv /\ [Next]_vars => (Types /\ OrderInv)'
  BY NextTypes, NextOrder
<1>3. Types /\ OrderInv => InOrderAtMostOnce
  BY DEF OrderInv
<1> QED BY <1>1, <1>2, <1>3, PTL DEF Spec

----------------------------------------------------------------------------
(* The trail of a body.  Calls and answers are said once: such a body is    *)
(* in one place of the queue, or in frames of one epoch and sequence.       *)

Once == {"call", "answer"}

Waiting  == {queue[k] : k \in 1 .. Len(queue)}
InLane   == {toGuest[k] : k \in 1 .. Len(toGuest)}
Handed   == {delivered[k] : k \in 1 .. Len(delivered)}
Unacked  == IF inflight = NoFlight THEN {} ELSE {Data(epoch, inflight.seq, inflight.body)}
Flying   == InLane \cup Handed \cup Unacked
Said     == Waiting \cup {f.body : f \in Flying}
Arriving == {toPage[k] : k \in 1 .. Len(toPage)}
Dispatched == {f.body : f \in Handed}

QueuedOnce(q) == \A i, j \in 1 .. Len(q) : q[i] = q[j] /\ q[i].type \in Once => i = j

TrailInv ==
  /\ QueuedOnce(queue)
  /\ \A f \in Flying : f.body.type \in Once => f.body \notin Waiting
  /\ \A f, g \in Flying : f.body = g.body /\ f.body.type \in Once => f.epoch = g.epoch /\ f.seq = g.seq

\* A step after which the trail is whole and only bodies of B are new to it.
Tells(B) ==
  /\ TrailInv'
  /\ \A x \in Waiting' : x.type \in Once => epoch' = epoch /\ x \in Waiting \cup B
  /\ \A f \in Flying' : f.body.type \in Once => f \in Flying \/ (f.epoch = epoch /\ f.body \in Waiting \cup B)

LEMMA NothingNew ==
  ASSUME TrailInv, queue' = <<>> \/ UNCHANGED <<queue, epoch>>,
         \A f \in Flying' : f \in Flying \/ f.body.type \notin Once
  PROVE  Tells({})
<1>1. QueuedOnce(queue)' /\ Waiting' \subseteq Waiting /\ (Waiting' = {} \/ epoch' = epoch)
  BY DEF TrailInv, QueuedOnce, Waiting
<1> QED BY <1>1 DEF TrailInv, Tells

LEMMA PumpTells ==
  ASSUME Types, TrailInv, NEW B, \A b \in B : b.type \in Once => b \notin Said,
         NEW q \in Seq(Bodies), QueuedOnce(q), \A k \in 1 .. Len(q) : q[k].type \in Once => q[k] \in Waiting \cup B,
         NEW st, NEW fl \in {NoFlight, inflight}, Pump(q, st, fl, nextSeq), UNCHANGED <<epoch, delivered>>
  PROVE  Tells(B)
<1>1. \A f \in Flying, k \in 1 .. Len(q) : f.body.type \in Once => f.body # q[k]
  BY DEF TrailInv, Said
<1>2. Handed' = Handed
  BY DEF Handed
<1>3. CASE CanFly(q, st, fl)
  <2> DEFINE h == Head(q)
             d == Data(epoch, nextSeq, h)
  <2>1. q # <<>> /\ queue' = Tail(q) /\ inflight' = Flight(nextSeq, h) /\ toGuest' = Append(toGuest, d)
    BY <1>3 DEF Pump, CanFly
  <2>2. h = q[1] /\ 1 \in 1 .. Len(q) /\ Len(queue') = Len(q) - 1
        /\ \A k \in 1 .. Len(queue') : queue'[k] = q[k + 1] /\ k + 1 \in 1 .. Len(q) /\ k + 1 # 1
    BY <2>1, HeadTailProperties
  <2>3. d.epoch = epoch /\ d.seq = nextSeq /\ d.body = h
    BY DEF Data
  <2>4. inflight'.seq = nextSeq /\ inflight'.body = h
    BY <2>1 DEF Flight
  <2>5. Unacked' \subseteq {d}
    BY <2>4 DEF Unacked, Data
  <2> HIDE DEF d, h
  <2>6. InLane' = InLane \cup {d}
    <3>1. toGuest \in Seq(Frames)
      BY DEF Types, TypeOK, LaneTypeOK
    <3>2. Len(toGuest') = Len(toGuest) + 1 /\ Len(toGuest) \in Nat /\ toGuest'[Len(toGuest) + 1] = d
          /\ \A k \in 1 .. Len(toGuest) : toGuest'[k] = toGuest[k]
      BY <2>1, <3>1
    <3> QED BY <3>2 DEF InLane
  <2>7. Flying' \subseteq Flying \cup {d}
    BY <1>2, <2>5, <2>6 DEF Flying
  <2>8. \A x \in Waiting' : \E k \in 1 .. Len(queue') : x = q[k + 1] /\ k + 1 \in 1 .. Len(q) /\ k + 1 # 1
    BY <2>2 DEF Waiting
  <2>9. QueuedOnce(queue)'
    <3> SUFFICES ASSUME NEW i \in 1 .. Len(queue'), NEW j \in 1 .. Len(queue'),
                        queue'[i] = queue'[j], queue'[i].type \in Once
                 PROVE  i = j
      BY DEF QueuedOnce
    <3>1. i + 1 = j + 1
      BY <2>2 DEF QueuedOnce
    <3> QED BY <3>1
  <2>10. \A f \in Flying' : f.body.type \in Once => f.body \notin Waiting'
    <3> SUFFICES ASSUME NEW f \in Flying', f.body.type \in Once, NEW x \in Waiting', f.body = x
                 PROVE  FALSE
      OBVIOUS
    <3>1. PICK k \in 1 .. Len(queue') : x = q[k + 1] /\ k + 1 \in 1 .. Len(q) /\ k + 1 # 1
      BY <2>8
    <3>2. CASE f \in Flying
      BY <1>1, <3>1, <3>2
    <3>3. CASE f = d
      BY <2>2, <2>3, <3>1, <3>3 DEF QueuedOnce
    <3> QED BY <2>7, <3>2, <3>3
  <2>11. \A f, g \in Flying' : f.body = g.body /\ f.body.type \in Once => f.epoch = g.epoch /\ f.seq = g.seq
    <3> SUFFICES ASSUME NEW f \in Flying', NEW g \in Flying', f.body = g.body, f.body.type \in Once
                 PROVE  f.epoch = g.epoch /\ f.seq = g.seq
      OBVIOUS
    <3>1. ~(f \in Flying /\ g = d) /\ ~(f = d /\ g \in Flying)
      BY <1>1, <2>2, <2>3
    <3>2. CASE f \in Flying /\ g \in Flying
      BY <3>2 DEF TrailInv
    <3>3. CASE f = d /\ g = d
      BY <3>3
    <3> QED BY <2>7, <3>1, <3>2, <3>3
  <2>12. \A x \in Waiting' : x.type \in Once => x \in Waiting \cup B
    BY <2>8
  <2>13. d.body.type \in Once => d.body \in Waiting \cup B
    BY <2>2, <2>3
  <2> QED BY <2>3, <2>7, <2>9, <2>10, <2>11, <2>12, <2>13 DEF Tells, TrailInv
<1>4. CASE ~CanFly(q, st, fl)
  <2>1. queue' = q /\ inflight' = fl /\ toGuest' = toGuest
    BY <1>4 DEF Pump
  <2>2. Flying' \subseteq Flying
    BY <1>2, <2>1 DEF Flying, InLane, Unacked
  <2>3. Waiting' = {q[k] : k \in 1 .. Len(q)} /\ QueuedOnce(queue)'
    BY <2>1 DEF Waiting, QueuedOnce
  <2> QED BY <1>1, <2>2, <2>3 DEF Tells, TrailInv
<1> QED BY <1>3, <1>4

LEMMA LaneStands ==
  ASSUME TrailInv, UNCHANGED <<laneVars, epoch, delivered>>
  PROVE  Tells({})
<1>1. Flying' = Flying
  BY DEF laneVars, Flying, InLane, Handed, Unacked
<1> QED BY <1>1, NothingNew DEF laneVars

\* Saying a body that is new, if it is of a kind said once.
LEMMA SayTells ==
  ASSUME Types, TrailInv, NEW b \in Bodies, b.type \in Once => b \notin Said, Say(b), UNCHANGED <<epoch, delivered>>
  PROVE  Tells(IF b.type \in Once THEN {b} ELSE {})
<1> DEFINE B == IF b.type \in Once THEN {b} ELSE {}
           q == Append(queue, b)
<1>1. CASE Established /\ HasRoom
  <2>1. Pump(q, state, inflight, nextSeq)
    BY <1>1 DEF Say, Enqueue
  <2>2. queue \in Seq(Bodies) /\ q \in Seq(Bodies)
    BY DEF Types, TypeOK, LaneTypeOK
  <2>3. /\ Len(queue) \in Nat /\ Len(q) = Len(queue) + 1 /\ q[Len(queue) + 1] = b
        /\ \A k \in 1 .. Len(queue) : q[k] = queue[k] /\ queue[k] \in Waiting
    BY <2>2 DEF Waiting
  <2> HIDE DEF q
  <2>4. \A k \in 1 .. Len(q) : k \in 1 .. Len(queue) \/ k = Len(queue) + 1
    BY <2>3
  <2>5. b.type \in Once => b \notin Waiting
    BY DEF Said
  <2>6. QueuedOnce(q)
    <3> SUFFICES ASSUME NEW i \in 1 .. Len(q), NEW j \in 1 .. Len(q), q[i] = q[j], q[i].type \in Once
                 PROVE  i = j
      BY DEF QueuedOnce
    <3>1. CASE i \in 1 .. Len(queue) /\ j \in 1 .. Len(queue)
      BY <2>3, <3>1 DEF TrailInv, QueuedOnce
    <3>2. CASE i = Len(queue) + 1 /\ j = Len(queue) + 1
      BY <3>2
    <3> QED BY <2>3, <2>4, <2>5, <3>1, <3>2
  <2>7. \A k \in 1 .. Len(q) : q[k].type \in Once => q[k] \in Waiting \cup B
    BY <2>3, <2>4
  <2>8. \A x \in B : x.type \in Once => x \notin Said
    OBVIOUS
  <2> HIDE DEF B
  <2>9. Tells(B)
    BY <2>1, <2>2, <2>6, <2>7, <2>8, PumpTells
  <2> QED BY <2>9 DEF B
<1>2. CASE ~(Established /\ HasRoom)
  <2>1. UNCHANGED laneVars
    BY <1>2 DEF Say, Enqueue
  <2>2. Tells({})
    BY <2>1, LaneStands
  <2> QED BY <2>2 DEF Tells
<1> QED BY <1>1, <1>2

----------------------------------------------------------------------------
(* The invariants of calls and of requests.                                *)

\* A call is on its way only if it was accepted, and answered only if the
\* guest was given it.
CallInv ==
  /\ \A c \in Calls : Body("call", c) \in Said => outcome[c] \notin {"none", "overloaded"}
  /\ \A c \in Calls : c >= nextId => outcome[c] = "none"
  /\ \A c \in executing : Body("call", c) \in Dispatched
  /\ \A f \in Arriving : f.body.type = "response" => Body("call", f.body.id) \in Dispatched

AskedOnce(p) == \A i, j \in 1 .. Len(p) : p[i].body = p[j].body /\ p[i].body.type = "request" => i = j

\* A request is on its way, or being served, or answered, each in the
\* session it was made in.
ServeInv ==
  /\ AskedOnce(toPage)
  /\ askedIn \subseteq (1 .. MaxEpoch) \X Requests
  /\ \A f \in Arriving : f.body.type = "request" =>
       /\ <<f.epoch, f.body.id>> \in askedIn
       /\ Body("answer", f.body.id) \notin Said
       /\ \A j \in serves : j.id # f.body.id
  /\ \A j \in serves : <<epoch, j.id>> \in askedIn /\ Body("answer", j.id) \notin Said
  /\ \A i, j \in serves : i.id = j.id => i = j
  /\ \A b \in Waiting : b.type = "answer" => <<epoch, b.id>> \in askedIn
  /\ \A f \in Flying : f.body.type = "answer" => <<f.epoch, f.body.id>> \in askedIn

TellInv == TrailInv /\ CallInv /\ ServeInv

LEMMA TellsSaid ==
  ASSUME NEW B, Tells(B)
  PROVE  \A x \in Said' : x.type \in Once => x \in Said \cup B
BY DEF Tells, Said

LEMMA Heading ==
  ASSUME Types, toPage # <<>>, toPage' = Tail(toPage)
  PROVE  /\ Head(toPage) \in Arriving
         /\ Arriving' \subseteq Arriving
         /\ AskedOnce(toPage) => /\ AskedOnce(toPage)'
                                 /\ \A f \in Arriving' : Head(toPage).body.type = "request" => f.body # Head(toPage).body
<1>1. toPage \in Seq(Frames)
  BY DEF Types, TypeOK
<1>2. /\ Len(toPage) \in Nat /\ Head(toPage) = toPage[1] /\ 1 \in 1 .. Len(toPage) /\ Len(toPage') = Len(toPage) - 1
      /\ \A k \in 1 .. Len(toPage') : toPage'[k] = toPage[k + 1] /\ k + 1 \in 1 .. Len(toPage) /\ k + 1 # 1
  BY <1>1, HeadTailProperties
<1>3. Head(toPage) \in Arriving /\ Arriving' \subseteq Arriving
  BY <1>2 DEF Arriving
<1>4. ASSUME AskedOnce(toPage) PROVE AskedOnce(toPage)'
  <2> SUFFICES ASSUME NEW i \in 1 .. Len(toPage'), NEW j \in 1 .. Len(toPage'),
                      toPage'[i].body = toPage'[j].body, toPage'[i].body.type = "request"
               PROVE  i = j
    BY DEF AskedOnce
  <2>1. i + 1 = j + 1
    BY <1>2, <1>4 DEF AskedOnce
  <2> QED BY <2>1
<1>5. ASSUME AskedOnce(toPage), NEW f \in Arriving', Head(toPage).body.type = "request", f.body = Head(toPage).body
      PROVE  FALSE
  <2>1. PICK k \in 1 .. Len(toPage') : f = toPage'[k]
    BY DEF Arriving
  <2>2. k + 1 = 1
    BY <1>2, <1>5, <2>1 DEF AskedOnce
  <2> QED BY <1>2, <2>2
<1> QED BY <1>3, <1>4, <1>5

\* What a step of the page may do to the calls without a new one.
LEMMA CallsKept ==
  ASSUME Types, CallInv, NEW B, Tells(B), \A b \in B : b.type # "call",
         \A c \in Calls : outcome'[c] = outcome[c] \/ (outcome[c] = "pending" /\ outcome'[c] \notin {"none", "overloaded"}),
         Arriving' \subseteq Arriving, UNCHANGED <<nextId, executing, delivered>>
  PROVE  CallInv'
<1>1. Dispatched' = Dispatched
  BY DEF Dispatched, Handed
<1>2. \A c \in Calls : Body("call", c) \in Said' => Body("call", c) \in Said
  <2> SUFFICES ASSUME NEW c \in Calls, Body("call", c) \in Said' PROVE Body("call", c) \in Said
    OBVIOUS
  <2>1. Body("call", c).type = "call" /\ "call" \in Once
    BY DEF Body, Once
  <2> QED BY <2>1, TellsSaid
<1>3. \A c \in Calls : outcome'[c] \in {"none", "overloaded"} => outcome[c] = outcome'[c]
  OBVIOUS
<1>4. \A c \in Calls : outcome[c] = "none" => outcome'[c] = "none"
  OBVIOUS
<1>5. (\A c \in Calls : Body("call", c) \in Said => outcome[c] \notin {"none", "overloaded"})'
  BY <1>2, <1>3 DEF CallInv, Calls
<1>6. (\A c \in Calls : c >= nextId => outcome[c] = "none")'
  BY <1>4 DEF CallInv, Calls
<1>7. (\A c \in executing : Body("call", c) \in Dispatched)'
  BY <1>1 DEF CallInv, Body
<1>8. (\A f \in Arriving : f.body.type = "response" => Body("call", f.body.id) \in Dispatched)'
  BY <1>1 DEF CallInv, Body
<1> QED BY <1>5, <1>6, <1>7, <1>8 DEF CallInv

\* A step of the page that takes no new request: what it answers it served,
\* or had just received, and no longer does.
LEMMA ServesKept ==
  ASSUME Types, ServeInv, NEW B, Tells(B),
         \A b \in B : b.type = "answer" =>
           /\ <<epoch, b.id>> \in askedIn
           /\ \A j \in serves' : j.id # b.id
           /\ \A f \in Arriving' : f.body.type = "request" => f.body.id # b.id,
         serves' \subseteq serves, epoch' = epoch \/ serves' = {},
         Arriving' \subseteq Arriving, AskedOnce(toPage)', askedIn' = askedIn
  PROVE  ServeInv'
<1>1. \A r \in Requests : Body("answer", r) \in Said' => Body("answer", r) \in Said \cup B
  <2> SUFFICES ASSUME NEW r \in Requests, Body("answer", r) \in Said' PROVE Body("answer", r) \in Said \cup B
    OBVIOUS
  <2>1. Body("answer", r).type = "answer" /\ "answer" \in Once
    BY DEF Body, Once
  <2> QED BY <2>1, TellsSaid
<1>2. \A r : Body("answer", r).type = "answer" /\ Body("answer", r).id = r
  BY DEF Body
<1>3. (\A f \in Arriving : f.body.type = "request" =>
        /\ <<f.epoch, f.body.id>> \in askedIn
        /\ Body("answer", f.body.id) \notin Said
        /\ \A j \in serves : j.id # f.body.id)'
  <2> SUFFICES ASSUME NEW f \in Arriving', f.body.type = "request"
               PROVE  /\ <<f.epoch, f.body.id>> \in askedIn'
                      /\ Body("answer", f.body.id) \notin Said'
                      /\ \A j \in serves' : j.id # f.body.id
    BY DEF Body
  <2>1. f \in Arriving
    OBVIOUS
  <2>2. <<f.epoch, f.body.id>> \in askedIn /\ Body("answer", f.body.id) \notin Said
        /\ \A j \in serves : j.id # f.body.id
    BY <2>1 DEF ServeInv
  <2>3. f.body.id \in Requests
    BY <2>2 DEF ServeInv
  <2>4. Body("answer", f.body.id) \notin B
    <3> SUFFICES ASSUME NEW b \in B, b = Body("answer", f.body.id) PROVE FALSE
      OBVIOUS
    <3>1. b.type = "answer" /\ b.id = f.body.id
      BY <1>2
    <3> QED BY <3>1
  <2>5. Body("answer", f.body.id) \notin Said'
    BY <1>1, <2>2, <2>3, <2>4
  <2> QED BY <2>2, <2>5
<1>4. (\A j \in serves : <<epoch, j.id>> \in askedIn /\ Body("answer", j.id) \notin Said)'
  <2> SUFFICES ASSUME NEW j \in serves' PROVE <<epoch', j.id>> \in askedIn' /\ Body("answer", j.id) \notin Said'
    BY DEF Body
  <2>1. j \in serves /\ <<epoch, j.id>> \in askedIn /\ Body("answer", j.id) \notin Said /\ epoch' = epoch
    BY DEF ServeInv
  <2>2. j.id \in Requests
    BY <2>1 DEF ServeInv
  <2> QED BY <1>1, <1>2, <2>1, <2>2
<1>5. (\A i, j \in serves : i.id = j.id => i = j)'
  BY DEF ServeInv
<1>6. (\A b \in Waiting : b.type = "answer" => <<epoch, b.id>> \in askedIn)'
  <2> SUFFICES ASSUME NEW b \in Waiting', b.type = "answer" PROVE <<epoch', b.id>> \in askedIn'
    OBVIOUS
  <2>1. b \in Waiting \cup B /\ epoch' = epoch
    BY DEF Tells, Once
  <2> QED BY <2>1 DEF ServeInv
<1>7. (\A f \in Flying : f.body.type = "answer" => <<f.epoch, f.body.id>> \in askedIn)'
  <2> SUFFICES ASSUME NEW f \in Flying', f.body.type = "answer" PROVE <<f.epoch, f.body.id>> \in askedIn'
    OBVIOUS
  <2>1. f \in Flying \/ (f.epoch = epoch /\ f.body \in Waiting \cup B)
    BY DEF Tells, Once
  <2> QED BY <2>1 DEF ServeInv
<1> QED BY <1>3, <1>4, <1>5, <1>6, <1>7 DEF ServeInv

\* A step of the page that says nothing new, calls nobody and takes no
\* request keeps everything.
LEMMA QuietTell ==
  ASSUME Types, TellInv, Tells({}),
         \A c \in Calls : outcome'[c] = outcome[c] \/ (outcome[c] = "pending" /\ outcome'[c] \notin {"none", "overloaded"}),
         serves' \subseteq serves, epoch' = epoch \/ serves' = {},
         toPage' = toPage \/ (toPage # <<>> /\ toPage' = Tail(toPage)),
         UNCHANGED <<nextId, guestVars>>
  PROVE  TellInv'
<1>1. UNCHANGED <<executing, delivered, askedIn>>
  BY DEF guestVars, historyVars
<1>2. Arriving' \subseteq Arriving /\ AskedOnce(toPage)'
  <2>1. CASE toPage' = toPage
    BY <2>1 DEF TellInv, ServeInv, AskedOnce, Arriving
  <2>2. CASE toPage # <<>> /\ toPage' = Tail(toPage)
    BY <2>2, Heading DEF TellInv, ServeInv
  <2> QED BY <2>1, <2>2
<1>3. CallInv'
  BY <1>1, <1>2, CallsKept DEF TellInv
<1>4. ServeInv'
  BY <1>1, <1>2, ServesKept DEF TellInv
<1> QED BY <1>3, <1>4 DEF TellInv, Tells

----------------------------------------------------------------------------
(* The page's steps.                                                       *)

LEMMA FailSessionCalls ==
  ASSUME Types, FailSession
  PROVE  /\ serves' = {}
         /\ \A c \in Calls : outcome'[c] = outcome[c] \/ (outcome[c] = "pending" /\ outcome'[c] \notin {"none", "overloaded"})
BY DEF FailSession, Pending

LEMMA StartSessionTell ==
  ASSUME Types, TellInv, StartSession, UNCHANGED guestVars
  PROVE  TellInv'
<1> DEFINE d == Data(epoch + 1, 0, Hello)
<1>1. queue' = <<>> /\ toGuest' = Append(toGuest, d) /\ inflight' = Flight(0, Hello) /\ epoch' = epoch + 1
      /\ toPage' = toPage /\ nextId' = nextId /\ FailSession
  BY DEF StartSession, SendHello
<1>2. Handed' = Handed
  BY DEF Handed, guestVars, historyVars
<1>3. InLane' \subseteq InLane \cup {d}
  <2>1. toGuest \in Seq(Frames)
    BY DEF Types, TypeOK, LaneTypeOK
  <2> QED BY <1>1, <2>1 DEF InLane
<1>4. Unacked' \subseteq {d}
  BY <1>1 DEF Unacked, Flight, Data
<1>5. d.body.type \notin Once
  BY DEF Data, Hello, Body, Once
<1>6. Tells({})
  BY <1>1, <1>2, <1>3, <1>4, <1>5, NothingNew DEF Flying, TellInv
<1> QED BY <1>1, <1>6, FailSessionCalls, QuietTell

LEMMA LinkLostTell ==
  ASSUME Types, TellInv, FailSession, queue' = <<>>, inflight' = NoFlight, UNCHANGED <<epoch, nextId, toGuest, guestVars>>,
         toPage' = toPage \/ (toPage # <<>> /\ toPage' = Tail(toPage))
  PROVE  TellInv'
<1>1. Flying' \subseteq Flying
  BY DEF Flying, InLane, Handed, Unacked, guestVars, historyVars
<1>2. Tells({})
  BY <1>1, NothingNew DEF TellInv
<1> QED BY <1>2, FailSessionCalls, QuietTell

LEMMA RepeatTell ==
  ASSUME Types, TellInv, HelloWatchdog \/ AckTimeoutResend \/ AckTimeoutFrozen, UNCHANGED guestVars
  PROVE  TellInv'
<1>1. UNCHANGED <<queue, epoch, nextId, outcome, serves, toPage>>
  BY DEF HelloWatchdog, SendHello, AckTimeoutResend, AckTimeoutFrozen, pageVars
<1>2. toGuest \in Seq(Frames) /\ inflight \in Flights
  BY DEF Types, TypeOK, LaneTypeOK
<1>3. Handed' = Handed
  BY DEF Handed, guestVars, historyVars
<1>4. \A f \in Flying' : f \in Flying \/ f.body.type \notin Once
  <2>1. CASE HelloWatchdog
    <3> DEFINE d == Data(epoch, 0, Hello)
    <3>1. toGuest' = Append(toGuest, d) /\ inflight' = Flight(0, Hello)
      BY <2>1 DEF HelloWatchdog, SendHello
    <3>2. InLane' \subseteq InLane \cup {d}
      BY <1>2, <3>1 DEF InLane
    <3>3. Unacked' \subseteq {d} /\ d.body.type \notin Once
      BY <1>1, <3>1 DEF Unacked, Flight, Data, Hello, Body, Once
    <3> QED BY <1>3, <3>2, <3>3 DEF Flying
  <2>2. CASE AckTimeoutResend \/ AckTimeoutFrozen
    <3> DEFINE d == Data(epoch, inflight.seq, inflight.body)
    <3>1. inflight # NoFlight /\ toGuest' = Append(toGuest, d)
          /\ inflight' \in {inflight, [inflight EXCEPT !.attempts = @ + 1]}
      BY <2>2 DEF AckTimeoutResend, AckTimeoutFrozen, Retransmit, pageVars
    <3>2. inflight \in [seq : Nat, body : Bodies, attempts : Nat]
      BY <1>2, <3>1 DEF Flights
    <3>3. inflight'.seq = inflight.seq /\ inflight'.body = inflight.body
      BY <3>1, <3>2
    <3>4. Unacked = {d} /\ Unacked' \subseteq {d}
      BY <1>1, <3>1, <3>3 DEF Unacked, Data
    <3>5. InLane' \subseteq InLane \cup {d}
      BY <1>2, <3>1 DEF InLane
    <3> QED BY <1>3, <3>4, <3>5 DEF Flying
  <2> QED BY <2>1, <2>2
<1>5. Tells({})
  BY <1>1, <1>4, NothingNew DEF TellInv
<1> QED BY <1>1, <1>5, QuietTell

LEMMA GiveUpTell ==
  ASSUME Types, TellInv, NEW c \in Calls, NEW how \in {"deadline", "cancelled"}, GiveUp(c, how), UNCHANGED guestVars
  PROVE  TellInv'
<1>1. Body("cancel", c) \in Bodies /\ Body("cancel", c).type \notin Once
  BY DEF Bodies, Body, Ids, Once
<1>2. UNCHANGED <<epoch, delivered, nextId, serves, toPage>> /\ Say(Body("cancel", c))
  BY DEF GiveUp, guestVars, historyVars
<1>3. Tells({})
  <2>1. Tells(IF Body("cancel", c).type \in Once THEN {Body("cancel", c)} ELSE {})
    BY <1>1, <1>2, SayTells DEF TellInv
  <2> QED BY <1>1, <2>1
<1>4. \A d \in Calls : outcome'[d] = outcome[d] \/ (outcome[d] = "pending" /\ outcome'[d] \notin {"none", "overloaded"})
  BY DEF GiveUp, Types, TypeOK, PageTypeOK
<1> QED BY <1>2, <1>3, <1>4, QuietTell

\* A call is new to the trail: its number was never given before.
LEMMA CallTell ==
  ASSUME Types, TellInv, Call, UNCHANGED guestVars
  PROVE  TellInv'
<1> DEFINE b == Body("call", nextId)
<1>1. nextId \in Calls /\ b \in Bodies /\ b.type = "call" /\ b.type \in Once /\ outcome \in [Calls -> Outcomes]
  BY RpcLinkAssumption DEF Call, Types, TypeOK, PageTypeOK, Calls, Bodies, Body, Once
<1>2. outcome[nextId] = "none" /\ b \notin Said
  BY <1>1 DEF TellInv, CallInv, Calls
<1>3. /\ Established /\ Enqueue(b) /\ nextId' = nextId + 1
      /\ outcome' = [outcome EXCEPT ![nextId] = IF HasRoom THEN "pending" ELSE "overloaded"]
      /\ UNCHANGED <<epoch, serves, toPage, delivered, executing, askedIn>>
  BY DEF Call, guestVars, historyVars
<1> DEFINE B == IF HasRoom THEN {b} ELSE {}
<1>4. Tells(B)
  <2>1. CASE HasRoom
    <3>1. Tells(IF b.type \in Once THEN {b} ELSE {})
      <4> HIDE DEF b
      <4> QED BY <1>1, <1>2, <1>3, SayTells DEF Say, TellInv
    <3> QED BY <1>1, <2>1, <3>1
  <2>2. CASE ~HasRoom
    BY <1>3, <2>2, LaneStands DEF Enqueue, TellInv
  <2> QED BY <2>1, <2>2
<1>5. Arriving' = Arriving /\ Dispatched' = Dispatched
  BY <1>3 DEF Arriving, Dispatched, Handed
<1>6. \A c \in Calls : Body("call", c) \in Said' => Body("call", c) \in Said \cup B
  <2> SUFFICES ASSUME NEW c \in Calls, Body("call", c) \in Said' PROVE Body("call", c) \in Said \cup B
    OBVIOUS
  <2>1. Body("call", c).type = "call" /\ "call" \in Once
    BY DEF Body, Once
  <2> HIDE DEF B
  <2> QED BY <1>4, <2>1, TellsSaid
<1>7. (\A c \in Calls : Body("call", c) \in Said => outcome[c] \notin {"none", "overloaded"})'
  <2> SUFFICES ASSUME NEW c \in Calls, Body("call", c) \in Said' PROVE outcome'[c] \notin {"none", "overloaded"}
    BY DEF Calls, Body
  <2>1. CASE Body("call", c) \in Said
    <3>1. outcome[c] \notin {"none", "overloaded"} /\ c # nextId
      BY <1>2, <2>1 DEF TellInv, CallInv
    <3> QED BY <1>1, <1>3, <3>1
  <2>2. CASE Body("call", c) \in B
    <3>1. HasRoom /\ c = nextId
      BY <2>2 DEF Body
    <3> QED BY <1>1, <1>3, <3>1
  <2> QED BY <1>6, <2>1, <2>2
<1>8. (\A c \in Calls : c >= nextId => outcome[c] = "none")'
  <2> SUFFICES ASSUME NEW c \in Calls, c >= nextId' PROVE outcome'[c] = "none"
    BY DEF Calls
  <2>1. c # nextId /\ c >= nextId
    BY <1>1, <1>3 DEF Calls, Types, TypeOK, PageTypeOK
  <2> QED BY <1>1, <1>3, <2>1 DEF TellInv, CallInv
<1>9. CallInv'
  BY <1>3, <1>5, <1>7, <1>8 DEF TellInv, CallInv, Body
<1>10. ServeInv'
  <2>1. \A x \in B : x.type # "answer"
    BY <1>1
  <2>2. AskedOnce(toPage)'
    BY <1>3 DEF TellInv, ServeInv, AskedOnce
  <2> HIDE DEF B
  <2> QED BY <1>3, <1>4, <1>5, <2>1, <2>2, ServesKept DEF TellInv
<1> QED BY <1>4, <1>9, <1>10 DEF TellInv, Tells

\* Answering a job: it is not yet answered, and its request is not to come.
LEMMA AnswerTell ==
  ASSUME Types, TellInv, NEW j \in Jobs, Answer(j), UNCHANGED <<state, epoch, nextId, outcome, guestVars>>,
         toPage' = toPage \/ (toPage # <<>> /\ toPage' = Tail(toPage))
  PROVE  TellInv'
<1> DEFINE b == Body("answer", j.id)
<1>1. b \in Bodies /\ b.type = "answer" /\ b.id = j.id /\ b.type \in Once
  BY DEF Bodies, Body, Jobs, Once
<1>2. UNCHANGED <<executing, delivered, askedIn>>
  BY DEF guestVars, historyVars
<1>3. CASE j \in serves
  <2>1. Say(b) /\ serves' = serves \ {j} /\ b \notin Said /\ <<epoch, j.id>> \in askedIn
    BY <1>3 DEF Answer, Respond, TellInv, ServeInv
  <2>2. Tells({b})
    <3>1. Tells(IF b.type \in Once THEN {b} ELSE {})
      <4> HIDE DEF b
      <4> QED BY <1>1, <1>2, <2>1, SayTells DEF TellInv
    <3> QED BY <1>1, <3>1
  <2>3. Arriving' \subseteq Arriving /\ AskedOnce(toPage)'
    <3>1. CASE toPage' = toPage
      BY <3>1 DEF TellInv, ServeInv, AskedOnce, Arriving
    <3>2. CASE toPage # <<>> /\ toPage' = Tail(toPage)
      BY <3>2, Heading DEF TellInv, ServeInv
    <3> QED BY <3>1, <3>2
  <2>4. \A k \in serves' : k.id # b.id
    BY <1>1, <1>3, <2>1 DEF TellInv, ServeInv
  <2>5. \A f \in Arriving' : f.body.type = "request" => f.body.id # b.id
    BY <1>1, <1>3, <2>3 DEF TellInv, ServeInv
  <2> DEFINE B == {b}
  <2>6. Tells(B) /\ (\A x \in B : x.type # "call") /\ \A x \in B : x = b
    BY <1>1, <2>2
  <2>7. \A x \in B : x.type = "answer" =>
           /\ <<epoch, x.id>> \in askedIn
           /\ \A k \in serves' : k.id # x.id
           /\ \A f \in Arriving' : f.body.type = "request" => f.body.id # x.id
    BY <1>1, <2>1, <2>4, <2>5
  <2> HIDE DEF B, b
  <2>8. CallInv'
    BY <1>2, <2>3, <2>6, CallsKept DEF TellInv
  <2>9. ServeInv'
    <3>1. serves' \subseteq serves
      BY <2>1
    <3> QED BY <1>2, <2>3, <2>6, <2>7, <3>1, ServesKept DEF TellInv
  <2> QED BY <2>6, <2>8, <2>9 DEF TellInv, Tells
<1>4. CASE j \notin serves
  <2>1. UNCHANGED <<laneVars, epoch, delivered>> /\ serves' = serves
    BY <1>2, <1>4 DEF Answer
  <2>2. Tells({})
    BY <2>1, LaneStands DEF TellInv
  <2> QED BY <2>1, <2>2, QuietTell
<1> QED BY <1>3, <1>4

\* A request taken or refused: refused, it is answered; taken, it is served
\* in the session it came in.
LEMMA OnRequestTell ==
  ASSUME Types, TellInv, toPage # <<>>, toPage' = Tail(toPage), NEW f, f = Head(toPage), f.epoch = epoch,
         OnRequest(f.body, f.seq), UNCHANGED guestVars
  PROVE  TellInv'
<1> DEFINE r == f.body.id
           b == Body("answer", r)
<1>1. UNCHANGED <<epoch, nextId, outcome, executing, delivered, askedIn>> /\ StartServe(r, f.seq) /\ f.body.type = "request"
  BY DEF OnRequest, guestVars, historyVars
<1>2. /\ f \in Arriving /\ Arriving' \subseteq Arriving /\ AskedOnce(toPage)'
      /\ \A g \in Arriving' : g.body # f.body
  BY <1>1, Heading DEF TellInv, ServeInv
<1>3. /\ <<epoch, r>> \in askedIn /\ b \notin Said /\ r \in Requests
      /\ \A j \in serves : j.id # r
  BY <1>1, <1>2 DEF TellInv, ServeInv
<1>4. b \in Bodies /\ b.type = "answer" /\ b.id = r /\ b.type \in Once
  BY <1>3 DEF Bodies, Body, Once
<1>5. \A g \in Arriving' : g.body.type = "request" => g.body.id # r
  <2> SUFFICES ASSUME NEW g \in Arriving', g.body.type = "request", g.body.id = r PROVE FALSE
    OBVIOUS
  <2>1. g.body \in Bodies /\ f.body \in Bodies
    <3>1. g \in Frames /\ f \in Frames
      BY <1>2 DEF Arriving, Types, TypeOK
    <3> QED BY <3>1 DEF Frames
  <2>2. g.body = f.body
    BY <1>1, <2>1 DEF Bodies
  <2> QED BY <1>2, <2>2
<1>6. CASE Respond(r) /\ UNCHANGED <<serves, running, owed>>
  <2> DEFINE B == {b}
  <2>1. Tells(B)
    <3>1. Tells(IF b.type \in Once THEN {b} ELSE {})
      <4>1. Say(b)
        BY <1>6 DEF Respond
      <4> HIDE DEF b
      <4> QED BY <1>1, <1>3, <1>4, <4>1, SayTells DEF TellInv
    <3> QED BY <1>4, <3>1
  <2>2. \A x \in B : x.type # "call" /\ x.id = r
    BY <1>4
  <2> HIDE DEF B, b, r
  <2>3. CallInv'
    BY <1>1, <1>2, <2>1, <2>2, CallsKept DEF TellInv
  <2>4. ServeInv'
    <3>1. \A x \in B : /\ <<epoch, x.id>> \in askedIn
                       /\ \A j \in serves' : j.id # x.id
                       /\ \A g \in Arriving' : g.body.type = "request" => g.body.id # x.id
      BY <1>3, <1>5, <1>6, <2>2
    <3> QED BY <1>1, <1>2, <1>6, <2>1, <3>1, ServesKept DEF TellInv
  <2> QED BY <2>1, <2>3, <2>4 DEF TellInv, Tells
<1>7. CASE serves' = serves \cup {Job(r, f.seq)} /\ UNCHANGED laneVars
  <2> DEFINE n == Job(r, f.seq)
             E == {}
  <2>1. Tells(E)
    BY <1>1, <1>7, LaneStands DEF TellInv
  <2>2. n.id = r
    BY DEF Job
  <2>3. CallInv'
    <3>1. \A x \in E : x.type # "call"
      OBVIOUS
    <3> HIDE DEF E
    <3> QED BY <1>1, <1>2, <2>1, <3>1, CallsKept DEF TellInv
  <2>4. \A q \in Requests : Body("answer", q) \in Said' => Body("answer", q) \in Said
    <3> SUFFICES ASSUME NEW q \in Requests, Body("answer", q) \in Said' PROVE Body("answer", q) \in Said
      OBVIOUS
    <3>1. Body("answer", q).type = "answer" /\ "answer" \in Once
      BY DEF Body, Once
    <3>2. Body("answer", q) \in Said \cup E
      <4> HIDE DEF E
      <4> QED BY <2>1, <3>1, TellsSaid
    <3> QED BY <3>2
  <2> HIDE DEF n
  <2>5. (\A g \in Arriving : g.body.type = "request" =>
          /\ <<g.epoch, g.body.id>> \in askedIn
          /\ Body("answer", g.body.id) \notin Said
          /\ \A j \in serves : j.id # g.body.id)'
    <3> SUFFICES ASSUME NEW g \in Arriving', g.body.type = "request"
                 PROVE  /\ <<g.epoch, g.body.id>> \in askedIn
                        /\ Body("answer", g.body.id) \notin Said'
                        /\ \A j \in serves' : j.id # g.body.id
      BY <1>1 DEF Body
    <3>1. <<g.epoch, g.body.id>> \in askedIn /\ Body("answer", g.body.id) \notin Said
          /\ \A j \in serves : j.id # g.body.id
      BY <1>2 DEF TellInv, ServeInv
    <3>2. g.body.id \in Requests /\ g.body.id # r
      BY <1>5, <3>1 DEF TellInv, ServeInv
    <3>3. Body("answer", g.body.id) \notin Said'
      BY <2>4, <3>1, <3>2
    <3>4. \A j \in serves' : j.id # g.body.id
      BY <1>7, <2>2, <3>1, <3>2 DEF n
    <3> QED BY <3>1, <3>3, <3>4
  <2>6. (\A j \in serves : <<epoch, j.id>> \in askedIn /\ Body("answer", j.id) \notin Said)'
    <3> SUFFICES ASSUME NEW j \in serves' PROVE <<epoch, j.id>> \in askedIn /\ Body("answer", j.id) \notin Said'
      BY <1>1 DEF Body
    <3>1. <<epoch, j.id>> \in askedIn /\ Body("answer", j.id) \notin Said
      <4>1. CASE j = n
        BY <1>3, <2>2, <4>1
      <4>2. CASE j \in serves
        BY <4>2 DEF TellInv, ServeInv
      <4> QED BY <1>7, <4>1, <4>2 DEF n
    <3>2. j.id \in Requests
      BY <3>1 DEF TellInv, ServeInv
    <3> QED BY <2>4, <3>1, <3>2
  <2>7. (\A i, j \in serves : i.id = j.id => i = j)'
    BY <1>3, <1>7, <2>2 DEF n, TellInv, ServeInv
  <2>8. (\A x \in Waiting : x.type = "answer" => <<epoch, x.id>> \in askedIn)'
    BY <1>1, <2>1 DEF Tells, Once, TellInv, ServeInv
  <2>9. (\A g \in Flying : g.body.type = "answer" => <<g.epoch, g.body.id>> \in askedIn)'
    <3> SUFFICES ASSUME NEW g \in Flying', g.body.type = "answer" PROVE <<g.epoch, g.body.id>> \in askedIn
      BY <1>1
    <3>1. g \in Flying \/ (g.epoch = epoch /\ g.body \in Waiting)
      BY <2>1 DEF Tells, Once
    <3> QED BY <3>1 DEF TellInv, ServeInv
  <2>10. (askedIn \subseteq (1 .. MaxEpoch) \X Requests)'
    BY <1>1 DEF TellInv, ServeInv
  <2>11. ServeInv'
    BY <1>2, <2>5, <2>6, <2>7, <2>8, <2>9, <2>10 DEF ServeInv
  <2> QED BY <2>1, <2>3, <2>11 DEF TellInv, Tells
<1> QED BY <1>1, <1>6, <1>7 DEF StartServe

LEMMA OnHelloReplyTell ==
  ASSUME Types, TellInv, toPage # <<>>, toPage' = Tail(toPage), NEW b, OnHelloReply(b), UNCHANGED guestVars
  PROVE  TellInv'
<1>1. UNCHANGED <<epoch, nextId, delivered>>
  BY DEF OnHelloReply, guestVars, historyVars
<1>2. CASE state = "hello" /\ b.type = "helloOk"
  <2> DEFINE q == IF HasRoom THEN Append(queue, Watch) ELSE queue
  <2>1. Pump(q, "up", inflight, nextSeq) /\ UNCHANGED <<outcome, serves>>
    BY <1>2 DEF OnHelloReply
  <2>2. Watch \in Bodies /\ Watch.type \notin Once
    BY DEF Watch, Body, Bodies, Once
  <2>3. queue \in Seq(Bodies) /\ q \in Seq(Bodies) /\ Len(queue) \in Nat
    BY <2>2 DEF Types, TypeOK, LaneTypeOK
  <2>4. \A k \in 1 .. Len(q) : q[k].type \in Once => k \in 1 .. Len(queue) /\ q[k] = queue[k]
    BY <2>2, <2>3
  <2> HIDE DEF q
  <2>5. QueuedOnce(q)
    BY <2>4 DEF TellInv, TrailInv, QueuedOnce
  <2>6. \A k \in 1 .. Len(q) : q[k].type \in Once => q[k] \in Waiting \cup {}
    BY <2>4 DEF Waiting
  <2>7. Tells({})
    BY <1>1, <2>1, <2>3, <2>5, <2>6, PumpTells DEF TellInv
  <2> QED BY <1>1, <2>1, <2>7, QuietTell
<1>3. CASE state = "hello" /\ b.type = "helloRefused"
  <2>1. LinkLost /\ UNCHANGED toGuest
    BY <1>3 DEF OnHelloReply
  <2> QED BY <1>1, <2>1, LinkLostTell DEF LinkLost
<1>4. CASE UNCHANGED <<outcome, serves, laneVars>>
  <2>1. Tells({})
    BY <1>1, <1>4, LaneStands DEF TellInv
  <2> QED BY <1>1, <1>4, <2>1, QuietTell
<1> QED BY <1>2, <1>3, <1>4 DEF OnHelloReply

LEMMA OnFrameTell ==
  ASSUME Types, TellInv, OnFrame, UNCHANGED guestVars
  PROVE  TellInv'
<1> DEFINE f == Head(toPage)
<1>1. toPage # <<>> /\ toPage' = Tail(toPage) /\ delivered' = delivered /\ f \in Frames
  BY DEF OnFrame, guestVars, historyVars, Types, TypeOK
<1>2. CASE UNCHANGED pageVars /\ UNCHANGED toGuest
  <2>1. Tells({})
    BY <1>1, <1>2, LaneStands DEF pageVars, laneVars, TellInv
  <2> QED BY <1>1, <1>2, <2>1, QuietTell DEF pageVars
<1>3. ASSUME f.epoch = epoch, OnAck(f) PROVE TellInv'
  <2>1. UNCHANGED <<epoch, nextId, outcome, serves>>
    BY <1>3 DEF OnAck
  <2>2. Tells({})
    <3>1. CASE Pump(queue, state, NoFlight, nextSeq)
      <4>1. queue \in Seq(Bodies) /\ \A k \in 1 .. Len(queue) : queue[k] \in Waiting \cup {}
        BY DEF Types, TypeOK, LaneTypeOK, Waiting
      <4> QED BY <1>1, <2>1, <3>1, <4>1, PumpTells DEF TellInv, TrailInv
    <3>2. CASE UNCHANGED laneVars
      BY <1>1, <2>1, <3>2, LaneStands DEF TellInv
    <3> QED BY <1>3, <3>1, <3>2 DEF OnAck
  <2> QED BY <1>1, <2>1, <2>2, QuietTell
<1>4. ASSUME f.epoch = epoch, OnHelloReply(f.body) PROVE TellInv'
  BY <1>1, <1>4, OnHelloReplyTell
<1>5. ASSUME f.epoch = epoch, OnResponse(f.body) PROVE TellInv'
  <2>1. UNCHANGED <<epoch, nextId, serves, laneVars>>
        /\ \A c \in Calls : outcome'[c] = outcome[c] \/ (outcome[c] = "pending" /\ outcome'[c] \notin {"none", "overloaded"})
    BY <1>5 DEF OnResponse, Pending
  <2>2. Tells({})
    BY <1>1, <2>1, LaneStands DEF TellInv
  <2> QED BY <1>1, <2>1, <2>2, QuietTell
<1>6. ASSUME f.epoch = epoch, OnRequest(f.body, f.seq) PROVE TellInv'
  BY <1>1, <1>6, OnRequestTell
<1>7. ASSUME f.epoch = epoch, OnCancel(f.body) PROVE TellInv'
  <2>1. UNCHANGED <<state, epoch, nextId, outcome>> /\ CancelServe(f.body.id)
    BY <1>7 DEF OnCancel
  <2>2. CASE \E j \in serves : j.id = f.body.id /\ Answer(j)
    <3>1. PICK j \in Jobs : Answer(j)
      BY <2>2 DEF Types, TypeOK, PageTypeOK
    <3> QED BY <1>1, <2>1, <3>1, AnswerTell
  <2>3. CASE UNCHANGED <<serves, laneVars, owed>>
    <3>1. Tells({})
      BY <1>1, <2>1, <2>3, LaneStands DEF TellInv
    <3> QED BY <1>1, <2>1, <2>3, <3>1, QuietTell
  <2> QED BY <2>1, <2>2, <2>3 DEF CancelServe
<1> QED BY <1>2, <1>3, <1>4, <1>5, <1>6, <1>7 DEF OnFrame, OnData

LEMMA PageNextTell ==
  ASSUME Types, TellInv, PageNext, UNCHANGED guestVars
  PROVE  TellInv'
<1>1. CASE Attach \/ RetryHello
  BY <1>1, StartSessionTell DEF Attach, RetryHello
<1>2. CASE Detach \/ AckTimeoutLost
  BY <1>2, LinkLostTell DEF Detach, AckTimeoutLost, LinkLost
<1>3. CASE \E c \in Calls : CallDeadline(c) \/ CallAborted(c)
  <2>1. PICK c \in Calls : GiveUp(c, "deadline") \/ GiveUp(c, "cancelled")
    BY <1>3 DEF CallDeadline, CallAborted
  <2>2. CASE GiveUp(c, "deadline")
    BY <2>2, GiveUpTell
  <2>3. CASE GiveUp(c, "cancelled")
    BY <2>3, GiveUpTell
  <2> QED BY <2>1, <2>2, <2>3
<1>4. CASE (\E j \in running : HandlerReturns(j)) \/ (\E j \in serves : ServeDeadline(j))
  <2>1. PICK j \in Jobs : Answer(j) /\ UNCHANGED <<state, epoch, nextId, outcome, toPage>>
    BY <1>4 DEF HandlerReturns, ServeDeadline, Types, TypeOK, PageTypeOK
  <2> QED BY <2>1, AnswerTell
<1>5. CASE Call \/ OnFrame
  BY <1>5, CallTell, OnFrameTell
<1>6. CASE HelloWatchdog \/ AckTimeoutResend \/ AckTimeoutFrozen
  BY <1>6, RepeatTell
<1> QED BY <1>1, <1>2, <1>3, <1>4, <1>5, <1>6 DEF PageNext, PageTimers

----------------------------------------------------------------------------
(* The guest's steps, and noise.                                           *)

LEMMA GuestKeeps ==
  ASSUME Types, TellInv, UNCHANGED pageVars, Flying' \subseteq Flying, Dispatched \subseteq Dispatched',
         AskedOnce(toPage)', askedIn' = askedIn,
         \A c \in executing' : c \in executing \/ Body("call", c) \in Dispatched',
         \A f \in Arriving' : \/ f \in Arriving
                              \/ /\ f.body.type # "request"
                                 /\ f.body.type = "response" => Body("call", f.body.id) \in Dispatched'
  PROVE  TellInv'
<1>1. UNCHANGED <<queue, epoch, nextId, outcome, serves>>
  BY DEF pageVars
<1>2. Waiting' = Waiting
  BY <1>1 DEF Waiting
<1>3. Said' \subseteq Said
  BY <1>2 DEF Said
<1>4. TrailInv'
  BY <1>1, <1>2 DEF TellInv, TrailInv, QueuedOnce
<1>5. CallInv'
  <2>1. (\A c \in Calls : Body("call", c) \in Said => outcome[c] \notin {"none", "overloaded"})'
    BY <1>1, <1>3 DEF TellInv, CallInv, Body, Calls
  <2>2. (\A c \in Calls : c >= nextId => outcome[c] = "none")'
    BY <1>1 DEF TellInv, CallInv, Calls
  <2>3. (\A c \in executing : Body("call", c) \in Dispatched)'
    BY DEF TellInv, CallInv, Body
  <2>4. (\A f \in Arriving : f.body.type = "response" => Body("call", f.body.id) \in Dispatched)'
    BY DEF TellInv, CallInv, Body
  <2> QED BY <2>1, <2>2, <2>3, <2>4 DEF CallInv
<1>6. ServeInv'
  <2>1. (\A f \in Arriving : f.body.type = "request" =>
          /\ <<f.epoch, f.body.id>> \in askedIn
          /\ Body("answer", f.body.id) \notin Said
          /\ \A j \in serves : j.id # f.body.id)'
    <3> SUFFICES ASSUME NEW f \in Arriving', f.body.type = "request"
                 PROVE  /\ <<f.epoch, f.body.id>> \in askedIn
                        /\ Body("answer", f.body.id) \notin Said'
                        /\ \A j \in serves : j.id # f.body.id
      BY <1>1 DEF Body
    <3> QED BY <1>3 DEF TellInv, ServeInv
  <2>2. (\A j \in serves : <<epoch, j.id>> \in askedIn /\ Body("answer", j.id) \notin Said)'
    BY <1>1, <1>3 DEF TellInv, ServeInv, Body
  <2>3. (\A i, j \in serves : i.id = j.id => i = j)'
    BY <1>1 DEF TellInv, ServeInv
  <2>4. (\A b \in Waiting : b.type = "answer" => <<epoch, b.id>> \in askedIn)'
    BY <1>1, <1>2 DEF TellInv, ServeInv
  <2>5. (\A f \in Flying : f.body.type = "answer" => <<f.epoch, f.body.id>> \in askedIn)'
    BY DEF TellInv, ServeInv
  <2>6. (askedIn \subseteq (1 .. MaxEpoch) \X Requests)'
    BY DEF TellInv, ServeInv
  <2> QED BY <2>1, <2>2, <2>3, <2>4, <2>5, <2>6 DEF ServeInv
<1> QED BY <1>4, <1>5, <1>6 DEF TellInv

LEMMA Spoken ==
  ASSUME Types, AskedOnce(toPage), NEW s \in Seq(Frames), toPage' = toPage \o s,
         \A k \in 1 .. Len(s) : s[k].body.type # "request"
  PROVE  /\ AskedOnce(toPage)'
         /\ \A f \in Arriving' : f \in Arriving \/ \E k \in 1 .. Len(s) : f = s[k]
<1>1. toPage \in Seq(Frames)
  BY DEF Types, TypeOK
<1>2. /\ Len(toPage) \in Nat /\ Len(s) \in Nat /\ Len(toPage') = Len(toPage) + Len(s)
      /\ \A k \in 1 .. Len(toPage) : toPage'[k] = toPage[k]
      /\ \A k \in 1 .. Len(toPage') : k \in 1 .. Len(toPage) \/ \E i \in 1 .. Len(s) : toPage'[k] = s[i]
  <2>1. /\ Len(toPage') = Len(toPage) + Len(s)
        /\ \A k \in 1 .. Len(toPage') :
             toPage'[k] = IF k <= Len(toPage) THEN toPage[k] ELSE s[k - Len(toPage)]
    BY <1>1, ConcatProperties
  <2>2. Len(toPage) \in Nat /\ Len(s) \in Nat
    BY <1>1
  <2>3. ASSUME NEW k \in 1 .. Len(toPage'), k \notin 1 .. Len(toPage)
        PROVE  \E i \in 1 .. Len(s) : toPage'[k] = s[i]
    <3>1. k - Len(toPage) \in 1 .. Len(s) /\ toPage'[k] = s[k - Len(toPage)]
      BY <2>1, <2>2, <2>3
    <3> QED BY <3>1
  <2>4. \A k \in 1 .. Len(toPage) : toPage'[k] = toPage[k]
    BY <2>1, <2>2
  <2>5. \A k \in 1 .. Len(toPage') : k \in 1 .. Len(toPage) \/ \E i \in 1 .. Len(s) : toPage'[k] = s[i]
    BY <2>3
  <2> QED BY <2>1, <2>2, <2>4, <2>5
<1>3. AskedOnce(toPage)'
  <2> SUFFICES ASSUME NEW i \in 1 .. Len(toPage'), NEW j \in 1 .. Len(toPage'),
                      toPage'[i].body = toPage'[j].body, toPage'[i].body.type = "request"
               PROVE  i = j
    BY DEF AskedOnce
  <2>1. i \in 1 .. Len(toPage) /\ j \in 1 .. Len(toPage)
    BY <1>2
  <2> QED BY <1>2, <2>1 DEF AskedOnce
<1>4. \A f \in Arriving' : f \in Arriving \/ \E k \in 1 .. Len(s) : f = s[k]
  BY <1>2 DEF Arriving
<1> QED BY <1>3, <1>4

LEMMA SpokenOne ==
  ASSUME Types, AskedOnce(toPage), NEW g \in Frames, toPage' = Append(toPage, g), g.body.type # "request"
  PROVE  AskedOnce(toPage)' /\ \A f \in Arriving' : f \in Arriving \/ f = g
<1>1. toPage \in Seq(Frames) /\ <<g>> \in Seq(Frames) /\ Len(<<g>>) = 1 /\ <<g>>[1] = g
  BY DEF Types, TypeOK
<1>2. toPage' = toPage \o <<g>>
  BY <1>1
<1>3. \A k \in 1 .. Len(<<g>>) : <<g>>[k] = g
  BY <1>1
<1> QED BY <1>1, <1>2, <1>3, Spoken

LEMMA SpokenTwo ==
  ASSUME Types, AskedOnce(toPage), NEW a \in Frames, NEW d \in Frames, toPage' = toPage \o <<a, d>>,
         a.body.type # "request", d.body.type # "request"
  PROVE  AskedOnce(toPage)' /\ \A f \in Arriving' : f \in Arriving \/ f = a \/ f = d
<1> DEFINE s == <<a, d>>
<1>1. s \in Seq(Frames) /\ \A k \in 1 .. Len(s) : s[k] = a \/ s[k] = d
  OBVIOUS
<1>2. toPage' = toPage \o s
  OBVIOUS
<1> HIDE DEF s
<1>3. \A k \in 1 .. Len(s) : s[k].body.type # "request"
  BY <1>1
<1>4. AskedOnce(toPage)' /\ \A f \in Arriving' : f \in Arriving \/ \E k \in 1 .. Len(s) : f = s[k]
  BY <1>1, <1>2, <1>3, Spoken
<1> QED BY <1>1, <1>4

\* A frame leaves the head of the lane to the guest, handled or not.
LEMMA LaneHead ==
  ASSUME Types, toGuest # <<>>, toGuest' = Tail(toGuest), UNCHANGED pageVars,
         delivered' = delivered \/ delivered' = Append(delivered, Head(toGuest))
  PROVE  /\ Flying' \subseteq Flying /\ Dispatched \subseteq Dispatched' /\ Head(toGuest) \in InLane
         /\ delivered' = delivered => Handed' = Handed
         /\ delivered' # delivered => Handed' = Handed \cup {Head(toGuest)}
<1>1. toGuest \in Seq(Frames) /\ delivered \in Seq(Frames)
  BY DEF Types, TypeOK, LaneTypeOK, GuestTypeOK
<1>2. /\ Head(toGuest) = toGuest[1] /\ 1 \in 1 .. Len(toGuest)
      /\ \A k \in 1 .. Len(toGuest') : toGuest'[k] = toGuest[k + 1] /\ k + 1 \in 1 .. Len(toGuest)
  BY <1>1, HeadTailProperties
<1>3. InLane' \subseteq InLane /\ Head(toGuest) \in InLane
  BY <1>2 DEF InLane
<1>4. Unacked' = Unacked
  BY DEF Unacked, pageVars
<1>5. delivered' = delivered => Handed' = Handed
  BY DEF Handed
<1>6. ASSUME delivered' = Append(delivered, Head(toGuest)) PROVE Handed' = Handed \cup {Head(toGuest)}
  <2> DEFINE h == Head(toGuest)
  <2>1. h \in Frames
    BY <1>1
  <2> HIDE DEF h
  <2>2. delivered' = Append(delivered, h)
    BY <1>6 DEF h
  <2>3. Len(delivered') = Len(delivered) + 1 /\ Len(delivered) \in Nat /\ delivered'[Len(delivered) + 1] = h
        /\ \A k \in 1 .. Len(delivered) : delivered'[k] = delivered[k]
    BY <1>1, <2>1, <2>2
  <2>4. Handed' = Handed \cup {h}
    BY <2>3 DEF Handed
  <2> QED BY <2>4 DEF h
<1>7. Flying' \subseteq Flying
  BY <1>3, <1>4, <1>5, <1>6 DEF Flying
<1> QED BY <1>3, <1>5, <1>6, <1>7 DEF Dispatched

LEMMA HandleFrameTell ==
  ASSUME Types, TellInv, HandleFrame, UNCHANGED pageVars
  PROVE  TellInv'
<1> DEFINE f == Head(toGuest)
<1>1. toGuest # <<>> /\ toGuest' = Tail(toGuest) /\ toGuest \in Seq(Frames) /\ toPage \in Seq(Frames)
  BY DEF HandleFrame, Types, TypeOK, LaneTypeOK
<1>2. f \in Frames
  BY <1>1
<1>3. f.epoch \in 1 .. MaxEpoch /\ f.seq \in Nat /\ f.body \in Bodies /\ txSeq \in Nat
  BY <1>2 DEF Frames, Types, TypeOK, GuestTypeOK
<1>4. AskedOnce(toPage)
  BY DEF TellInv, ServeInv
<1> HIDE DEF f
<1>5. \A e \in 1 .. MaxEpoch, s \in Nat :
         /\ Ack(e, s) \in Frames /\ Ack(e, s).body.type = "hello"
         /\ \A b \in Bodies : Data(e, s, b) \in Frames /\ Data(e, s, b).body = b
  BY DEF Ack, Data, Frames, Bodies, Hello, Body
\* What is said of hello, and what is said again, is nobody's answer.
<1>7. ASSUME NEW a \in Frames, NEW d \in Frames, toPage' = toPage \o <<a, d>>,
             a.body.type = "hello", d.body.type \in {"helloOk", "helloRefused"},
             executing' \subseteq executing, UNCHANGED historyVars
      PROVE  TellInv'
  <2>1. Flying' \subseteq Flying /\ Dispatched \subseteq Dispatched'
    BY <1>1, <1>7, LaneHead DEF historyVars
  <2>2. AskedOnce(toPage)' /\ \A g \in Arriving' : g \in Arriving \/ g = a \/ g = d
    BY <1>4, <1>7, SpokenTwo
  <2>3. \A g \in Arriving' : g \in Arriving \/ g.body.type \notin {"request", "response"}
    BY <1>7, <2>2
  <2> QED BY <1>7, <2>1, <2>2, <2>3, GuestKeeps DEF historyVars
<1>8. CASE RefuseHello(f)
  <2> DEFINE d == Data(f.epoch, 1, Body("helloRefused", 0))
  <2>1. Body("helloRefused", 0) \in Bodies /\ Body("helloRefused", 0).type = "helloRefused"
    BY DEF Body, Bodies
  <2>2. Ack(f.epoch, f.seq) \in Frames /\ Ack(f.epoch, f.seq).body.type = "hello" /\ d \in Frames
        /\ d.body.type = "helloRefused"
    BY <1>3, <1>5, <2>1
  <2>3. toPage' = toPage \o <<Ack(f.epoch, f.seq), d>> /\ executing' = executing /\ UNCHANGED historyVars
    BY <1>8 DEF RefuseHello
  <2> HIDE DEF d
  <2> QED BY <1>7, <2>2, <2>3
<1>9. CASE ReplayHello(f) \/ NewSession(f)
  <2> DEFINE d == Data(f.epoch, txSeq', Body("helloOk", 0))
  <2>1. Body("helloOk", 0) \in Bodies /\ Body("helloOk", 0).type = "helloOk"
    BY DEF Body, Bodies
  <2>2. txSeq' \in Nat
    BY <1>3, <1>9 DEF ReplayHello, NewSession
  <2>3. Ack(f.epoch, 0) \in Frames /\ Ack(f.epoch, 0).body.type = "hello" /\ d \in Frames /\ d.body.type = "helloOk"
    BY <1>3, <1>5, <2>1, <2>2
  <2>4. toPage' = toPage \o <<Ack(f.epoch, 0), d>> /\ executing' \subseteq executing /\ UNCHANGED historyVars
    BY <1>9 DEF ReplayHello, NewSession
  <2> HIDE DEF d
  <2> QED BY <1>7, <2>3, <2>4
<1>10. CASE StaleFrame(f)
  <2>1. Flying' \subseteq Flying /\ Dispatched \subseteq Dispatched'
    BY <1>1, <1>10, LaneHead DEF StaleFrame, historyVars
  <2>2. Arriving' = Arriving /\ AskedOnce(toPage)'
    BY <1>4, <1>10 DEF StaleFrame, Arriving, AskedOnce
  <2> QED BY <1>10, <2>1, <2>2, GuestKeeps DEF StaleFrame, historyVars
<1>11. CASE DuplicateFrame(f)
  <2>1. Flying' \subseteq Flying /\ Dispatched \subseteq Dispatched'
    BY <1>1, <1>11, LaneHead DEF DuplicateFrame, historyVars
  <2>2. Ack(gEpoch, f.seq) \in Frames /\ Ack(gEpoch, f.seq).body.type = "hello"
        /\ toPage' = Append(toPage, Ack(gEpoch, f.seq))
    BY <1>3, <1>5, <1>11 DEF DuplicateFrame
  <2>3. AskedOnce(toPage)' /\ \A g \in Arriving' : g \in Arriving \/ g = Ack(gEpoch, f.seq)
    BY <1>4, <2>2, SpokenOne
  <2> QED BY <1>11, <2>1, <2>2, <2>3, GuestKeeps DEF DuplicateFrame, historyVars
<1>12. CASE DispatchFrame(f)
  <2>1. Flying' \subseteq Flying /\ Dispatched \subseteq Dispatched' /\ f.body \in Dispatched'
    <3>1. delivered' = Append(delivered, f)
      BY <1>12 DEF DispatchFrame
    <3>2. delivered' # delivered
      <4>1. delivered \in Seq(Frames)
        BY DEF Types, TypeOK, GuestTypeOK
      <4>2. Len(delivered') = Len(delivered) + 1 /\ Len(delivered) \in Nat
        BY <1>2, <3>1, <4>1
      <4> QED BY <4>2
    <3> QED BY <1>1, <3>1, <3>2, LaneHead DEF Dispatched, f
  <2>2. f.body.type = "call" => f.body = Body("call", f.body.id)
    BY <1>3 DEF Bodies, Body
  <2>3. Ack(gEpoch, f.seq) \in Frames /\ Ack(gEpoch, f.seq).body.type = "hello" /\ gEpoch = f.epoch
    BY <1>3, <1>5, <1>12 DEF DispatchFrame
  <2>4. \A c \in executing' : c \in executing \/ Body("call", c) \in Dispatched'
    BY <1>12, <2>1, <2>2 DEF DispatchFrame, DispatchBody
  <2>5. /\ AskedOnce(toPage)'
        /\ \A g \in Arriving' : \/ g \in Arriving
                                \/ g.body.type = "hello"
                                \/ g.body.type = "response" /\ Body("call", g.body.id) \in Dispatched'
    <3>1. CASE Overloads(f.body)
      <4> DEFINE d == Data(gEpoch, txSeq + 1, Body("response", f.body.id))
                 a == Ack(gEpoch, f.seq)
      <4>1. Body("response", f.body.id) \in Bodies
        BY <1>3, <3>1 DEF Overloads, Bodies, Body
      <4>2. d \in Frames /\ d.body = Body("response", f.body.id)
        BY <1>3, <1>5, <2>3, <4>1
      <4>3. d.body.type = "response" /\ d.body.id = f.body.id
        BY <4>2 DEF Body
      <4>4. Body("call", d.body.id) \in Dispatched'
        BY <2>1, <2>2, <3>1, <4>3 DEF Overloads
      <4>5. toPage' = toPage \o <<a, d>>
        BY <1>12, <3>1 DEF DispatchFrame
      <4>6. a \in Frames /\ a.body.type = "hello"
        BY <2>3
      <4> HIDE DEF a, d
      <4>7. AskedOnce(toPage)' /\ \A g \in Arriving' : g \in Arriving \/ g = a \/ g = d
        BY <1>4, <4>2, <4>3, <4>5, <4>6, SpokenTwo
      <4> QED BY <4>3, <4>4, <4>6, <4>7
    <3>2. CASE ~Overloads(f.body)
      <4>1. toPage' = Append(toPage, Ack(gEpoch, f.seq))
        BY <1>12, <3>2 DEF DispatchFrame
      <4>2. AskedOnce(toPage)' /\ \A g \in Arriving' : g \in Arriving \/ g = Ack(gEpoch, f.seq)
        BY <1>4, <2>3, <4>1, SpokenOne
      <4> QED BY <2>3, <4>2
    <3> QED BY <3>1, <3>2
  <2>6. askedIn' = askedIn
    BY <1>12 DEF DispatchFrame
  <2>7. \A g \in Arriving' : \/ g \in Arriving
                             \/ /\ g.body.type # "request"
                                /\ g.body.type = "response" => Body("call", g.body.id) \in Dispatched'
    BY <2>5
  <2> QED BY <2>1, <2>4, <2>5, <2>6, <2>7, GuestKeeps
<1> QED BY <1>8, <1>9, <1>10, <1>11, <1>12 DEF HandleFrame, f

\* A request is new: it was never sent before, so it is not served and its
\* answer is not on its way.
LEMMA AskPageTell ==
  ASSUME Types, TellInv, NEW r \in Requests, AskPage(r), UNCHANGED pageVars
  PROVE  TellInv'
<1> DEFINE d == Data(gEpoch, txSeq + 1, Body("request", r))
<1>1. /\ toPage' = Append(toPage, d) /\ askedIn' = askedIn \cup {<<gEpoch, r>>}
      /\ UNCHANGED <<executing, delivered, toGuest>>
  BY DEF AskPage, Send
<1>2. d.epoch = gEpoch /\ d.body.type = "request" /\ d.body.id = r
  BY DEF Data, Body
<1>3. gEpoch \in 1 .. MaxEpoch
  BY DEF AskPage, Types, TypeOK, GuestTypeOK, SessionExists
<1>4. \A e : <<e, r>> \notin askedIn
  BY DEF AskPage, TellInv, ServeInv
<1> HIDE DEF d
<1>5. UNCHANGED <<queue, epoch, nextId, outcome, serves>>
  BY DEF pageVars
<1>6. Waiting' = Waiting /\ Flying' = Flying /\ Said' = Said /\ Dispatched' = Dispatched
  BY <1>1 DEF Waiting, Flying, InLane, Handed, Unacked, Said, Dispatched, pageVars
<1>7. Body("answer", r) \notin Said
  <2>1. Body("answer", r).type = "answer" /\ Body("answer", r).id = r
    BY DEF Body
  <2> QED BY <1>4, <2>1 DEF TellInv, ServeInv, Said
<1>8. \A j \in serves : j.id # r
  BY <1>4 DEF TellInv, ServeInv
<1>9. toPage \in Seq(Frames)
  BY DEF Types, TypeOK
<1>10. Len(toPage) \in Nat /\ Len(toPage') = Len(toPage) + 1 /\ toPage'[Len(toPage) + 1] = d
       /\ \A k \in 1 .. Len(toPage) : toPage'[k] = toPage[k] /\ toPage[k] \in Arriving
  BY <1>1, <1>9 DEF Arriving
<1>11. Arriving' \subseteq Arriving \cup {d}
  BY <1>10 DEF Arriving
<1>12. \A f \in Arriving : f.body.type = "request" => f.body.id # r
  BY <1>4 DEF TellInv, ServeInv
<1>13. AskedOnce(toPage)'
  <2> SUFFICES ASSUME NEW i \in 1 .. Len(toPage'), NEW j \in 1 .. Len(toPage'),
                      toPage'[i].body = toPage'[j].body, toPage'[i].body.type = "request"
               PROVE  i = j
    BY DEF AskedOnce
  <2>1. CASE i \in 1 .. Len(toPage) /\ j \in 1 .. Len(toPage)
    BY <1>10, <2>1 DEF TellInv, ServeInv, AskedOnce
  <2>2. CASE i = Len(toPage) + 1 /\ j = Len(toPage) + 1
    BY <2>2
  <2> QED BY <1>2, <1>10, <1>12, <2>1, <2>2
<1>14. TrailInv'
  BY <1>5, <1>6 DEF TellInv, TrailInv, QueuedOnce
<1>15. CallInv'
  <2>1. (\A f \in Arriving : f.body.type = "response" => Body("call", f.body.id) \in Dispatched)'
    BY <1>2, <1>6, <1>11 DEF TellInv, CallInv, Body
  <2>2. (\A c \in Calls : Body("call", c) \in Said => outcome[c] \notin {"none", "overloaded"})'
    BY <1>5, <1>6 DEF TellInv, CallInv, Body, Calls
  <2>3. (\A c \in Calls : c >= nextId => outcome[c] = "none")'
    BY <1>5 DEF TellInv, CallInv, Calls
  <2>4. (\A c \in executing : Body("call", c) \in Dispatched)'
    BY <1>1, <1>6 DEF TellInv, CallInv, Body
  <2> QED BY <2>1, <2>2, <2>3, <2>4 DEF CallInv
<1>16. ServeInv'
  <2>1. (\A f \in Arriving : f.body.type = "request" =>
          /\ <<f.epoch, f.body.id>> \in askedIn
          /\ Body("answer", f.body.id) \notin Said
          /\ \A j \in serves : j.id # f.body.id)'
    <3> SUFFICES ASSUME NEW f \in Arriving', f.body.type = "request"
                 PROVE  /\ <<f.epoch, f.body.id>> \in askedIn'
                        /\ Body("answer", f.body.id) \notin Said
                        /\ \A j \in serves : j.id # f.body.id
      BY <1>5, <1>6 DEF Body
    <3>1. CASE f \in Arriving
      BY <1>1, <3>1 DEF TellInv, ServeInv
    <3>2. CASE f = d
      BY <1>1, <1>2, <1>7, <1>8, <3>2
    <3> QED BY <1>11, <3>1, <3>2
  <2>2. (\A j \in serves : <<epoch, j.id>> \in askedIn /\ Body("answer", j.id) \notin Said)'
    BY <1>1, <1>5, <1>6 DEF TellInv, ServeInv, Body
  <2>3. (\A i, j \in serves : i.id = j.id => i = j)'
    BY <1>5 DEF TellInv, ServeInv
  <2>4. (\A b \in Waiting : b.type = "answer" => <<epoch, b.id>> \in askedIn)'
    BY <1>1, <1>5, <1>6 DEF TellInv, ServeInv
  <2>5. (\A f \in Flying : f.body.type = "answer" => <<f.epoch, f.body.id>> \in askedIn)'
    BY <1>1, <1>6 DEF TellInv, ServeInv
  <2>6. (askedIn \subseteq (1 .. MaxEpoch) \X Requests)'
    BY <1>1, <1>3 DEF TellInv, ServeInv
  <2> QED BY <1>13, <2>1, <2>2, <2>3, <2>4, <2>5, <2>6 DEF ServeInv
<1> QED BY <1>14, <1>15, <1>16 DEF TellInv

LEMMA GuestNextTell ==
  ASSUME Types, TellInv, GuestNext, UNCHANGED pageVars
  PROVE  TellInv'
<1>1. CASE HandleFrame
  BY <1>1, HandleFrameTell
<1>2. ASSUME NEW r \in Requests, AskPage(r) PROVE TellInv'
  BY <1>2, AskPageTell
<1>3. AskedOnce(toPage) /\ toPage \in Seq(Frames) /\ txSeq \in Nat
  BY DEF TellInv, ServeInv, Types, TypeOK, GuestTypeOK
<1>4. delivered' = delivered => Handed' = Handed /\ Dispatched' = Dispatched
  BY DEF Handed, Dispatched
<1>5. Unacked' = Unacked
  BY DEF Unacked, pageVars
<1>6. toGuest' \in {toGuest, <<>>} => InLane' \subseteq InLane
  BY DEF InLane
<1>7. ASSUME NEW c \in executing, AnswerCall(c) PROVE TellInv'
  <2> DEFINE d == Data(gEpoch, txSeq + 1, Body("response", c))
  <2>1. UNCHANGED <<delivered, askedIn, toGuest>> /\ executing' \subseteq executing
        /\ (toPage' = Append(toPage, d) \/ toPage' = toPage)
    BY <1>7 DEF AnswerCall, historyVars, Send, Dropped
  <2>2. gEpoch \in 1 .. MaxEpoch /\ c \in Calls
    BY DEF Types, TypeOK, GuestTypeOK, SessionExists
  <2>3. d \in Frames /\ d.body.type = "response" /\ d.body.id = c
    BY <1>3, <2>2 DEF Data, Frames, Bodies, Body
  <2>4. Body("call", c) \in Dispatched
    BY DEF TellInv, CallInv
  <2> HIDE DEF d
  <2>5. AskedOnce(toPage)' /\ \A f \in Arriving' : f \in Arriving \/ f = d
    <3>1. CASE toPage' = Append(toPage, d)
      BY <1>3, <2>3, <3>1, SpokenOne
    <3>2. CASE toPage' = toPage
      BY <1>3, <3>2 DEF AskedOnce, Arriving
    <3> QED BY <2>1, <3>1, <3>2
  <2>6. \A f \in Arriving' : \/ f \in Arriving
                             \/ f.body.type # "request" /\ Body("call", f.body.id) \in Dispatched'
    BY <1>4, <2>1, <2>3, <2>4, <2>5
  <2> QED BY <1>4, <1>5, <1>6, <2>1, <2>5, <2>6, GuestKeeps DEF Flying
<1>8. ASSUME NEW r \in Requests, CancelAsked(r) PROVE TellInv'
  <2> DEFINE d == Data(gEpoch, txSeq + 1, Body("cancel", r))
  <2>1. UNCHANGED <<delivered, askedIn, toGuest, executing>> /\ toPage' = Append(toPage, d)
    BY <1>8 DEF CancelAsked, historyVars, Send
  <2>2. gEpoch \in 1 .. MaxEpoch
    BY <1>8 DEF CancelAsked, Types, TypeOK, GuestTypeOK, SessionExists
  <2>3. d \in Frames /\ d.body.type = "cancel"
    BY <1>3, <2>2 DEF Data, Frames, Bodies, Body, Ids
  <2> HIDE DEF d
  <2>4. AskedOnce(toPage)' /\ \A f \in Arriving' : f \in Arriving \/ f = d
    BY <1>3, <2>1, <2>3, SpokenOne
  <2> QED BY <1>4, <1>5, <1>6, <2>1, <2>3, <2>4, GuestKeeps DEF Flying
<1>9. CASE SessionDown
  <2>1. UNCHANGED <<delivered, askedIn, toGuest, toPage>> /\ executing' = {}
    BY <1>9 DEF SessionDown, historyVars
  <2>2. AskedOnce(toPage)' /\ Arriving' = Arriving
    BY <1>3, <2>1 DEF AskedOnce, Arriving
  <2> QED BY <1>4, <1>5, <1>6, <2>1, <2>2, GuestKeeps DEF Flying
<1>10. CASE Restart
  <2>1. UNCHANGED <<delivered, askedIn>> /\ executing' = {} /\ toGuest' = <<>>
    BY <1>10 DEF Restart, historyVars
  <2>2. PICK n \in 0 .. Len(toPage) : toPage' = SubSeq(toPage, 1, n)
    BY <1>10 DEF Restart
  <2>3. Len(toPage') = n /\ \A k \in 1 .. n : toPage'[k] = toPage[k] /\ k \in 1 .. Len(toPage)
    BY <1>3, <2>2
  <2>4. AskedOnce(toPage)' /\ Arriving' \subseteq Arriving
    BY <1>3, <2>3 DEF AskedOnce, Arriving
  <2> QED BY <1>4, <1>5, <1>6, <2>1, <2>4, GuestKeeps DEF Flying
<1> QED BY <1>1, <1>2, <1>7, <1>8, <1>9, <1>10 DEF GuestNext

LEMMA InitTell == Init => TellInv
<1> SUFFICES ASSUME Init PROVE TellInv
  OBVIOUS
<1>1. queue = <<>> /\ toGuest = <<>> /\ toPage = <<>> /\ delivered = <<>> /\ inflight = NoFlight
      /\ serves = {} /\ executing = {} /\ askedIn = {} /\ outcome = [c \in Calls |-> "none"]
  BY DEF Init, PageInit, GuestInit
<1>2. Waiting = {} /\ Flying = {} /\ Said = {} /\ Arriving = {}
  BY <1>1 DEF Waiting, Flying, InLane, Handed, Unacked, Said, Arriving
<1>3. TrailInv
  BY <1>1, <1>2 DEF TrailInv, QueuedOnce
<1>4. CallInv
  BY <1>1, <1>2 DEF CallInv
<1>5. ServeInv
  BY <1>1, <1>2 DEF ServeInv, AskedOnce
<1> QED BY <1>3, <1>4, <1>5 DEF TellInv

LEMMA NextTell == Types /\ TellInv /\ [Next]_vars => TellInv'
<1> SUFFICES ASSUME Types, TellInv, [Next]_vars PROVE TellInv'
  OBVIOUS
<1>1. CASE PageNext /\ UNCHANGED guestVars
  BY <1>1, PageNextTell
<1>2. CASE GuestNext /\ UNCHANGED pageVars
  BY <1>2, GuestNextTell
<1>3. AskedOnce(toPage)
  BY DEF TellInv, ServeInv
<1>4. CASE LoseToGuest
  <2>1. Flying' \subseteq Flying /\ Dispatched \subseteq Dispatched'
    BY <1>4, LaneHead DEF LoseToGuest, guestVars, historyVars
  <2>2. AskedOnce(toPage)' /\ Arriving' = Arriving
    BY <1>3, <1>4 DEF LoseToGuest, AskedOnce, Arriving
  <2> QED BY <1>4, <2>1, <2>2, GuestKeeps DEF LoseToGuest, guestVars, historyVars
<1>5. CASE LoseToPage \/ UNCHANGED vars
  <2>1. UNCHANGED <<pageVars, guestVars, toGuest>> /\ (toPage' = toPage \/ (toPage # <<>> /\ toPage' = Tail(toPage)))
    BY <1>5 DEF LoseToPage, vars
  <2>2. UNCHANGED <<executing, delivered, askedIn>>
    BY <2>1 DEF guestVars, historyVars
  <2>3. Flying' = Flying /\ Dispatched' = Dispatched
    BY <2>1, <2>2 DEF Flying, InLane, Handed, Unacked, Dispatched, pageVars
  <2>4. AskedOnce(toPage)' /\ Arriving' \subseteq Arriving
    <3>1. CASE toPage' = toPage
      BY <1>3, <3>1 DEF AskedOnce, Arriving
    <3>2. CASE toPage # <<>> /\ toPage' = Tail(toPage)
      BY <1>3, <3>2, Heading
    <3> QED BY <2>1, <3>1, <3>2
  <2> QED BY <2>1, <2>2, <2>3, <2>4, GuestKeeps
<1> QED BY <1>1, <1>2, <1>4, <1>5 DEF Next

----------------------------------------------------------------------------
(* What follows for the requests the page serves.                          *)

LEMMA AnswersFollow == Types /\ OrderInv /\ TellInv => AnswersMatchRequests
<1> SUFFICES ASSUME Types, OrderInv, TellInv,
                    NEW i \in 1 .. Len(delivered), delivered[i].body.type = "answer"
             PROVE  /\ <<delivered[i].epoch, delivered[i].body.id>> \in askedIn
                    /\ \A j \in 1 .. Len(delivered) : delivered[j].body = delivered[i].body => i = j
  BY DEF AnswersMatchRequests
<1>1. \A k \in 1 .. Len(delivered) : delivered[k] \in Flying /\ delivered[k].epoch \in Nat /\ delivered[k].seq \in Nat
  <2>1. delivered \in Seq(Frames)
    BY DEF Types, TypeOK, GuestTypeOK
  <2>2. \A f \in Frames : f.epoch \in Nat /\ f.seq \in Nat
    BY RpcLinkAssumption DEF Frames
  <2> QED BY <2>1, <2>2 DEF Flying, Handed
<1>2. <<delivered[i].epoch, delivered[i].body.id>> \in askedIn
  BY <1>1 DEF TellInv, ServeInv
<1>3. ASSUME NEW j \in 1 .. Len(delivered), delivered[j].body = delivered[i].body PROVE i = j
  <2>1. delivered[i].epoch = delivered[j].epoch /\ delivered[i].seq = delivered[j].seq
    BY <1>1, <1>3 DEF TellInv, TrailInv, Once
  <2>2. ~Before(delivered[i], delivered[j]) /\ ~Before(delivered[j], delivered[i])
    BY <1>1, <2>1 DEF Before
  <2>3. ~(i < j) /\ ~(j < i)
    BY <2>2 DEF OrderInv, InOrderAtMostOnce
  <2>4. i \in Int /\ j \in Int
    OBVIOUS
  <2> QED BY <2>3, <2>4
<1> QED BY <1>2, <1>3

\* Whatever is lost, resent, respawned or torn down, and however often a
\* handler, its deadline and a cancel race to answer: every answer the guest
\* dispatches answers a request of that very session, and no request is
\* answered twice (runServe's latch, failSession, handle_frame).
THEOREM AnswersMatch == Spec => []AnswersMatchRequests
<1>1. Init => Types /\ OrderInv /\ TellInv
  BY InitTypes, InitOrder, InitTell
<1>2. Types /\ OrderInv /\ TellInv /\ [Next]_vars => (Types /\ OrderInv /\ TellInv)'
  BY NextTypes, NextOrder, NextTell
<1> QED BY <1>1, <1>2, AnswersFollow, PTL DEF Spec

\* While there is room in the send queue a job leaves the table only with
\* its answer taken.
LEMMA AnswerAccepted ==
  ASSUME TellInv, AcceptedIsAnswered, HasRoom, NEW j, Answer(j), state' = state
  PROVE  AcceptedIsAnswered'
<1>1. CASE j \in serves /\ Established
  <2>1. serves' = serves \ {j} /\ owed' = owed \ {j.id}
    BY <1>1 DEF Answer, AnswerTaken
  <2>2. \A r \in owed' : \E k \in serves' : k.id = r
    <3> TAKE r \in owed'
    <3>1. PICK k \in serves : k.id = r
      BY <1>1, <2>1 DEF AcceptedIsAnswered, Established
    <3>2. k \in serves'
      BY <2>1, <3>1
    <3> QED BY <3>1, <3>2
  <2> QED BY <2>2 DEF AcceptedIsAnswered
<1>2. CASE j \notin serves
  BY <1>2 DEF Answer, AcceptedIsAnswered
<1>3. CASE ~Established
  BY <1>3 DEF AcceptedIsAnswered, Established
<1> QED BY <1>1, <1>2, <1>3

LEMMA NextAccepted ==
  ASSUME Types, TellInv, AcceptedIsAnswered, HasRoom, [Next]_vars
  PROVE  AcceptedIsAnswered'
<1>1. CASE UNCHANGED <<serves, owed>> /\ (state' \in {"hello", "up"} => state \in {"hello", "up"})
  BY <1>1 DEF AcceptedIsAnswered
<1>2. CASE owed' = {}
  BY <1>2 DEF AcceptedIsAnswered
<1>3. CASE \E j : Answer(j) /\ state' = state
  BY <1>3, AnswerAccepted
<1>4. CASE OnFrame
  <2> DEFINE f == Head(toPage)
  <2>1. CASE OnRequest(f.body, f.seq)
    <3>1. state' = state /\ StartServe(f.body.id, f.seq)
      BY <2>1 DEF OnRequest
    <3>2. CASE UNCHANGED <<serves, owed>>
      BY <1>1, <3>1, <3>2
    <3>3. CASE serves' = serves \cup {Job(f.body.id, f.seq)} /\ owed' = owed \cup {f.body.id}
      <4>1. Job(f.body.id, f.seq).id = f.body.id
        BY DEF Job
      <4> QED BY <3>1, <3>3, <4>1 DEF AcceptedIsAnswered
    <3> QED BY <3>1, <3>2, <3>3 DEF StartServe
  <2>2. CASE OnCancel(f.body)
    BY <1>1, <1>3, <2>2 DEF OnCancel, CancelServe
  <2>3. CASE OnHelloReply(f.body)
    <3>1. CASE LinkLost
      BY <1>2, <3>1 DEF LinkLost, FailSession
    <3>2. CASE UNCHANGED <<serves, owed>> /\ (state = "hello" \/ state' = state)
      BY <1>1, <3>2
    <3> QED BY <2>3, <3>1, <3>2 DEF OnHelloReply
  <2>4. CASE OnAck(f) \/ OnResponse(f.body) \/ UNCHANGED pageVars
    BY <1>1, <2>4 DEF OnAck, OnResponse, pageVars
  <2> QED BY <1>4, <2>1, <2>2, <2>3, <2>4 DEF OnFrame, OnData
<1>5. CASE PageNext
  <2>1. CASE Attach \/ RetryHello \/ Detach \/ AckTimeoutLost
    BY <1>2, <2>1 DEF Attach, RetryHello, StartSession, Detach, AckTimeoutLost, LinkLost, FailSession
  <2>2. CASE Call \/ HelloWatchdog \/ AckTimeoutResend \/ AckTimeoutFrozen
    BY <1>1, <2>2 DEF Call, HelloWatchdog, AckTimeoutResend, AckTimeoutFrozen, pageVars
  <2>3. CASE \E c \in Calls : CallDeadline(c) \/ CallAborted(c)
    BY <1>1, <2>3 DEF CallDeadline, CallAborted, GiveUp
  <2>4. CASE (\E j \in running : HandlerReturns(j)) \/ (\E j \in serves : ServeDeadline(j))
    BY <1>3, <2>4 DEF HandlerReturns, ServeDeadline
  <2> QED BY <1>4, <1>5, <2>1, <2>2, <2>3, <2>4 DEF PageNext, PageTimers
<1> QED BY <1>1, <1>5 DEF Next, LoseToGuest, LoseToPage, vars, pageVars

\* As long as the send queue never fills, the page answers what it took, in
\* the session it took it in and once, and owes nothing that it no longer
\* serves.  (respond does not look whether the queue took the answer, so
\* with a full queue the second half does not hold.)
THEOREM ServesExactly == Spec /\ []HasRoom => []ServedExactly
<1>1. Init => Types /\ OrderInv /\ TellInv /\ AcceptedIsAnswered
  <2>1. Init => AcceptedIsAnswered
    BY DEF Init, PageInit, AcceptedIsAnswered
  <2> QED BY <2>1, InitTypes, InitOrder, InitTell
<1>2. Types /\ OrderInv /\ TellInv /\ AcceptedIsAnswered /\ HasRoom /\ [Next]_vars
        => (Types /\ OrderInv /\ TellInv /\ AcceptedIsAnswered)'
  BY NextTypes, NextOrder, NextTell, NextAccepted
<1>3. Types /\ OrderInv /\ TellInv /\ AcceptedIsAnswered => ServedExactly
  BY AnswersFollow DEF ServedExactly
<1> QED BY <1>1, <1>2, <1>3, PTL DEF Spec

----------------------------------------------------------------------------
(* What follows for the page's calls: they implement CallSpec.             *)

\* How often the guest was given each call, told by the trail.
Given == [c \in Calls |-> IF Body("call", c) \in Dispatched THEN 1 ELSE 0]

LEMMA RunsAreGiven == Types /\ OrderInv /\ TellInv => runs = Given
<1> SUFFICES ASSUME Types, OrderInv, TellInv, NEW c \in Calls
             PROVE  Cardinality({i \in 1 .. Len(delivered) : delivered[i].body = Body("call", c)})
                      = IF Body("call", c) \in Dispatched THEN 1 ELSE 0
  BY DEF runs, Given
<1> DEFINE b == Body("call", c)
           I == {i \in 1 .. Len(delivered) : delivered[i].body = b}
<1>1. b.type \in Once
  BY DEF Body, Once
<1> HIDE DEF b
<1>2. \A k \in 1 .. Len(delivered) : delivered[k] \in Flying /\ delivered[k].epoch \in Nat /\ delivered[k].seq \in Nat
  <2>1. delivered \in Seq(Frames)
    BY DEF Types, TypeOK, GuestTypeOK
  <2>2. \A f \in Frames : f.epoch \in Nat /\ f.seq \in Nat
    BY RpcLinkAssumption DEF Frames
  <2> QED BY <2>1, <2>2 DEF Flying, Handed
<1>3. \A i, j \in I : i = j
  <2> SUFFICES ASSUME NEW i \in I, NEW j \in I PROVE i = j
    OBVIOUS
  <2>1. delivered[i].epoch = delivered[j].epoch /\ delivered[i].seq = delivered[j].seq
    BY <1>1, <1>2 DEF TellInv, TrailInv
  <2>2. ~Before(delivered[i], delivered[j]) /\ ~Before(delivered[j], delivered[i])
    BY <1>2, <2>1 DEF Before
  <2>3. ~(i < j) /\ ~(j < i)
    BY <2>2 DEF OrderInv, InOrderAtMostOnce
  <2>4. i \in Int /\ j \in Int
    OBVIOUS
  <2> QED BY <2>3, <2>4
<1>4. CASE b \in Dispatched
  <2>1. PICK i \in I : TRUE
    BY <1>4 DEF Dispatched, Handed
  <2>2. I = {i}
    BY <1>3, <2>1
  <2> HIDE DEF I
  <2>3. Cardinality(I) = 1
    BY <2>2, FS_Singleton
  <2> QED BY <1>4, <2>3 DEF I, b
<1>5. CASE b \notin Dispatched
  <2>1. I = {}
    BY <1>5 DEF Dispatched, Handed
  <2> HIDE DEF I
  <2>2. Cardinality(I) = 0
    BY <2>1, FS_EmptySet
  <2> QED BY <1>5, <2>2 DEF I, b
<1> QED BY <1>4, <1>5

Stays == UNCHANGED <<outcome, runs>>

LEMMA FailImplements ==
  ASSUME NEW S \in SUBSET Calls, NEW how \in {"deadline", "cancelled", "unavailable"},
         \A c \in S : outcome[c] = "pending", runs' = runs,
         outcome' = [c \in Calls |-> IF c \in S THEN how ELSE outcome[c]]
  PROVE  Promise!Next
<1>1. Promise!Fail(S, how)
  BY DEF Promise!Fail
<1> QED BY <1>1 DEF Promise!Next

\* Every step of the page issues a call, fails some, returns one, or is
\* nothing to the promise.
LEMMA PageImplements ==
  ASSUME Types, TellInv, runs = Given, runs' = runs, PageNext
  PROVE  Promise!Next \/ Stays
<1>1. outcome \in [Calls -> Outcomes]
  BY DEF Types, TypeOK, PageTypeOK
<1>2. CASE FailSession
  <2>1. outcome' = [c \in Calls |-> IF c \in Pending THEN "unavailable" ELSE outcome[c]]
    BY <1>2 DEF FailSession
  <2>2. Pending \in SUBSET Calls /\ \A c \in Pending : outcome[c] = "pending"
    BY DEF Pending
  <2> QED BY <2>1, <2>2, FailImplements
<1>3. CASE \E c \in Calls : CallDeadline(c) \/ CallAborted(c)
  <2>1. PICK c \in Calls, how \in {"deadline", "cancelled"} : GiveUp(c, how)
    BY <1>3 DEF CallDeadline, CallAborted
  <2>2. outcome[c] = "pending" /\ outcome' = [d \in Calls |-> IF d \in {c} THEN how ELSE outcome[d]]
    BY <1>1, <2>1 DEF GiveUp
  <2>3. {c} \in SUBSET Calls /\ (\A d \in {c} : outcome[d] = "pending") /\ how \in {"deadline", "cancelled", "unavailable"}
    BY <2>2
  <2> QED BY <2>2, <2>3, FailImplements
<1>4. CASE Call
  <2>1. nextId \in Calls /\ outcome[nextId] = "none"
    BY <1>4, RpcLinkAssumption DEF Call, Types, TypeOK, PageTypeOK, Calls, TellInv, CallInv
  <2>2. outcome' = [outcome EXCEPT ![nextId] = IF HasRoom THEN "pending" ELSE "overloaded"]
    BY <1>4 DEF Call
  <2>3. \E o \in {"pending", "overloaded"} : outcome' = [outcome EXCEPT ![nextId] = o]
    BY <2>2
  <2>4. Promise!Issue(nextId)
    BY <2>1, <2>3 DEF Promise!Issue
  <2> QED BY <2>1, <2>4 DEF Promise!Next
<1>5. CASE outcome' = outcome
  BY <1>5 DEF Stays
<1>6. CASE OnFrame
  <2> DEFINE f == Head(toPage)
             b == f.body
  <2>1. CASE OnResponse(b)
    <3>1. outcome' = [c \in Calls |-> IF c = b.id /\ c \in Pending THEN "result" ELSE outcome[c]]
      BY <2>1 DEF OnResponse
    <3>2. CASE b.id \in Pending
      <4>1. b.id \in Calls /\ outcome[b.id] = "pending" /\ outcome' = [outcome EXCEPT ![b.id] = "result"]
        BY <1>1, <3>1, <3>2 DEF Pending
      <4>2. runs[b.id] = 1
        <5>1. f \in Arriving
          BY <1>6, Heading DEF OnFrame
        <5>2. Body("call", b.id) \in Dispatched
          BY <2>1, <5>1 DEF OnResponse, TellInv, CallInv
        <5> QED BY <4>1, <5>2 DEF Given
      <4> HIDE DEF b
      <4>3. Promise!Return(b.id)
        BY <4>1, <4>2 DEF Promise!Return
      <4> QED BY <4>1, <4>3 DEF Promise!Next
    <3>3. CASE b.id \notin Pending
      <4>1. outcome' = outcome
        BY <1>1, <3>1, <3>3
      <4> QED BY <1>5, <4>1
    <3> QED BY <3>2, <3>3
  <2>2. CASE OnHelloReply(b)
    BY <1>2, <1>5, <2>2 DEF OnHelloReply, LinkLost
  <2>3. CASE OnAck(f) \/ OnRequest(b, f.seq) \/ OnCancel(b) \/ UNCHANGED pageVars
    BY <1>5, <2>3 DEF OnAck, OnRequest, OnCancel, pageVars
  <2> QED BY <1>6, <2>1, <2>2, <2>3 DEF OnFrame, OnData
<1>7. CASE Attach \/ RetryHello \/ Detach \/ AckTimeoutLost
  BY <1>2, <1>7 DEF Attach, RetryHello, StartSession, Detach, AckTimeoutLost, LinkLost
<1>8. CASE \/ HelloWatchdog \/ AckTimeoutResend \/ AckTimeoutFrozen
           \/ (\E j \in running : HandlerReturns(j)) \/ (\E j \in serves : ServeDeadline(j))
  BY <1>5, <1>8 DEF HelloWatchdog, AckTimeoutResend, AckTimeoutFrozen, pageVars, HandlerReturns, ServeDeadline
<1> QED BY <1>3, <1>4, <1>6, <1>7, <1>8 DEF PageNext, PageTimers

\* Dispatching a call executes it, for the first time.
LEMMA DispatchImplements ==
  ASSUME Types, OrderInv, TellInv, runs = Given, runs' = Given', HandleFrame, UNCHANGED pageVars,
         DispatchFrame(Head(toGuest))
  PROVE  Promise!Next \/ Stays
<1> DEFINE f == Head(toGuest)
<1>1. toGuest # <<>> /\ toGuest' = Tail(toGuest) /\ toGuest \in Seq(Frames) /\ delivered \in Seq(Frames)
  BY DEF HandleFrame, Types, TypeOK, LaneTypeOK, GuestTypeOK
<1>2. f \in Frames /\ delivered' = Append(delivered, f) /\ active /\ f.epoch = gEpoch /\ f.seq > rxSeq
  BY <1>1 DEF DispatchFrame
<1>3. delivered' # delivered
  <2> HIDE DEF f
  <2>1. Len(delivered') = Len(delivered) + 1 /\ Len(delivered) \in Nat
    BY <1>1, <1>2
  <2> QED BY <2>1
<1>4. f \in Flying /\ Handed' = Handed \cup {f}
  BY <1>1, <1>2, <1>3, LaneHead DEF Flying
<1>5. Dispatched' = Dispatched \cup {f.body}
  BY <1>4 DEF Dispatched
<1>6. outcome' = outcome /\ outcome \in [Calls -> Outcomes]
  BY DEF pageVars, Types, TypeOK, PageTypeOK
<1> HIDE DEF f
<1>7. CASE \E c \in Calls : f.body = Body("call", c)
  <2>1. PICK c \in Calls : f.body = Body("call", c)
    BY <1>7
  <2>2. f.body.type \in Once
    BY <2>1 DEF Body, Once
  <2>3. outcome[c] \notin {"none", "overloaded"}
    BY <1>4, <2>1 DEF TellInv, CallInv, Said
  <2>4. f.body \notin Dispatched
    <3> SUFFICES ASSUME NEW k \in 1 .. Len(delivered), delivered[k].body = f.body PROVE FALSE
      BY DEF Dispatched, Handed
    <3>1. delivered[k] \in Flying
      BY DEF Flying, Handed
    <3>2. delivered[k].epoch = f.epoch /\ delivered[k].seq = f.seq
      BY <1>4, <2>2, <3>1 DEF TellInv, TrailInv
    <3>3. delivered[k].epoch < gEpoch \/ delivered[k].seq <= rxSeq
      BY <1>2 DEF OrderInv, DeliveredInv
    <3>4. f.epoch \in Nat /\ f.seq \in Nat /\ rxSeq \in Nat
      BY <1>2, RpcLinkAssumption DEF Frames, Types, TypeOK, GuestTypeOK
    <3> QED BY <1>2, <3>2, <3>3, <3>4
  <2>5. runs[c] = 0
    BY <2>1, <2>4 DEF Given
  <2>6. \A d \in Calls : Body("call", d) = f.body <=> d = c
    BY <2>1 DEF Body
  <2>7. \A d \in Calls : Given'[d] = IF d = c THEN 1 ELSE Given[d]
    <3>1. Given' = [d \in Calls |-> IF Body("call", d) \in Dispatched' THEN 1 ELSE 0]
      BY DEF Given, Body, Calls
    <3> QED BY <1>5, <2>6, <3>1 DEF Given
  <2>8. runs' = [runs EXCEPT ![c] = 1]
    <3>1. Given' = [d \in Calls |-> Given'[d]] /\ Given = [d \in Calls |-> Given[d]]
      BY DEF Given, Calls
    <3> QED BY <2>7, <3>1
  <2>9. Promise!Execute(c)
    BY <1>6, <2>3, <2>5, <2>8 DEF Promise!Execute
  <2> QED BY <2>9 DEF Promise!Next
<1>8. CASE \A c \in Calls : f.body # Body("call", c)
  <2>1. \A c \in Calls : Body("call", c) \in Dispatched' <=> Body("call", c) \in Dispatched
    BY <1>5, <1>8
  <2>2. Given' = [d \in Calls |-> IF Body("call", d) \in Dispatched' THEN 1 ELSE 0]
    BY DEF Given, Body, Calls
  <2>3. Given' = Given
    BY <2>1, <2>2 DEF Given
  <2> QED BY <1>6, <2>3 DEF Stays
<1> QED BY <1>7, <1>8

LEMMA NextImplements ==
  ASSUME Types, OrderInv, TellInv, runs = Given, runs' = Given', [Next]_vars
  PROVE  [Promise!Next]_<<outcome, runs>>
<1>1. delivered' = delivered => runs' = runs
  <2>1. delivered' = delivered => Dispatched' = Dispatched
    BY DEF Dispatched, Handed
  <2>2. Given' = [d \in Calls |-> IF Body("call", d) \in Dispatched' THEN 1 ELSE 0]
    BY DEF Given, Body, Calls
  <2> QED BY <2>1, <2>2 DEF Given
<1>2. CASE PageNext /\ UNCHANGED guestVars
  BY <1>1, <1>2, PageImplements DEF Stays, guestVars, historyVars
<1>3. CASE UNCHANGED pageVars /\ delivered' = delivered
  BY <1>1, <1>3 DEF pageVars
<1>4. CASE GuestNext /\ UNCHANGED pageVars
  <2>1. CASE HandleFrame
    <3>1. CASE DispatchFrame(Head(toGuest))
      BY <1>4, <2>1, <3>1, DispatchImplements DEF Stays
    <3>2. CASE delivered' = delivered
      BY <1>3, <1>4, <3>2
    <3> QED BY <2>1, <3>1, <3>2
         DEF HandleFrame, RefuseHello, ReplayHello, NewSession, StaleFrame, DuplicateFrame, historyVars
  <2>2. CASE delivered' = delivered
    BY <1>3, <1>4, <2>2
  <2> QED BY <1>4, <2>1, <2>2 DEF GuestNext, AnswerCall, AskPage, CancelAsked, SessionDown, Restart, historyVars
<1> QED BY <1>2, <1>3, <1>4 DEF Next, LoseToGuest, LoseToPage, vars, guestVars, historyVars

\* The calls of RpcLink implement the promise of CallSpec, whatever the wire
\* and rpcd do: a call runs at most once in the guest, its caller hears one
\* outcome, and a result only of a call the guest was given (RpcLink.call,
\* onResponse, failSession, handle_frame).
THEOREM CallsRefine == Spec => CallsKeepThePromise
<1>1. Init => Promise!Init
  <2> SUFFICES ASSUME Init PROVE Promise!Init
    OBVIOUS
  <2>1. outcome = [c \in Calls |-> "none"] /\ delivered = <<>>
    BY DEF Init, PageInit, GuestInit
  <2>2. Dispatched = {}
    BY <2>1 DEF Dispatched, Handed
  <2>3. runs = Given
    BY InitTypes, InitOrder, InitTell, RunsAreGiven
  <2> QED BY <2>1, <2>2, <2>3 DEF Promise!Init, Given
<1>2. Init => Types /\ OrderInv /\ TellInv
  BY InitTypes, InitOrder, InitTell
<1>3. Types /\ OrderInv /\ TellInv /\ [Next]_vars => (Types /\ OrderInv /\ TellInv)'
  BY NextTypes, NextOrder, NextTell
<1>4. Types /\ OrderInv /\ TellInv => runs = Given
  BY RunsAreGiven
<1>5. Types /\ OrderInv /\ TellInv /\ runs = Given /\ (runs = Given)' /\ [Next]_vars
        => [Promise!Next]_<<outcome, runs>>
  BY NextImplements
<1> QED BY <1>1, <1>2, <1>3, <1>4, <1>5, PTL DEF Spec, CallsKeepThePromise, Promise!Spec

\* Whatever its order with losses, retransmissions, deadlines and torn
\* sessions: a result means the guest was given the call, and a call refused
\* locally never ran there.
THEOREM CallersAreToldTheTruth == Spec => []Promise!Honest
<1> DEFINE Inv == Promise!CallsTypeOK /\ Promise!Honest
<1>1. Promise!Init => Inv
  BY DEF Promise!Init, Promise!CallsTypeOK, Promise!Outcomes, Promise!Honest
<1>2. Inv /\ [Promise!Next]_<<outcome, runs>> => Inv'
  <2> SUFFICES ASSUME Inv, [Promise!Next]_<<outcome, runs>> PROVE Inv'
    OBVIOUS
  <2>1. ASSUME NEW c \in Calls, Promise!Issue(c) PROVE Inv'
    BY <2>1 DEF Promise!Issue, Promise!CallsTypeOK, Promise!Outcomes, Promise!Honest
  <2>2. ASSUME NEW c \in Calls, Promise!Execute(c) PROVE Inv'
    BY <2>2 DEF Promise!Execute, Promise!CallsTypeOK, Promise!Outcomes, Promise!Honest
  <2>3. ASSUME NEW c \in Calls, Promise!Return(c) PROVE Inv'
    BY <2>3 DEF Promise!Return, Promise!CallsTypeOK, Promise!Outcomes, Promise!Honest
  <2>4. ASSUME NEW S \in SUBSET Calls, NEW how \in {"deadline", "cancelled", "unavailable"}, Promise!Fail(S, how)
        PROVE Inv'
    BY <2>4 DEF Promise!Fail, Promise!CallsTypeOK, Promise!Outcomes, Promise!Honest
  <2>5. CASE UNCHANGED <<outcome, runs>>
    BY <2>5 DEF Promise!CallsTypeOK, Promise!Honest
  <2> QED BY <2>1, <2>2, <2>3, <2>4, <2>5 DEF Promise!Next
<1>3. Inv => Promise!Honest
  OBVIOUS
<1> QED BY <1>1, <1>2, <1>3, CallsRefine, PTL DEF CallsKeepThePromise, Promise!Spec
=============================================================================
