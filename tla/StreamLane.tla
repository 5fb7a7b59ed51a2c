----------------------------- MODULE StreamLane -----------------------------
(***************************************************************************)
(* Terminals: the stream lane between the page's StreamMux and rpcd.       *)
(* Payload goes down ttyS1 (down); opened, credit and closed notifications *)
(* come up ttyS3 (up), and the two lines are not ordered against each      *)
(* other.  A stream lives in one session of the control link, and both     *)
(* ends drop every stream when the session changes, each at its own time.  *)
(*                                                                         *)
(* Bytes are counted, not named: a queued chunk is its length, and what    *)
(* one pump sends is one burst however many frames it takes.  Neither line *)
(* loses anything here, and the output of the guest is left out.           *)
(***************************************************************************)
EXTENDS Integers, Sequences, SequencesExt, FiniteSets, FiniteSetsExt

CONSTANTS
  MaxStream,         \* bound: streams opened in all
  MaxSession,        \* bound: sessions of the control link
  MAX_STREAMS,
  STREAM_WINDOW, MUX_LINK_WINDOW, CHANNEL_QUEUE_MAX,
  Pastes,            \* sizes of what is typed or pasted at once
  MaxTyped           \* bound: bytes typed in all

ASSUME StreamLaneAssumption ==
  /\ MaxStream \in Nat /\ MaxSession \in Nat /\ MAX_STREAMS \in Nat /\ MaxTyped \in Nat
  /\ STREAM_WINDOW \in Nat \ {0} /\ MUX_LINK_WINDOW \in Nat \ {0}
  /\ CHANNEL_QUEUE_MAX \in Nat
  /\ Pastes \subseteq Nat \ {0}

VARIABLES
  \* the page
  hello,         \* its session token: the number of hellos it has said
  windows,       \* terminal windows on the desktop
  channels,      \* StreamMux.channels
  linkInFlight,  \* StreamMux.linkInFlight
  typed,         \* history: bytes typed so far
  \* rpcd
  session,       \* the token of its session, 0 = none
  streams,       \* streams[]
  next_stream_id,
  \* the lines
  down, up

pageVars == <<hello, windows, channels, linkInFlight, typed>>
rpcdVars == <<session, streams, next_stream_id>>
vars == <<pageVars, rpcdVars, down, up>>

Ids       == 1 .. MaxStream
Absent    == [open |-> FALSE, window |-> 0, inFlight |-> 0, queue |-> <<>>]
Free      == [used |-> FALSE, to_pty |-> 0, credit_owed |-> 0]
Burst(id, n) == [id |-> id, bytes |-> n]
Note(kind, id, n) == [kind |-> kind, id |-> id, bytes |-> n, epoch |-> session]

Total(seq)   == FoldLeft(LAMBDA sum, n : sum + n, 0, seq)
Say(notes)   == up' = up \o notes
Used         == {id \in Ids : streams[id].used}

----------------------------------------------------------------------------
(* The page: StreamMux.                                                    *)

\* The queue without its first n bytes.
Without(queue, n) ==
  FoldLeft(LAMBDA acc, c :
             IF acc.left >= c THEN [acc EXCEPT !.left = @ - c]
             ELSE [left |-> 0, queue |-> Append(acc.queue, c - acc.left)],
           [left |-> n, queue |-> <<>>], queue).queue

\* pump: what the channel's window and the link allow, in write order; link
\* is what is in flight on it before.
Pump(id, ch, link) ==
  LET limits == {ch.window, MUX_LINK_WINDOW - link, Total(ch.queue)} IN
  \E n \in 0 .. ch.window :
    /\ n \in limits /\ \A m \in limits : n <= m
    /\ channels' = [channels EXCEPT ![id] =
         [ch EXCEPT !.window = @ - n, !.inFlight = @ + n, !.queue = Without(@, n)]]
    /\ linkInFlight' = link + n
    /\ down' = IF n = 0 THEN down ELSE Append(down, Burst(id, n))

\* The queue of a channel once its bound has dropped the oldest chunks.
Bounded(queue) ==
  LET kept(k) == SubSeq(queue, k + 1, Len(queue)) IN
  kept(Min({k \in 0 .. Len(queue) : Total(kept(k)) <= CHANNEL_QUEUE_MAX}))

\* send: a keystroke or a paste in a terminal.
Send(id, n) ==
  /\ channels[id].open
  /\ typed + n <= MaxTyped
  /\ typed' = typed + n
  /\ Pump(id, [channels[id] EXCEPT !.queue = Bounded(Append(@, n))], linkInFlight)
  /\ UNCHANGED <<hello, windows, rpcdVars, up>>

\* StreamMux.close: what was in flight will never be credited.
WithoutChannel(id) ==
  /\ channels' = [channels EXCEPT ![id] = Absent]
  /\ linkInFlight' = Max({0, linkInFlight - channels[id].inFlight})

\* TtyBody's effect: the window is on screen, its terminal takes the stream.
Mount(id) ==
  /\ id \in windows /\ ~channels[id].open
  /\ channels' = [channels EXCEPT ![id] = [Absent EXCEPT !.open = TRUE, !.window = STREAM_WINDOW]]
  /\ UNCHANGED <<hello, windows, linkInFlight, typed, rpcdVars, down, up>>

\* The person closes the window.  The app.stop or stream.close it sends ends
\* in HangUp, which needs no such reason.
CloseWindow(id) ==
  /\ id \in windows
  /\ windows' = windows \ {id}
  /\ WithoutChannel(id)
  /\ UNCHANGED <<hello, typed, rpcdVars, down, up>>

\* The page gives the session up, or attaches: a hello with a new token.
SayHello ==
  /\ hello < MaxSession
  /\ hello' = hello + 1
  /\ UNCHANGED <<windows, channels, linkInFlight, typed, rpcdVars, down, up>>

----------------------------------------------------------------------------
(* The page: notifications.  Those of another session are not its own.     *)

Hear(kind) ==
  /\ up # <<>> /\ Head(up).kind = kind /\ Head(up).epoch = hello
  /\ up' = Tail(up)

IgnoreNote ==
  /\ up # <<>> /\ Head(up).epoch # hello
  /\ up' = Tail(up)
  /\ UNCHANGED <<pageVars, rpcdVars, down>>

\* Mutant: the terminals of the session before stay.
OnSessionUpKeepingWindows ==
  /\ Hear("up")
  /\ UNCHANGED <<pageVars, rpcdVars, down>>

\* onSessionUp: every stream died with the session before.
OnSessionUp ==
  /\ Hear("up")
  /\ channels' = [id \in Ids |-> Absent] /\ linkInFlight' = 0
  /\ windows' = {}
  /\ UNCHANGED <<hello, typed, rpcdVars, down>>

\* stream.opened: a terminal window, unless the desktop has too many.
OnOpened ==
  /\ Hear("opened")
  /\ \/ windows' = windows \cup {Head(up).id}
     \/ UNCHANGED windows
  /\ UNCHANGED <<hello, channels, linkInFlight, typed, rpcdVars, down>>

\* stream.closed: channel and window go.
OnClosed ==
  /\ Hear("closed")
  /\ WithoutChannel(Head(up).id)
  /\ windows' = windows \ {Head(up).id}
  /\ UNCHANGED <<hello, typed, rpcdVars, down>>

\* stream.credit: window and link refill, and this channel is pumped.
OnCredit ==
  LET id == Head(up).id  ch == channels[id]  n == Head(up).bytes
      settled == Min({n, ch.inFlight}) IN
  /\ Hear("credit")
  /\ IF ~ch.open THEN UNCHANGED <<channels, linkInFlight, down>>
     ELSE Pump(id, [ch EXCEPT !.window = @ + n, !.inFlight = @ - settled],
               Max({0, linkInFlight - settled}))
  /\ UNCHANGED <<hello, windows, typed, rpcdVars>>

----------------------------------------------------------------------------
(* rpcd.                                                                   *)

\* handle_hello with a new token: streams_drop_all, nobody is told.
NewSession ==
  /\ \E token \in session + 1 .. hello : session' = token
  /\ streams' = [id \in Ids |-> Free]
  /\ up' = Append(up, [Note("up", 0, 0) EXCEPT !.epoch = session'])
  /\ UNCHANGED <<pageVars, next_stream_id, down>>

\* stream_open_local.
Open ==
  /\ session # 0 /\ next_stream_id <= MaxStream
  /\ Cardinality(Used) < MAX_STREAMS
  /\ next_stream_id' = next_stream_id + 1
  /\ streams' = [streams EXCEPT ![next_stream_id] = [Free EXCEPT !.used = TRUE]]
  /\ Say(<<Note("opened", next_stream_id, STREAM_WINDOW)>>)
  /\ UNCHANGED <<pageVars, session, down>>

\* stream_drop, the page told.
Drop(id) ==
  /\ streams' = [streams EXCEPT ![id] = Free]
  /\ Say(<<Note("closed", id, 0)>>)

\* The app hangs up, by itself or because it was stopped; or stream.close.
HangUp(id) ==
  /\ streams[id].used
  /\ Drop(id)
  /\ UNCHANGED <<pageVars, session, next_stream_id, down>>

\* stream_bytes_in.
BytesIn ==
  LET id == Head(down).id  n == Head(down).bytes IN
  /\ down # <<>>
  /\ down' = Tail(down)
  /\ IF ~streams[id].used THEN UNCHANGED <<streams, up>>
     ELSE IF streams[id].to_pty + n > 2 * STREAM_WINDOW THEN Drop(id)
     ELSE streams' = [streams EXCEPT ![id].to_pty = @ + n] /\ UNCHANGED up
  /\ UNCHANGED <<pageVars, session, next_stream_id>>

\* Mutant: what lands is never owed.
LandUncredited(id) ==
  /\ streams[id].to_pty > 0
  /\ streams' = [streams EXCEPT ![id].to_pty = 0]
  /\ UNCHANGED <<pageVars, session, next_stream_id, down, up>>

\* outq_flush into the PTY: as much as it takes is owed to the page.
Land(id) ==
  /\ streams[id].to_pty > 0
  /\ \E n \in 1 .. streams[id].to_pty :
       streams' = [streams EXCEPT ![id].to_pty = @ - n, ![id].credit_owed = @ + n]
  /\ UNCHANGED <<pageVars, session, next_stream_id, down, up>>

\* stream_flush_credits.
FlushCredits ==
  LET owing == {id \in Used : streams[id].credit_owed > 0} IN
  /\ owing # {}
  /\ \E order \in [1 .. Cardinality(owing) -> owing] :
       /\ \A i, j \in DOMAIN order : i < j => order[i] < order[j]
       /\ Say([j \in DOMAIN order |-> Note("credit", order[j], streams[order[j]].credit_owed)])
  /\ streams' = [id \in Ids |-> [streams[id] EXCEPT !.credit_owed = 0]]
  /\ UNCHANGED <<pageVars, session, next_stream_id, down>>

----------------------------------------------------------------------------
Init ==
  /\ hello = 0 /\ windows = {} /\ typed = 0
  /\ channels = [id \in Ids |-> Absent] /\ linkInFlight = 0
  /\ session = 0 /\ streams = [id \in Ids |-> Free] /\ next_stream_id = 1
  /\ down = <<>> /\ up = <<>>

PageHears == OnSessionUp \/ OnOpened \/ OnClosed \/ OnCredit \/ IgnoreNote

Next ==
  \/ SayHello \/ PageHears
  \/ NewSession \/ Open \/ BytesIn \/ FlushCredits
  \/ \E id \in Ids :
       \/ Mount(id) \/ CloseWindow(id) \/ HangUp(id) \/ Land(id)
       \/ \E n \in Pastes : Send(id, n)

Spec == Init /\ [][Next]_vars

\* Both lines deliver, apps read their terminals, and rpcd's loop runs.
FairSpec ==
  /\ Spec
  /\ WF_vars(PageHears) /\ WF_vars(BytesIn) /\ WF_vars(FlushCredits)
  /\ WF_vars(NewSession)
  /\ \A id \in Ids : WF_vars(Land(id))

----------------------------------------------------------------------------
\* The sum of a function of numbers, as the size of a set: f[x] members for each x.
Units(f) == UNION {{x} \X (1 .. f[x]) : x \in DOMAIN f}
Sum(f)   == Cardinality(Units(f))

\* Bytes for a terminal on a line, and credit for it on its way up to the page.
BytesTo(line, id) == Sum([j \in DOMAIN line |-> IF line[j].id = id THEN line[j].bytes ELSE 0])
CreditTo(notes, id, token) ==
  Sum([j \in DOMAIN notes |-> IF notes[j].kind = "credit" /\ notes[j].id = id /\ notes[j].epoch = token
                              THEN notes[j].bytes ELSE 0])

\* Every variable has its type, no channel queues more than its bound, and
\* the link never carries more than its own.
TypeOK ==
  /\ hello \in 0 .. MaxSession /\ session \in 0 .. MaxSession
  /\ windows \subseteq Ids /\ typed \in 0 .. MaxTyped
  /\ linkInFlight \in 0 .. MUX_LINK_WINDOW
  /\ next_stream_id \in 1 .. MaxStream + 1
  /\ \A id \in Ids :
       /\ channels[id].open \in BOOLEAN
       /\ channels[id].window \in 0 .. STREAM_WINDOW /\ channels[id].inFlight \in 0 .. STREAM_WINDOW
       /\ Total(channels[id].queue) <= CHANNEL_QUEUE_MAX
       /\ streams[id].used \in BOOLEAN
       /\ streams[id].to_pty \in Nat /\ streams[id].credit_owed \in Nat
  /\ \A j \in DOMAIN down : down[j] \in [id : Ids, bytes : Nat \ {0}]

\* A window's credit is conserved: while both ends have the stream, what the
\* page may still send and what is on its way, queued for the PTY, owed or on
\* its way back make up the window, so a terminal can neither wedge nor flood
\* (credit, pump, stream_flush_credits).
CreditConserved ==
  \A id \in Ids : channels[id].open /\ streams[id].used /\ session = hello =>
    /\ channels[id].window + channels[id].inFlight = STREAM_WINDOW
    /\ channels[id].inFlight = BytesTo(down, id) + streams[id].to_pty + streams[id].credit_owed
                              + CreditTo(up, id, hello)

\* The link's share is the sum of its channels': closed channels, closed
\* sessions and late credits leave nothing behind (close, closeAll, credit).
LinkExact == linkInFlight = Sum([id \in Ids |-> channels[id].inFlight])

\* rpcd never has a reason to close a stream for overrunning its window
\* (stream_bytes_in's guard).
NeverOverrun ==
  \A id \in Used : streams[id].to_pty + BytesTo(down, id) <= STREAM_WINDOW

\* Once the page has seen the session come up, a terminal window shows a
\* stream rpcd has, or hears soon that it was closed: no window is a corpse.
EveryWindowHasItsStream ==
  session = hello /\ ~(\E j \in DOMAIN up : up[j].kind = "up" /\ up[j].epoch = hello) =>
    \A id \in windows :
      streams[id].used \/ \E j \in DOMAIN up : up[j] = Note("closed", id, 0)

\* The three ledgers of a terminal's keystrokes, window, link and the bytes
\* rpcd holds, agree, and no window outlives its stream.
LanesExact == CreditConserved /\ LinkExact /\ NeverOverrun /\ EveryWindowHasItsStream

\* What was sent is credited back in the end, or the channel is gone.
InFlightSettles ==
  \A id \in Ids : []<>(channels[id].inFlight = 0)

\* A channel queues for credit only: with window left and room on the link,
\* nothing waits.
QueueWaitsForCredit ==
  \A id \in Ids : channels[id].queue # <<>> =>
    channels[id].window = 0 \/ linkInFlight = MUX_LINK_WINDOW
=============================================================================
