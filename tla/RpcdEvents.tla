----------------------------- MODULE RpcdEvents -----------------------------
(***************************************************************************)
(* Events in rpcd: rpc.emit fans out to every listener that watches, each  *)
(* behind a bound of EV_BACKLOG_MAX; past it events are folded into one    *)
(* rpc.gap, sent once the listener's queue has run dry.                    *)
(*                                                                         *)
(* Listeners are the slots of socket clients and the page.  A queued item  *)
(* is an event (with its number among those the listener should see), a   *)
(* gap, or a line that is no event: a call, a reply or, for the page, a    *)
(* leftover of an earlier session, which the page ignores.  topic_matches  *)
(* is abstracted to whether a listener watches what is emitted.            *)
(***************************************************************************)
EXTENDS Integers, Sequences, FiniteSets

CONSTANTS
  Clients,         \* slots of socket clients
  Page,            \* the page as a listener
  EV_BACKLOG_MAX,
  MaxEmit,         \* bound: events a listener should see in one life
  MaxLines         \* bound: other lines in a queue

ASSUME RpcdEventsAssumption ==
  /\ Page \notin Clients
  /\ EV_BACKLOG_MAX \in Nat \ {0} /\ MaxEmit \in Nat /\ MaxLines \in Nat

VARIABLES
  live,     \* clients[s].fd >= 0, or S.active
  watch,    \* it watches what is emitted
  out,      \* its queue
  backlog, dropped,  \* ev_backlog, ev_dropped
  emitted,  \* history: events it should have seen in this life
  known     \* history: those it has seen or been told it missed

eventVars == <<live, watch, out, backlog, dropped, emitted, known>>

Listeners == Clients \cup {Page}
Event(n)  == [kind |-> "event", n |-> n]
Gap(k)    == [kind |-> "gap", n |-> k]
Line      == [kind |-> "line", n |-> 0]

Lines(q)  == Cardinality({j \in DOMAIN q : q[j].kind = "line"})
Weight(x) == CASE x.kind = "event" -> 1 [] x.kind = "gap" -> x.n [] OTHER -> 0

----------------------------------------------------------------------------
\* Mutant: a new session inherits the ledger of the old one.
FreshKeepingDrops(l) ==
  /\ live' = [live EXCEPT ![l] = TRUE]
  /\ watch' = [watch EXCEPT ![l] = FALSE]
  /\ backlog' = [backlog EXCEPT ![l] = 0] /\ UNCHANGED dropped
  /\ emitted' = [emitted EXCEPT ![l] = 0] /\ known' = [known EXCEPT ![l] = 0]

\* The ledger of a new client (accept) or session (handle_hello): blank.
Fresh(l) ==
  /\ live' = [live EXCEPT ![l] = TRUE]
  /\ watch' = [watch EXCEPT ![l] = FALSE]
  /\ backlog' = [backlog EXCEPT ![l] = 0] /\ dropped' = [dropped EXCEPT ![l] = 0]
  /\ emitted' = [emitted EXCEPT ![l] = 0] /\ known' = [known EXCEPT ![l] = 0]

\* accept.
Join(c) ==
  /\ ~live[c]
  /\ Fresh(c)
  /\ UNCHANGED out

\* drop_client.
Leave(c) ==
  /\ live[c]
  /\ live' = [live EXCEPT ![c] = FALSE] /\ watch' = [watch EXCEPT ![c] = FALSE]
  /\ out' = [out EXCEPT ![c] = <<>>]
  /\ UNCHANGED <<backlog, dropped, emitted, known>>

\* What is queued for the page when its session ends is still sent.
Stale(q) == [j \in DOMAIN q |-> Line]

\* session_down.
PageDown ==
  /\ live[Page]
  /\ live' = [live EXCEPT ![Page] = FALSE]
  /\ out' = [out EXCEPT ![Page] = Stale(@)]
  /\ UNCHANGED <<watch, backlog, dropped, emitted, known>>

\* handle_hello: the reply is the first line of the session.
PageAnew ==
  /\ Lines(Stale(out[Page])) < MaxLines
  /\ Fresh(Page)
  /\ out' = [out EXCEPT ![Page] = Append(Stale(@), Line)]

\* route_watch: a subscription replaces the one before; the ledger stays.
RouteWatch(l) ==
  /\ live[l]
  /\ \E on \in BOOLEAN : watch' = [watch EXCEPT ![l] = on]
  /\ UNCHANGED <<live, out, backlog, dropped, emitted, known>>

Hears(l) == live[l] /\ watch[l]

\* Mutant: whoever's queue is dry gets the event, folded ones or not.
DeliverIfDry ==
  LET fits(l) == backlog[l] < EV_BACKLOG_MAX \/ out[l] = <<>> IN
  /\ out' = [l \in Listeners |-> IF Hears(l) /\ fits(l)
                                 THEN Append(out[l], Event(emitted[l] + 1)) ELSE out[l]]
  /\ backlog' = [l \in Listeners |-> IF Hears(l) /\ fits(l) THEN backlog[l] + 1 ELSE backlog[l]]
  /\ dropped' = [l \in Listeners |-> IF Hears(l) /\ ~fits(l) THEN dropped[l] + 1 ELSE dropped[l]]

\* event_deliver, for every listener that watches the topic.
Deliver ==
  LET fits(l) == backlog[l] < EV_BACKLOG_MAX IN
  /\ out' = [l \in Listeners |-> IF Hears(l) /\ fits(l)
                                 THEN Append(out[l], Event(emitted[l] + 1)) ELSE out[l]]
  /\ backlog' = [l \in Listeners |-> IF Hears(l) /\ fits(l) THEN backlog[l] + 1 ELSE backlog[l]]
  /\ dropped' = [l \in Listeners |-> IF Hears(l) /\ ~fits(l) THEN dropped[l] + 1 ELSE dropped[l]]

\* route_emit.
Emit ==
  /\ \A l \in Listeners : Hears(l) => emitted[l] < MaxEmit
  /\ Deliver
  /\ emitted' = [l \in Listeners |-> IF Hears(l) THEN emitted[l] + 1 ELSE emitted[l]]
  /\ UNCHANGED <<live, watch, known>>

\* Any other line rpcd writes to it.
SayLine(l) ==
  /\ live[l] /\ Lines(out[l]) < MaxLines
  /\ out' = [out EXCEPT ![l] = Append(@, Line)]
  /\ UNCHANGED <<live, watch, backlog, dropped, emitted, known>>

\* Mutant: the ledger is cleared without a word.
TickSilently(l) ==
  /\ live[l] /\ out[l] = <<>>
  /\ dropped[l] = 0
  /\ backlog' = [backlog EXCEPT ![l] = 0]
  /\ UNCHANGED <<live, watch, out, dropped, emitted, known>>

\* events_tick, once the queue of a listener is dry.
Tick(l) ==
  /\ live[l] /\ out[l] = <<>>
  /\ IF dropped[l] > 0
     THEN /\ out' = [out EXCEPT ![l] = <<Gap(dropped[l])>>]
          /\ dropped' = [dropped EXCEPT ![l] = 0]
          /\ backlog' = [backlog EXCEPT ![l] = 1]
     ELSE backlog' = [backlog EXCEPT ![l] = 0] /\ UNCHANGED <<out, dropped>>
  /\ UNCHANGED <<live, watch, emitted, known>>

\* The listener reads the next item; it is outq_flush's and the peer's step.
Read(l) ==
  /\ out[l] # <<>>
  /\ out' = [out EXCEPT ![l] = Tail(@)]
  /\ known' = [known EXCEPT ![l] = @ + Weight(Head(out[l]))]
  /\ UNCHANGED <<live, watch, backlog, dropped, emitted>>

----------------------------------------------------------------------------
EventsInit ==
  /\ live = [l \in Listeners |-> FALSE] /\ watch = live
  /\ out = [l \in Listeners |-> <<>>]
  /\ backlog = [l \in Listeners |-> 0] /\ dropped = backlog
  /\ emitted = backlog /\ known = backlog

QuietNext ==
  \/ PageDown \/ PageAnew \/ Emit
  \/ \E c \in Clients : Join(c) \/ Leave(c)
  \/ \E l \in Listeners : RouteWatch(l) \/ Tick(l) \/ Read(l)

EventsNext == QuietNext \/ \E l \in Listeners : SayLine(l)

EventsSpec == EventsInit /\ [][EventsNext]_eventVars

\* A listener that keeps reading, and to which rpcd has nothing else to say;
\* the main loop ticks after every poll.
EventsFairSpec == EventsInit /\ [][QuietNext]_eventVars /\ \A l \in Listeners : WF_eventVars(Tick(l)) /\ WF_eventVars(Read(l))

----------------------------------------------------------------------------
\* Every variable has its type.
EventsTypeOK ==
  /\ live \in [Listeners -> BOOLEAN] /\ watch \in [Listeners -> BOOLEAN]
  /\ \A l \in Listeners : \A j \in DOMAIN out[l] :
       out[l][j] \in [kind : {"event", "gap", "line"}, n : 0 .. MaxEmit]
  /\ backlog \in [Listeners -> 0 .. EV_BACKLOG_MAX]
  /\ dropped \in [Listeners -> 0 .. MaxEmit]
  /\ emitted \in [Listeners -> 0 .. MaxEmit] /\ known \in [Listeners -> 0 .. MaxEmit]

\* What item j of a queue tells a listener that knows of k events: of one, or
\* of as many as its gap folded.
Tells(q, j, k, n) ==
  \/ q[j].kind = "event" /\ q[j].n = n
  \/ q[j].kind = "gap" /\ n \in k + 1 .. k + q[j].n

\* Nothing a listener should see vanishes or is told twice: it has been seen,
\* is told of by one item of the queue, or is still counted as folded
\* (event_deliver, events_tick, and the resets of accept and handle_hello).
EveryEventAccounted ==
  \A l \in Listeners : live[l] =>
    /\ dropped[l] \in 0 .. emitted[l] - known[l]
    /\ \A n \in known[l] + 1 .. emitted[l] : \A i, j \in DOMAIN out[l] :
         Tells(out[l], i, known[l], n) /\ Tells(out[l], j, known[l], n) => i = j
    /\ \A n \in known[l] + 1 .. emitted[l] - dropped[l] :
         \E j \in DOMAIN out[l] : Tells(out[l], j, known[l], n)

\* A gap comes where the events are missing: whoever counts what it sees and
\* what it is told it missed knows the number of the next event, so nothing
\* newer overtakes the gap.
NoEventOvertakesItsGap ==
  \A l \in Listeners : live[l] /\ out[l] # <<>> /\ Head(out[l]).kind = "event" =>
    Head(out[l]).n = known[l] + 1

\* A listener that does not read costs at most EV_BACKLOG_MAX items.
SlowListenerBounded ==
  \A l \in Listeners : Cardinality({j \in DOMAIN out[l] : out[l][j].kind # "line"}) <= EV_BACKLOG_MAX

\* A listener's ledger: nothing vanishes, nothing overtakes its gap, and
\* whoever does not read costs no more than its bound.
EventsTold == EveryEventAccounted /\ NoEventOvertakesItsGap /\ SlowListenerBounded

\* Whoever misses events hears of it, if it stays and reads.
Informed(l) == dropped[l] = 0 \/ ~live[l]
GapTold == \A l \in Listeners : []<>Informed(l)
=============================================================================
