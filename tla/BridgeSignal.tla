---------------------------- MODULE BridgeSignal ----------------------------
(***************************************************************************)
(* A room's signalling channel of nostr-signal.ts: one subscription at     *)
(* several public relays, dropped and taken up again, one event delivered  *)
(* by many of them; and the host's answers to the offers it brings.        *)
(*                                                                         *)
(* A relay holds every event published to it and sends them again to each  *)
(* new subscription.  Opening an event awaits the room's key.              *)
(***************************************************************************)
EXTENDS Integers, FiniteSets

CONSTANTS
  Relays,   \* the relays of the list
  Offers    \* events of joiners: each an offer under a peer id of its own

VARIABLES
  dial,     \* openSignal: "connecting", "open", "failed"
  ws,       \* each relay's socket: "connecting", "open", "shut", "none"
  adopted,  \* relays whose socket is watched for its close
  sockets,  \* relays in the map of open sockets
  timers,   \* relays to be tried again
  closed,
  seen,     \* events met
  unsealing,\* events whose payload is being opened
  posted,   \* history: how often each event reached the listener
  links,    \* the host's links, by the offer that made them
  answers   \* history: answers published to each offer

net == <<dial, ws, adopted, sockets, timers, closed>>
mail == <<seen, unsealing, posted, links, answers>>
signalVars == <<net, mail>>

SignalInit ==
  /\ dial = "connecting" /\ ws = [r \in Relays |-> "connecting"]
  /\ adopted = {} /\ sockets = {} /\ timers = {} /\ closed = FALSE
  /\ seen = {} /\ unsealing = {} /\ posted = [e \in Offers |-> 0]
  /\ links = {} /\ answers = [e \in Offers |-> 0]

----------------------------------------------------------------------------
(* The relays.                                                             *)

\* connect: open, or given up after 8 s, or refused; at the opening of the
\* channel the answers wait for one another.
Connected(r) ==
  /\ dial = "connecting" /\ ws[r] = "connecting"
  /\ ws' = [ws EXCEPT ![r] = "open"]
  /\ UNCHANGED <<dial, adopted, sockets, timers, closed, mail>>

Unreachable(r) ==
  /\ dial = "connecting" /\ ws[r] = "connecting"
  /\ ws' = [ws EXCEPT ![r] = "none"]
  /\ UNCHANGED <<dial, adopted, sockets, timers, closed, mail>>

\* All have answered: adopt those that came, retry the others; with none of
\* them the channel is not opened.
AllAnswered ==
  LET up == {r \in Relays : ws[r] # "none"} IN
  /\ dial = "connecting" /\ \A r \in Relays : ws[r] # "connecting"
  /\ dial' = IF up = {} THEN "failed" ELSE "open"
  /\ closed' = (up = {})
  /\ adopted' = up /\ sockets' = up
  /\ timers' = IF up = {} THEN {} ELSE Relays \ up
  /\ UNCHANGED <<ws, mail>>

\* A relay drops its socket.  Only an adopted one is seen to close.
RelayDrops(r) ==
  /\ ws[r] = "open"
  /\ IF r \in adopted
     THEN /\ ws' = [ws EXCEPT ![r] = "none"] /\ adopted' = adopted \ {r}
          /\ sockets' = sockets \ {r}
          /\ timers' = IF closed THEN timers ELSE timers \cup {r}
     ELSE ws' = [ws EXCEPT ![r] = "shut"] /\ UNCHANGED <<adopted, sockets, timers>>
  /\ UNCHANGED <<dial, closed, mail>>

\* The delay of retry is over.
Retry(r) ==
  /\ r \in timers /\ ~closed
  /\ timers' = timers \ {r} /\ ws' = [ws EXCEPT ![r] = "connecting"]
  /\ UNCHANGED <<dial, adopted, sockets, closed, mail>>

\* The relay is there again; a channel closed meanwhile closes the socket.
Retried(r) ==
  /\ dial # "connecting" /\ ws[r] = "connecting"
  /\ IF closed THEN ws' = [ws EXCEPT ![r] = "none"] /\ UNCHANGED <<adopted, sockets>>
     ELSE ws' = [ws EXCEPT ![r] = "open"] /\ adopted' = adopted \cup {r} /\ sockets' = sockets \cup {r}
  /\ UNCHANGED <<dial, timers, closed, mail>>

\* Mutant: a relay that cannot be reached again is given up.
RetryGivesUp(r) ==
  /\ dial # "connecting" /\ ws[r] = "connecting"
  /\ ws' = [ws EXCEPT ![r] = "none"]
  /\ UNCHANGED <<dial, adopted, sockets, timers, closed, mail>>

RetryFails(r) ==
  /\ dial # "connecting" /\ ws[r] = "connecting"
  /\ ws' = [ws EXCEPT ![r] = "none"]
  /\ timers' = IF closed THEN timers ELSE timers \cup {r}
  /\ UNCHANGED <<dial, adopted, sockets, closed, mail>>

\* close().
CloseSignal ==
  /\ dial = "open" /\ ~closed /\ closed' = TRUE
  /\ timers' = {} /\ sockets' = {}
  /\ ws' = [r \in Relays |-> IF r \in sockets THEN "none" ELSE ws[r]]
  /\ adopted' = adopted \ sockets /\ links' = {}
  /\ UNCHANGED <<dial, seen, unsealing, posted, answers>>

----------------------------------------------------------------------------
(* Events.                                                                 *)

\* handleEvent, to its await: one relay's copy of an event, its first or not.
\* A socket hears events from its first moment, adopted or not.
Deliver(r, e) ==
  /\ ws[r] = "open" /\ ~closed /\ e \notin seen
  /\ seen' = seen \cup {e} /\ unsealing' = unsealing \cup {e}
  /\ UNCHANGED <<net, posted, links, answers>>

\* The payload is open: the listener is told, channel closed or not, and the
\* host accepts the offer of a peer it does not know.  There is no listener
\* before the channel is open.
Unsealed(e) ==
  /\ e \in unsealing /\ unsealing' = unsealing \ {e}
  /\ IF dial = "open" THEN posted' = [posted EXCEPT ![e] = @ + 1] /\ links' = links \cup {e}
     ELSE UNCHANGED <<posted, links>>
  /\ UNCHANGED <<net, seen, answers>>

\* The answer is gathered, and published while the channel is there.
AnswerOffer(e) ==
  /\ e \in links /\ answers[e] < posted[e] /\ sockets # {}
  /\ answers' = [answers EXCEPT ![e] = @ + 1]
  /\ UNCHANGED <<net, seen, unsealing, posted, links>>

SignalNext ==
  \/ \E r \in Relays :
       \/ Connected(r) \/ Unreachable(r) \/ RelayDrops(r) \/ Retry(r) \/ Retried(r) \/ RetryFails(r)
       \/ \E e \in Offers : Deliver(r, e)
  \/ AllAnswered \/ CloseSignal
  \/ \E e \in Offers : Unsealed(e) \/ AnswerOffer(e)

\* A connect ends in 8 s; timers fire; the key opens a payload.
SignalFairness ==
  /\ WF_signalVars(AllAnswered)
  /\ \A r \in Relays :
       /\ WF_signalVars(Connected(r) \/ Unreachable(r))
       /\ WF_signalVars(Retried(r) \/ RetryFails(r))
       /\ WF_signalVars(Retry(r))

SignalSpec == SignalInit /\ [][SignalNext]_signalVars /\ SignalFairness

----------------------------------------------------------------------------
\* A joiner's offer is acted on once, however many relays bring it and however
\* often a subscription is taken up again.
OffersOnce == \A e \in Offers : posted[e] <= 1 /\ answers[e] <= 1

\* "Reconnect with backoff and re-subscribe": an open channel is subscribed at
\* each of its relays, about to try, or trying, and one of these only; but for
\* a relay that dropped its socket before the slowest of them had answered.
NoRelayForgotten ==
  dial = "open" /\ ~closed =>
      \A r \in Relays :
        \/ r \in sockets /\ r \notin timers /\ ws[r] = "open"
        \/ r \in timers /\ r \notin sockets /\ ws[r] = "none"
        \/ ws[r] = "connecting" /\ r \notin sockets /\ r \notin timers
        \/ ws[r] = "shut" /\ r \in sockets /\ r \notin timers

\* A channel that is closed has no socket but those that still connect.
ClosedHoldsNothing == closed => sockets = {} /\ timers = {} /\ \A r \in Relays : ws[r] \in {"none", "connecting"}

\* What nostr-signal.ts says of a channel, whenever its relays come and go.
SignalTrue == OffersOnce /\ NoRelayForgotten /\ ClosedHoldsNothing
=============================================================================
