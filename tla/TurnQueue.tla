------------------------------ MODULE TurnQueue ------------------------------
(***************************************************************************)
(* One session of the agent's engine: the turn that runs, the messages      *)
(* parked behind it, and the ones steered into it.  Every call of the page  *)
(* is served in one piece; a turn ends answered, stopped or failed, and the *)
(* same piece of code drains the queue into the next turn.                  *)
(***************************************************************************)
EXTENDS Integers, SequencesExt

CONSTANTS
  Messages,  \* 1 .. n, in the order they are typed
  MaxSteer   \* bound: messages steered and not yet seen by the loop

\* What the constants are taken to be.
QueueAssumption == Messages \subseteq Nat /\ MaxSteer \in Nat

VARIABLES
  turn,      \* the messages of the turn that runs; <<>> when none does
  stopping,  \* its cancel flag
  queue,     \* parked messages
  steers,    \* steered, not yet injected
  typed,     \* history: messages accepted
  answered,  \* history: messages a turn took up, in order
  dropped,   \* history: messages given up
  told,      \* history: messages that waited when the person said stop
  handed     \* history: messages the last failed turn handed back, none promoted since

turnsVars == <<turn, stopping, queue, steers, typed, answered, dropped, told, handed>>

turnRuns == turn # <<>>

TurnsInit ==
  /\ turn = <<>> /\ stopping = FALSE /\ queue = <<>> /\ steers = <<>>
  /\ typed = {} /\ answered = <<>> /\ dropped = {} /\ told = {} /\ handed = {}

\* The next message the person types.
Fresh(m) == m \in Messages \ typed /\ \A n \in Messages \ typed : m <= n

----------------------------------------------------------------------------
(* start_turn: an idle session starts; a busy one parks, or refuses.       *)

Begin(m) == turn' = <<m>> /\ stopping' = FALSE /\ answered' = Append(answered, m)

StartTurn(m) ==
  /\ Fresh(m) /\ ~turnRuns
  /\ Begin(m) /\ typed' = typed \cup {m}
  /\ UNCHANGED <<queue, steers, dropped, told, handed>>

Park(m) ==
  /\ Fresh(m) /\ turnRuns
  /\ queue' = Append(queue, m) /\ typed' = typed \cup {m}
  /\ UNCHANGED <<turn, stopping, steers, answered, dropped, told, handed>>

\* An interrupt winds the turn down and goes first.
Interrupt(m) ==
  /\ Fresh(m) /\ turnRuns
  /\ stopping' = TRUE /\ queue' = <<m>> \o queue /\ typed' = typed \cup {m}
  /\ UNCHANGED <<turn, steers, answered, dropped, told, handed>>

Steer(m) ==
  /\ Fresh(m) /\ turnRuns /\ Len(steers) < MaxSteer
  /\ steers' = Append(steers, m) /\ typed' = typed \cup {m}
  /\ UNCHANGED <<turn, stopping, queue, answered, dropped, told, handed>>

Cancel ==
  /\ queue' = <<>> /\ dropped' = dropped \cup Range(queue)
  /\ stopping' = turnRuns
  /\ told' = told \cup Range(queue) \cup Range(steers)
  /\ UNCHANGED <<turn, steers, typed, answered, handed>>

\* The queue without m, whose number no other has.
Without(q, m) == RemoveAt(q, CHOOSE i \in DOMAIN q : q[i] = m)

QueueRemove(m) ==
  /\ m \in Range(queue)
  /\ queue' = Without(queue, m) /\ dropped' = dropped \cup {m}
  /\ UNCHANGED <<turn, stopping, steers, typed, answered, told, handed>>

\* To the front, and the turn winds down.
QueuePromote(m) ==
  /\ m \in Range(queue)
  /\ queue' = <<m>> \o Without(queue, m)
  /\ stopping' = turnRuns /\ handed' = {}
  /\ UNCHANGED <<turn, steers, typed, answered, dropped, told>>

----------------------------------------------------------------------------
(* run_turn.                                                               *)

\* drain_steers: at a round's boundary the loop takes up what was steered.
Inject ==
  /\ turnRuns /\ ~stopping /\ steers # <<>>
  /\ turn' = turn \o steers /\ answered' = answered \o steers /\ steers' = <<>>
  /\ UNCHANGED <<stopping, queue, typed, dropped, told, handed>>

\* The turn is over and the first of q starts the next.
Drain(q) ==
  /\ queue' = IF q = <<>> THEN <<>> ELSE Tail(q)
  /\ IF q = <<>> THEN turn' = <<>> /\ stopping' = FALSE /\ UNCHANGED answered ELSE Begin(Head(q))
  /\ steers' = <<>> /\ UNCHANGED <<typed, told>>

\* A final answer; a steer that raced it is injected first.
Finish == turnRuns /\ ~stopping /\ steers = <<>> /\ Drain(queue) /\ UNCHANGED <<dropped, handed>>

\* A stopped turn gives up what was steered into it.
Stopped == turnRuns /\ stopping /\ Drain(queue) /\ dropped' = dropped \cup Range(steers) /\ UNCHANGED handed

\* Mutant: a failed turn forgets what was steered into it.
FailForgets == turnRuns /\ ~stopping /\ Drain(queue) /\ UNCHANGED <<dropped, handed>>

\* A failed one hands it back, each to the front.
Fail ==
  /\ turnRuns /\ ~stopping
  /\ Drain(Reverse(steers) \o queue) /\ handed' = Range(steers) /\ UNCHANGED dropped

TurnsNext ==
  \/ \E m \in Messages : StartTurn(m) \/ Park(m) \/ Interrupt(m) \/ Steer(m) \/ QueueRemove(m) \/ QueuePromote(m)
  \/ Cancel \/ Inject \/ Finish \/ Stopped \/ Fail

TurnsSpec == TurnsInit /\ [][TurnsNext]_turnsVars

----------------------------------------------------------------------------
\* The messages that are not given up.
Accepted == queue \o steers \o answered

\* A message the engine accepted is in one place and in one place only, and there
\* once: parked, steered, taken up by a turn, or given up; none is swallowed between
\* the places and none answered twice, whatever ends the turns.
EachOnce ==
  /\ IsInjective(Accepted)
  /\ Range(Accepted) \cap dropped = {} /\ Range(Accepted) \cup dropped = typed

\* Stop means stop: nothing that waited when the person said so runs after it.
StopMeansStop == Range(answered) \cap told = {}

\* Steered messages a failed turn hands back run in the order they were typed.
TypedOrder ==
  \A m, n \in handed : m < n /\ n \in Range(answered) => m \in Range(answered) \cup dropped
=============================================================================
