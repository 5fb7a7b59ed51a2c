------------------------------- MODULE MCLive -------------------------------
(* What must come about on the line, in one of three parts: the control    *)
(* link comes up and settles its calls, and rpcd's listeners hear of what   *)
(* they missed, with and without other traffic.                             *)
EXTENDS ControlLink, RpcdEvents

VARIABLE part

LiveInit == part \in {"link", "events", "quiet"} /\ Init /\ EventsInit

LiveNext ==
  /\ UNCHANGED part
  /\ \/ part = "link" /\ Next /\ UNCHANGED eventVars
     \/ part = "events" /\ EventsNext /\ UNCHANGED vars
     \/ part = "quiet" /\ QuietNext /\ UNCHANGED vars

\* The link's fairness asks nothing of an idle link.  A listener to which
\* rpcd has nothing else to say reads on, and the main loop ticks after every
\* poll.
LiveSpec ==
  /\ LiveInit /\ [][LiveNext]_<<part, vars, eventVars>> /\ Fairness
  /\ \A l \in Clients \cup {Page} :
       /\ WF_eventVars(part = "quiet" /\ Tick(l))
       /\ WF_eventVars(part = "quiet" /\ Read(l))

\* See RpcdEvents.
GapIsTold == \A l \in Listeners : []<>(part = "quiet" => Informed(l))
=============================================================================
