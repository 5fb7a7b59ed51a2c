------------------------------ MODULE ToolFollow ------------------------------
(***************************************************************************)
(* The engine's toolbox in step with the machine's power: followPower of    *)
(* runtime/src/index.ts, and mount, which waits for it.  Each power event    *)
(* queues an install or a removal behind the one before; the engine answers  *)
(* when it likes, and the power may flip faster than it answers.            *)
(***************************************************************************)
EXTENDS Naturals, Sequences

CONSTANTS
  MaxFlip,  \* bound: power events
  Fails     \* TRUE: the engine may refuse a call

\* What the constants are taken to be.
ToolFollowAssumption == MaxFlip \in Nat /\ Fails \in BOOLEAN

VARIABLES
  power,      \* the machine is up: the last event said so
  flips,      \* bound: events so far
  links,      \* followPower: the events whose links wait for the promise before theirs
  poisoned,   \* followPower: the promise is rejected, what waits never runs
  stage,      \* the link that runs: the call it awaits, "idle" for none
  installed, briefed,  \* followPower: what it believes
  toolbox, briefing,   \* the engine: the machine's tools; which text the model reads
  mounted     \* mount has rendered the page

followVars == <<power, flips, links, poisoned, stage, installed, briefed, toolbox, briefing, mounted>>
engine == <<toolbox, briefing>>
belief == <<installed, briefed>>

\* mount subscribes, and the listener hears the power there is.
FollowInit ==
  /\ power \in BOOLEAN /\ flips = 1 /\ links = <<power>>
  /\ poisoned = FALSE /\ stage = "idle" /\ installed = FALSE /\ briefed = FALSE
  /\ toolbox = FALSE /\ briefing = "none" /\ mounted = FALSE

----------------------------------------------------------------------------
\* The power turns; the listener queues a link.
Flip ==
  /\ flips < MaxFlip /\ flips' = flips + 1
  /\ power' = ~power /\ links' = Append(links, ~power)
  /\ UNCHANGED <<poisoned, stage, belief, engine, mounted>>

\* The machine said again what it said before: booting, then ready.
Again ==
  /\ flips < MaxFlip /\ flips' = flips + 1 /\ links' = Append(links, power)
  /\ UNCHANGED <<power, poisoned, stage, belief, engine, mounted>>

\* Mutant: a machine that comes up leaves the note that it is down.
LinkKeepsNote ==
  /\ stage = "idle" /\ links # <<>> /\ ~poisoned
  /\ links' = Tail(links)
  /\ IF Head(links)
     THEN IF installed THEN UNCHANGED <<stage, belief>>
          ELSE stage' = "install" /\ installed' = TRUE /\ UNCHANGED briefed
     ELSE IF briefed THEN UNCHANGED <<stage, belief>>
          ELSE IF installed THEN stage' = "uninstall" /\ installed' = FALSE /\ UNCHANGED briefed
          ELSE stage' = "brief" /\ briefed' = TRUE /\ UNCHANGED installed
  /\ UNCHANGED <<power, flips, poisoned, engine, mounted>>

\* The next link starts: it tells itself what it will have done, then calls.
Link ==
  /\ stage = "idle" /\ links # <<>> /\ ~poisoned
  /\ links' = Tail(links)
  /\ IF Head(links)
     THEN IF installed THEN UNCHANGED <<stage, belief>>
          ELSE stage' = "install" /\ installed' = TRUE /\ briefed' = FALSE
     ELSE IF briefed THEN UNCHANGED <<stage, belief>>
          ELSE IF installed THEN stage' = "uninstall" /\ installed' = FALSE /\ UNCHANGED briefed
          ELSE stage' = "brief" /\ briefed' = TRUE /\ UNCHANGED installed
  /\ UNCHANGED <<power, flips, poisoned, engine, mounted>>

\* The engine's answers.
Install ==
  /\ stage = "install" /\ stage' = "idle"
  /\ toolbox' = TRUE /\ briefing' = "machine"
  /\ UNCHANGED <<power, flips, links, poisoned, belief, mounted>>

Uninstall ==
  /\ stage = "uninstall" /\ stage' = "brief" /\ briefed' = TRUE
  /\ toolbox' = FALSE /\ briefing' = "none"
  /\ UNCHANGED <<power, flips, links, poisoned, installed, mounted>>

Brief ==
  /\ stage = "brief" /\ stage' = "idle" /\ briefing' = "no machine"
  /\ UNCHANGED <<power, flips, links, poisoned, belief, toolbox, mounted>>

\* The engine refuses, or the worker dies: the promise is rejected for good.
Refuse ==
  /\ Fails /\ stage # "idle" /\ stage' = "idle" /\ poisoned' = TRUE
  /\ UNCHANGED <<power, flips, links, belief, engine, mounted>>

\* mount goes on once the link of its first event is done, and renders.
Mount ==
  /\ ~mounted /\ mounted' = TRUE
  /\ Len(links) + (IF stage = "idle" THEN 0 ELSE 1) < flips
  /\ UNCHANGED <<power, flips, links, poisoned, stage, belief, engine>>

FollowNext == Flip \/ Again \/ Link \/ Install \/ Uninstall \/ Brief \/ Refuse \/ Mount

FollowFairness == WF_followVars(Link) /\ WF_followVars(Install) /\ WF_followVars(Uninstall) /\ WF_followVars(Brief)

FollowSpec == FollowInit /\ [][FollowNext]_followVars /\ FollowFairness

----------------------------------------------------------------------------
Settled == links = <<>> /\ stage = "idle"

\* "The registry must end in the state of the LAST event, not of the last reply
\* to land": when nothing is under way the engine has the machine's tools and
\* its text exactly while the machine is up, whatever order it flipped in; and a
\* page on show has an engine that was told, but for the swap of the texts.
LastEventWins ==
  /\ Settled => (toolbox <=> power) /\ (briefing = "machine" <=> power)
  /\ mounted => briefing # "none" \/ stage = "brief"
=============================================================================
