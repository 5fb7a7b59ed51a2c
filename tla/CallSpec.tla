------------------------------ MODULE CallSpec ------------------------------
(***************************************************************************)
(* What the control link promises a caller of RpcLink.call: the guest gets *)
(* the call at most once, the caller hears exactly one outcome, and it is  *)
(* the guest's word only if the guest got the call.  A call given up       *)
(* locally may still be executed later, once.                              *)
(***************************************************************************)
EXTENDS Naturals

CONSTANT Calls

VARIABLES outcome, runs   \* runs[c]: how often the guest was given call c

Init ==
  /\ outcome = [c \in Calls |-> "none"]
  /\ runs = [c \in Calls |-> 0]

Issue(c) ==
  /\ outcome[c] = "none"
  /\ \E o \in {"pending", "overloaded"} : outcome' = [outcome EXCEPT ![c] = o]
  /\ UNCHANGED runs

Execute(c) ==
  /\ runs[c] = 0
  /\ outcome[c] \notin {"none", "overloaded"}
  /\ runs' = [runs EXCEPT ![c] = 1]
  /\ UNCHANGED outcome

\* The guest's answer settles one call.
Return(c) ==
  /\ outcome[c] = "pending"
  /\ runs[c] = 1
  /\ outcome' = [outcome EXCEPT ![c] = "result"]
  /\ UNCHANGED runs

\* Deadline or abort settle one call, the end of a session all of them.
Fail(S, how) ==
  /\ \A c \in S : outcome[c] = "pending"
  /\ outcome' = [c \in Calls |-> IF c \in S THEN how ELSE outcome[c]]
  /\ UNCHANGED runs

Next ==
  \/ \E c \in Calls : Issue(c) \/ Execute(c) \/ Return(c)
  \/ \E S \in SUBSET Calls, how \in {"deadline", "cancelled", "unavailable"} : Fail(S, how)

Spec == Init /\ [][Next]_<<outcome, runs>>

\* What a caller may conclude: a result means the guest was given the call,
\* and an overloaded or unissued call was not (RpcLink.call, handle_frame).
Honest ==
  \A c \in Calls :
    /\ outcome[c] = "result" => runs[c] = 1
    /\ outcome[c] \in {"none", "overloaded"} => runs[c] = 0

----------------------------------------------------------------------------
Outcomes == {"none", "pending", "result", "deadline", "cancelled", "unavailable", "overloaded"}

CallsTypeOK ==
  /\ outcome \in [Calls -> Outcomes]
  /\ runs \in [Calls -> {0, 1}]
=============================================================================
