------------------------------ MODULE HostFetch ------------------------------
(***************************************************************************)
(* A fetch the guest asks of the page: its body read from a staged file,    *)
(* the transfer raced by a timer and by rpc.cancel and capped, the answer   *)
(* inline or in a file of the session's own directory.                      *)
(***************************************************************************)
EXTENDS Integers

CONSTANTS
  Calls,
  Cap,      \* bytes of a body the page will carry
  Inline,   \* bytes that fit the answer
  MaxBody   \* bound: bytes of a body

\* What the constants are taken to be.
FetchAssumption == {Cap, Inline, MaxBody} \subseteq Nat /\ Inline <= Cap

VARIABLES
  fetching, \* "idle", "reading", "fetching", "read", "writing", "over"
  staged,   \* the request's file: "none", "whole", "short" (not the size declared), "gone"
  size,     \* the bytes the server has for it
  got, cut, \* the bytes taken, and whether they are said to be cut
  rung,     \* its timer fired
  ended,    \* rpc.cancel came
  answer,   \* what the guest hears
  reply     \* the answer's file is there

fetchVars == <<fetching, staged, size, got, cut, rung, ended, answer, reply>>
transfer == <<size, got, cut>>
race == <<rung, ended>>

FetchInit ==
  /\ fetching = [c \in Calls |-> "idle"] /\ staged = [c \in Calls |-> "none"]
  /\ size = [c \in Calls |-> 0] /\ got = [c \in Calls |-> 0] /\ cut = [c \in Calls |-> FALSE]
  /\ rung = [c \in Calls |-> FALSE] /\ ended = [c \in Calls |-> FALSE]
  /\ answer = [c \in Calls |-> "none"] /\ reply = [c \in Calls |-> FALSE]

FetchGoto(c, phase) == fetching' = [fetching EXCEPT ![c] = phase]
AnswerFetch(c, what) == FetchGoto(c, "over") /\ answer' = [answer EXCEPT ![c] = what]

\* http.fetch arrives, its body inline or in a file the caller staged.
Arrive(c, with, body) ==
  /\ fetching[c] = "idle"
  /\ FetchGoto(c, IF with = "none" THEN "fetching" ELSE "reading")
  /\ staged' = [staged EXCEPT ![c] = with] /\ size' = [size EXCEPT ![c] = body]
  /\ UNCHANGED <<got, cut, race, answer, reply>>

\* readRef: the file as declared, or a refusal.
ReadRef(c) ==
  /\ fetching[c] = "reading"
  /\ IF staged[c] = "whole" THEN FetchGoto(c, "fetching") /\ UNCHANGED answer ELSE AnswerFetch(c, "invalid")
  /\ UNCHANGED <<staged, transfer, race, reply>>

Aborted(c) == rung[c] \/ ended[c]

\* A chunk; one past the cap is cut there and the transfer dropped.  It may
\* have been delivered before an abort took hold.
Chunk(c, n) ==
  /\ fetching[c] = "fetching" /\ n <= size[c] - got[c]
  /\ IF got[c] + n > Cap
     THEN got' = [got EXCEPT ![c] = Cap] /\ cut' = [cut EXCEPT ![c] = TRUE] /\ FetchGoto(c, "read")
     ELSE got' = [got EXCEPT ![c] = @ + n] /\ UNCHANGED <<cut, fetching>>
  /\ UNCHANGED <<staged, size, race, answer, reply>>

EndOfBody(c) ==
  /\ fetching[c] = "fetching" /\ got[c] = size[c] /\ FetchGoto(c, "read")
  /\ UNCHANGED <<staged, transfer, race, answer, reply>>

\* The timer and rpc.cancel reach a call until it is answered; the timer is
\* cleared once the body is read.
Ring(c) ==
  /\ fetching[c] = "fetching" /\ ~rung[c] /\ rung' = [rung EXCEPT ![c] = TRUE]
  /\ UNCHANGED <<fetching, staged, transfer, ended, answer, reply>>

CancelFetch(c) ==
  /\ fetching[c] \notin {"idle", "over"} /\ ~ended[c] /\ ended' = [ended EXCEPT ![c] = TRUE]
  /\ UNCHANGED <<fetching, staged, transfer, rung, answer, reply>>

\* The catch: why the transfer ended, the cancel first, then the timer, then
\* whatever the network says.
Throw(c) ==
  /\ fetching[c] = "fetching"
  /\ AnswerFetch(c, IF ended[c] THEN "cancelled" ELSE IF rung[c] THEN "timed out" ELSE "network")
  /\ UNCHANGED <<staged, transfer, race, reply>>

\* The answer: inline when it fits one frame, its headers counted.
ReplyFetch(c, fits) ==
  /\ fetching[c] = "read"
  /\ IF got[c] <= Inline /\ fits THEN AnswerFetch(c, "body") ELSE FetchGoto(c, "writing") /\ UNCHANGED answer
  /\ UNCHANGED <<staged, transfer, race, reply>>

\* writeRef.
WriteReply(c, ok) ==
  /\ fetching[c] = "writing"
  /\ AnswerFetch(c, IF ok THEN "ref" ELSE "unavailable") /\ reply' = [reply EXCEPT ![c] = ok]
  /\ UNCHANGED <<staged, transfer, race>>

\* The guest, once answered: what it staged is its to delete.
Unstage(c) ==
  /\ fetching[c] = "over" /\ staged[c] # "none" /\ staged' = [staged EXCEPT ![c] = "gone"]
  /\ UNCHANGED <<fetching, transfer, race, answer, reply>>

FetchNext == \E c \in Calls :
       \/ \E with \in {"none", "whole", "short"}, body \in 0 .. MaxBody : Arrive(c, with, body)
       \/ \E n \in 1 .. MaxBody : Chunk(c, n)
       \/ \E ok \in BOOLEAN : ReplyFetch(c, ok) \/ WriteReply(c, ok)
       \/ ReadRef(c) \/ EndOfBody(c) \/ Ring(c) \/ CancelFetch(c) \/ Throw(c) \/ Unstage(c)

FetchSpec == FetchInit /\ [][FetchNext]_fetchVars

----------------------------------------------------------------------------
\* What the guest hears of a fetch is so: a body is the server's whole one, or
\* its first Cap bytes and said to be cut; it timed out only if its timer rang
\* and was cancelled only if somebody did.
FetchHonest ==
  \A c \in Calls :
    /\ answer[c] \in {"body", "ref"} =>
         got[c] = (IF size[c] > Cap THEN Cap ELSE size[c]) /\ cut[c] = (size[c] > Cap)
    /\ answer[c] = "ref" => reply[c]
    /\ answer[c] = "timed out" => rung[c] /\ ~ended[c]
    /\ answer[c] = "cancelled" => ended[c]
=============================================================================
