------------------------------ MODULE OutQueue ------------------------------
(***************************************************************************)
(* rpcd's growable byte queue, one per descriptor it writes to (struct     *)
(* outq), as the stream lane uses it (mux_out): filled from the PTYs       *)
(* behind a high-water mark, drained by the serial line.                   *)
(*                                                                         *)
(* The buffer doubles from 8 KiB and 8 MiB is a power of two times that,   *)
(* so a push is refused exactly when the buffer would have to pass         *)
(* MAX_CAP; a failing realloc is left out.  Bytes are only counted.        *)
(***************************************************************************)
EXTENDS Integers

CONSTANTS
  MAX_CAP,     \* bytes a queue may hold: 8 MiB
  HIGH,        \* MUX_OUT_HIGH
  FRAME,       \* MUX_FRAME_MAX, header included
  KernelRoom   \* what the kernel buffers for the descriptor

ASSUME OutQueueAssumption ==
  /\ MAX_CAP \in Nat /\ HIGH \in Nat /\ FRAME \in Nat \ {0} /\ KernelRoom \in Nat \ {0}
  /\ HIGH + FRAME <= MAX_CAP

VARIABLES
  len, off,    \* bytes pushed since the queue was last empty; those written
  unread,      \* bytes in the kernel the peer has not read
  lost         \* history: bytes taken from a PTY were thrown away

vars == <<len, off, unread, lost>>

Backlog   == len - off
Fits(n)   == len + n <= MAX_CAP
Push(n)   == len' = len + n
Accepted == IF Backlog <= KernelRoom - unread THEN Backlog ELSE KernelRoom - unread

\* outq_flush: write until the descriptor takes no more; an emptied queue
\* starts over.
Flush ==
  /\ Backlog > 0 /\ unread < KernelRoom
  /\ LET w == Accepted IN
       /\ unread' = unread + w
       /\ IF w = Backlog THEN len' = 0 /\ off' = 0 ELSE off' = off + w /\ len' = len
  /\ UNCHANGED lost

\* Mutant: the PTY is read whatever is queued.
PumpAlways ==
  /\ \E n \in 1 .. FRAME :
       IF Fits(n) THEN Push(n) /\ UNCHANGED lost
       ELSE lost' = TRUE /\ UNCHANGED len
  /\ UNCHANGED <<off, unread>>

\* stream_pump_out: while less than HIGH is queued, one read of the PTY
\* becomes one frame.  Nobody looks at the result of the push.
Pump ==
  /\ Backlog < HIGH
  /\ \E n \in 1 .. FRAME :
       IF Fits(n) THEN Push(n) /\ UNCHANGED lost
       ELSE lost' = TRUE /\ UNCHANGED len
  /\ UNCHANGED <<off, unread>>

\* The peer reads some of what the kernel holds.
PeerReads ==
  /\ \E n \in 1 .. unread : unread' = unread - n
  /\ UNCHANGED <<len, off, lost>>

Init == len = 0 /\ off = 0 /\ unread = 0 /\ lost = FALSE

Next == Pump \/ Flush \/ PeerReads

Spec == Init /\ [][Next]_vars

\* poll reports a writable descriptor, and the peer keeps reading.
FairSpec == Spec /\ WF_vars(Flush) /\ WF_vars(PeerReads)

----------------------------------------------------------------------------
\* Every variable has its type, and no queue passes its bound.
TypeOK ==
  /\ len \in 0 .. MAX_CAP /\ off \in 0 .. len
  /\ off = len => len = 0
  /\ unread \in 0 .. KernelRoom
  /\ lost \in BOOLEAN

\* However long an app floods its terminal and however slowly the page
\* reads, at most one frame past the high-water mark waits in rpcd.
BacklogBounded == Backlog < HIGH + FRAME

\* A lane that refuses frames accepts them again: the refusals themselves let
\* it run dry, and a dry queue starts over.
Refusing   == ~Fits(FRAME)
RefusalEnds == Refusing ~> ~Refusing

\* Reading a PTY stops while the lane is backed up, so what was read is sent
\* ("backpressure, not memory").
NothingLost == ~lost
=============================================================================
