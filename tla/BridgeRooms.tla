----------------------------- MODULE BridgeRooms -----------------------------
(***************************************************************************)
(* The network bridge of net-bridge.ts: how the pages of one origin open   *)
(* and stop rooms, and the origin's lock that keeps them to one bridge.    *)
(*                                                                         *)
(* A room is one RoomBridgeImpl, numbered; it is opened by hostRoom,       *)
(* joinRoom, manualInvite or manualAnswer, each of which awaits the lock,  *)
(* then the relays or its own ICE gathering, then (a joiner) the answer.   *)
(* The lock manager frees a lock some time after it is released.           *)
(***************************************************************************)
EXTENDS Integers, FiniteSets

CONSTANTS
  Pages,       \* the origin's tabs and panes
  MaxRoom      \* bound: rooms ever opened

\* What the constants are taken to be.
RoomsAssumption == MaxRoom \in Nat /\ "none" \notin Pages

VARIABLES
  owner,       \* the page of each room, "none" while it is not asked for
  kind,        \* "host", "join", "invite", "answer"
  opens,          \* where the call that opens it is
  state,       \* the room's state; "none" before it is constructed
  bc,          \* rooms whose channel to the LAN is open
  hostPc,      \* a member's connection: "none", "open", "answered", "closed"
  activeRoom,  \* each page's active room, 0 = null
  releaseLock, \* pages that hold the lock, as they know it
  lock,        \* the pages the lock manager counts as holder: one at most
  bare,        \* history: rooms that were let through without a lock
  outOfTurn      \* history: pages that stopped or opened a room while one of
               \* theirs was still opening

vars == <<owner, kind, opens, state, bc, hostPc, activeRoom, releaseLock, lock, bare, outOfTurn>>

Rooms   == 1 .. MaxRoom
Asked   == {b \in Rooms : opens[b] # "none"}
Opening == {"lock", "beat", "signal", "gather"}
Member  == {"join", "invite"}
Go(b, where) == opens' = [opens EXCEPT ![b] = where]

Init ==
  /\ owner = [b \in Rooms |-> "none"] /\ kind = [b \in Rooms |-> "none"]
  /\ opens = [b \in Rooms |-> "none"] /\ state = [b \in Rooms |-> "none"]
  /\ bc = {} /\ hostPc = [b \in Rooms |-> "none"]
  /\ activeRoom = [p \in Pages |-> 0] /\ releaseLock = {} /\ lock = {}
  /\ bare = {} /\ outOfTurn = {}

----------------------------------------------------------------------------
(* teardown, close, fail, stop.                                            *)

\* The lock is the page's, whichever of its rooms took it.
Teardown(b) ==
  /\ bc' = bc \ {b}
  /\ hostPc' = [hostPc EXCEPT ![b] = IF @ = "none" THEN @ ELSE "closed"]
  /\ releaseLock' = releaseLock \ {owner[b]}

Close(b) ==
  IF state[b] = "closed" THEN UNCHANGED <<state, bc, hostPc, releaseLock>>
  ELSE state' = [state EXCEPT ![b] = "closed"] /\ Teardown(b)

\* stop(): the room of the caller, or of stopEverything.
StopRoom(b) ==
  /\ Close(b)
  /\ activeRoom' = [activeRoom EXCEPT ![owner[b]] = IF @ = b THEN 0 ELSE @]

\* Nothing holds a page back while a room of its own is opening.
Crosses(p) ==
  outOfTurn' = IF \E b \in Asked : owner[b] = p /\ opens[b] \in Opening THEN outOfTurn \cup {p} ELSE outOfTurn

\* reset of the panel, or the guest's bridge.stop.
Stop(p) ==
  /\ activeRoom[p] # 0
  /\ StopRoom(activeRoom[p]) /\ Crosses(p)
  /\ UNCHANGED <<owner, kind, opens, lock, bare>>

\* The tab dies, its rooms and its claim on the lock with it.
PageDies(p) ==
  /\ \E b \in Asked : owner[b] = p /\ opens[b] # "dead"
  /\ opens' = [b \in Rooms |-> IF owner[b] = p THEN "dead" ELSE opens[b]]
  /\ state' = [b \in Rooms |-> IF owner[b] = p THEN "closed" ELSE state[b]]
  /\ bc' = {b \in bc : owner[b] # p}
  /\ hostPc' = [b \in Rooms |-> IF owner[b] = p /\ hostPc[b] # "none" THEN "closed" ELSE hostPc[b]]
  /\ activeRoom' = [activeRoom EXCEPT ![p] = 0]
  /\ releaseLock' = releaseLock \ {p} /\ lock' = lock \ {p}
  /\ outOfTurn' = outOfTurn \ {p}
  /\ UNCHANGED <<owner, kind, bare>>

----------------------------------------------------------------------------
(* Opening a room.                                                         *)

\* hostRoom, joinRoom, manualInvite, manualAnswer: stop the old one first.
Open(p, k) ==
  LET b == Cardinality(Asked) + 1 IN
  /\ b \in Rooms /\ Crosses(p)
  /\ owner' = [owner EXCEPT ![b] = p] /\ kind' = [kind EXCEPT ![b] = k] /\ Go(b, "lock")
  /\ IF activeRoom[p] = 0 THEN UNCHANGED <<state, bc, hostPc, activeRoom, releaseLock>>
     ELSE StopRoom(activeRoom[p])
  /\ UNCHANGED <<lock, bare>>

\* Mutant: the lock is asked for and not looked at.
LockGrantedBlindly(p) == TRUE

\* tryLock: this page holds it already, or the manager has it to give.
LockGranted(p) == p \in releaseLock \/ lock = {}

\* The room is made.  A host room is not the page's active one yet.
Constructed(b) ==
  /\ state' = [state EXCEPT ![b] = "signalling"]
  /\ hostPc' = [hostPc EXCEPT ![b] = IF kind[b] = "invite" THEN "open" ELSE @]
  /\ activeRoom' = [activeRoom EXCEPT ![owner[b]] = IF kind[b] = "host" THEN @ ELSE b]
  /\ Go(b, IF kind[b] \in {"host", "join"} THEN "signal" ELSE "gather")

TryLock(b) ==
  /\ opens[b] \in {"lock", "beat"} /\ LockGranted(owner[b])
  /\ releaseLock' = releaseLock \cup {owner[b]}
  /\ lock' = lock \cup {owner[b]}
  /\ Constructed(b)
  /\ UNCHANGED <<owner, kind, bc, bare, outOfTurn>>

\* A page with no lock manager (plain HTTP), or whose request is rejected: the
\* bridge comes up without a lock.
LockMissing(b) ==
  /\ opens[b] \in {"lock", "beat"} /\ owner[b] \notin releaseLock
  /\ bare' = bare \cup {b} /\ Constructed(b)
  /\ UNCHANGED <<owner, kind, bc, releaseLock, lock, outOfTurn>>

\* Not free: wait a beat, for this page's own release to reach the manager.
Beat(b) ==
  /\ opens[b] = "lock" /\ ~LockGranted(owner[b])
  /\ Go(b, "beat")
  /\ UNCHANGED <<owner, kind, state, bc, hostPc, activeRoom, releaseLock, lock, bare, outOfTurn>>

\* The beat is longer than the manager takes to free a lock.
Refused(b) ==
  /\ opens[b] = "beat" /\ ~LockGranted(owner[b]) /\ lock \cap releaseLock # {}
  /\ Go(b, "thrown")
  /\ UNCHANGED <<owner, kind, state, bc, hostPc, activeRoom, releaseLock, lock, bare, outOfTurn>>

\* Up: the LAN is joined.
Up(b) == bc' = bc \cup {b} /\ state' = [state EXCEPT ![b] = "on"]

\* startHost: a relay took the subscription.
HostOpens(b) ==
  /\ opens[b] = "signal" /\ kind[b] = "host"
  /\ Up(b) /\ Go(b, "done")
  /\ activeRoom' = [activeRoom EXCEPT ![owner[b]] = b]
  /\ UNCHANGED <<owner, kind, hostPc, releaseLock, lock, bare, outOfTurn>>

\* startManualHost: the invite is taken and the answer gathered.
ManualHostOpens(b) ==
  /\ opens[b] = "gather" /\ kind[b] = "answer"
  /\ Up(b) /\ Go(b, "done")
  /\ UNCHANGED <<owner, kind, hostPc, activeRoom, releaseLock, lock, bare, outOfTurn>>

\* startMember: a relay is there; memberOffer makes the connection.
MakeOffer(b) ==
  /\ opens[b] = "signal" /\ kind[b] = "join"
  /\ hostPc' = [hostPc EXCEPT ![b] = "open"]
  /\ Go(b, "gather")
  /\ UNCHANGED <<owner, kind, state, bc, activeRoom, releaseLock, lock, bare, outOfTurn>>

\* The offer is gathered: published, or shown as a code.
Offered(b) ==
  /\ opens[b] = "gather" /\ kind[b] \in Member
  /\ Go(b, IF kind[b] = "join" THEN "answer" ELSE "done")
  /\ UNCHANGED <<owner, kind, state, bc, hostPc, activeRoom, releaseLock, lock, bare, outOfTurn>>

\* memberComplete: the answer arrives, or is pasted.  A member that was torn
\* down has no connection to complete, and throws.
Answered(b) ==
  /\ opens[b] = "answer" \/ (kind[b] = "invite" /\ opens[b] = "done")
  /\ hostPc[b] = "open"
  /\ hostPc' = [hostPc EXCEPT ![b] = "answered"]
  /\ Go(b, "done")
  /\ UNCHANGED <<owner, kind, state, bc, activeRoom, releaseLock, lock, bare, outOfTurn>>

\* No relay, a broken code, no answer in 30 s: the call stops its room.
OpenFails(b) ==
  /\ opens[b] \in {"signal", "gather", "answer"}
  /\ StopRoom(b) /\ Go(b, "thrown")
  /\ UNCHANGED <<owner, kind, lock, bare, outOfTurn>>

----------------------------------------------------------------------------
(* A member's connection.                                                  *)

\* The lan channel opens.
LanOpens(b) ==
  /\ hostPc[b] = "answered" /\ state[b] \in {"signalling", "closed"}
  /\ Up(b)
  /\ UNCHANGED <<owner, kind, opens, hostPc, activeRoom, releaseLock, lock, bare, outOfTurn>>

\* connectionstatechange: failed.
ConnectionFails(b) ==
  /\ hostPc[b] = "answered" /\ state[b] \notin {"failed", "closed"}
  /\ state' = [state EXCEPT ![b] = "failed"] /\ Teardown(b)
  /\ UNCHANGED <<owner, kind, opens, activeRoom, lock, bare, outOfTurn>>

\* Disconnected, or the lan channel closed.
ConnectionDrops(b) ==
  /\ hostPc[b] = "answered" /\ state[b] = "on" /\ Close(b)
  /\ UNCHANGED <<owner, kind, opens, activeRoom, lock, bare, outOfTurn>>

\* The lock manager takes back a lock its page released.
Freed ==
  /\ lock \ releaseLock # {} /\ lock' = lock \cap releaseLock
  /\ UNCHANGED <<owner, kind, opens, state, bc, hostPc, activeRoom, releaseLock, bare, outOfTurn>>

Next ==
  \/ \E p \in Pages : Stop(p) \/ PageDies(p) \/ \E k \in {"host", "join", "invite", "answer"} : Open(p, k)
  \/ \E b \in Rooms :
       \/ TryLock(b) \/ LockMissing(b) \/ Beat(b) \/ Refused(b) \/ HostOpens(b) \/ ManualHostOpens(b) \/ MakeOffer(b)
       \/ Offered(b) \/ Answered(b) \/ OpenFails(b)
       \/ LanOpens(b) \/ ConnectionFails(b) \/ ConnectionDrops(b)
  \/ Freed

\* Every await of an opening has a timeout of its own; the manager frees.
OpenStep(b) == TryLock(b) \/ LockMissing(b) \/ Beat(b) \/ Refused(b) \/ HostOpens(b) \/ ManualHostOpens(b) \/ MakeOffer(b)
            \/ Offered(b) \/ Answered(b) \/ OpenFails(b)
Fairness == WF_vars(Freed) /\ \A b \in Rooms : WF_vars(OpenStep(b))

Spec == Init /\ [][Next]_vars /\ Fairness

----------------------------------------------------------------------------
\* What bridge-ctl's snapshot tells the guest of its page's bridge.
Status(p) ==
  IF activeRoom[p] = 0 THEN "off"
  ELSE IF state[activeRoom[p]] = "closed" THEN "off"
  ELSE IF state[activeRoom[p]] = "signalling" THEN "joining" ELSE state[activeRoom[p]]

\* A room that has its lock and whose page did one thing at a time.
Proper(b) == b \notin bare /\ owner[b] \notin outOfTurn

\* "One bridge per LAN": of all pages of the origin, whatever the others do, one
\* room at most that took the lock is on the LAN, and its page holds the lock.
OneBridge ==
  /\ \A b, c \in bc : Proper(b) /\ Proper(c) => b = c
  /\ \A b \in bc : Proper(b) => lock = {owner[b]} /\ owner[b] \in releaseLock

\* The lock outlives no room: a page that holds it has one opening or up.
LockHasRoom ==
  \A p \in releaseLock :
    /\ lock = {p}
    /\ \E b \in Asked : owner[b] = p /\ state[b] \in {"signalling", "on"}

\* The guest reads "on" exactly while its page is on the LAN.
StatusTrue == \A p \in Pages \ outOfTurn : (Status(p) = "on") <=> \E b \in bc : owner[b] = p

\* What net-bridge.ts says of its lock: one bridge per LAN, held by a page no
\* longer than it has a room, and the guest is told of it.
BridgeTrue == OneBridge /\ LockHasRoom /\ StatusTrue
=============================================================================
