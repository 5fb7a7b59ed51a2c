---------------------------- MODULE Origin_proofs ----------------------------
(***************************************************************************)
(* What the pages of one origin share, for any number of pages, rooms,     *)
(* machines, peers, frames, members and relays: its one bridge, the switch, *)
(* roster, chat and signalling of a room, its one radio; and what the panel *)
(* that chooses the network says of it, for any addresses.                  *)
(***************************************************************************)
EXTENDS BridgeHost, BridgeRooms, BridgeSignal, NetPanel, Radio, FiniteSetTheorems, TLAPS

----------------------------------------------------------------------------
(* One bridge per origin, whatever its pages do: of the rooms that took the *)
(* lock, on pages that did one thing at a time.                             *)

RoomKinds  == {"host", "join", "invite", "answer"}
Places == {"none", "lock", "beat", "signal", "gather", "answer", "done", "thrown", "dead"}
States == {"none", "signalling", "on", "failed", "closed"}
RoomLinks  == {"none", "open", "answered", "closed"}

RoomsTypeOK ==
  /\ owner \in [Rooms -> Pages \cup {"none"}] /\ kind \in [Rooms -> RoomKinds \cup {"none"}]
  /\ opens \in [Rooms -> Places] /\ state \in [Rooms -> States] /\ hostPc \in [Rooms -> RoomLinks]
  /\ activeRoom \in [Pages -> Rooms \cup {0}]
  /\ bc \subseteq Rooms /\ releaseLock \subseteq Pages /\ lock \subseteq Pages
  /\ bare \subseteq Rooms /\ outOfTurn \subseteq Pages

\* Rooms are numbered as they are asked for.
AskedInOrder == \E n \in Nat : Asked = 1 .. n

Live(b) == state[b] \in {"signalling", "on"}

\* Of a room whose page did one thing at a time, where its opening is tells its
\* state, and so does its member's connection.
Orderly(b) ==
  /\ opens[b] \in {"signal", "gather"} => state[b] = "signalling"
  /\ opens[b] = "answer" => state[b] \in {"signalling", "closed"}
  /\ hostPc[b] \in {"open", "answered"} => Live(b)

\* Of any room: a room that is not made yet, and what is on the LAN.
RoomTrue(b) ==
  /\ IF opens[b] = "none" THEN owner[b] = "none" ELSE owner[b] \in Pages
  /\ opens[b] \in {"none", "lock", "beat"} => state[b] = "none" /\ hostPc[b] = "none"
  /\ state[b] \in {"on", "failed"} => opens[b] = "done"
  /\ hostPc[b] = "answered" => opens[b] = "done"
  /\ b \in bc <=> state[b] = "on"
  /\ owner[b] \notin outOfTurn => Orderly(b)

\* Such a page has one room opening at a time, and none active while it has none
\* but that one to its name.
Waiting(b) == opens[b] \in {"lock", "beat"} \/ (opens[b] = "signal" /\ kind[b] = "host")

OneOpening ==
  \A b, c \in Rooms :
    opens[b] \in Opening /\ opens[c] \in Opening /\ owner[b] = owner[c] /\ owner[b] \notin outOfTurn => b = c

ActiveTrue ==
  /\ \A p \in Pages : activeRoom[p] # 0 => owner[activeRoom[p]] = p /\ opens[activeRoom[p]] \notin {"none", "lock", "beat"}
  /\ \A b \in Rooms : owner[b] \notin outOfTurn /\ Waiting(b) => activeRoom[owner[b]] = 0
  /\ \A b \in Rooms : owner[b] \notin outOfTurn /\ Live(b) => activeRoom[owner[b]] = b \/ (opens[b] = "signal" /\ kind[b] = "host")

\* The lock is one page's; a room that took it in order and lives has it, and
\* it has a room that lives.
LockTrue ==
  /\ releaseLock \subseteq lock /\ \A p, q \in lock : p = q
  /\ \A b \in Rooms : Proper(b) /\ Live(b) => owner[b] \in releaseLock
  /\ \A p \in releaseLock : \E b \in Rooms : owner[b] = p /\ Live(b)

RoomsInv ==
  RoomsTypeOK /\ AskedInOrder /\ (\A b \in Rooms : RoomTrue(b)) /\ OneOpening /\ ActiveTrue /\ LockTrue

----------------------------------------------------------------------------
\* Such a page has one live room.
LEMMA OneLives ==
  ASSUME RoomsInv, NEW b \in Rooms, NEW c \in Rooms, Live(b), Live(c), owner[b] = owner[c], owner[b] \notin outOfTurn
  PROVE  b = c
<1>1. b # 0 /\ c # 0
  BY DEF Rooms
<1>2. Live(b) => opens[b] # "none" /\ owner[b] \in Pages
  BY DEF RoomsInv, RoomTrue, Live
<1> QED BY <1>1, <1>2 DEF RoomsInv, ActiveTrue, OneOpening, Waiting, Opening

LEMMA InvGivesBridgeTrue ==
  ASSUME RoomsInv
  PROVE  BridgeTrue
<1>1. \A b \in bc : b \in Rooms /\ Live(b) /\ opens[b] = "done" /\ owner[b] \in Pages
  BY DEF RoomsInv, RoomsTypeOK, RoomTrue, Live
<1>2. \A b \in bc : Proper(b) => owner[b] \in releaseLock /\ lock = {owner[b]}
  BY <1>1 DEF RoomsInv, LockTrue
<1>3. \A b, c \in bc : Proper(b) /\ Proper(c) => b = c
  BY <1>1, <1>2, OneLives DEF Proper
<1>4. OneBridge
  BY <1>2, <1>3 DEF OneBridge
<1>5. LockHasRoom
  BY DEF RoomsInv, LockTrue, RoomTrue, LockHasRoom, Live, Asked
<1>6. StatusTrue
  <2> SUFFICES ASSUME NEW p \in Pages, p \notin outOfTurn
               PROVE  (Status(p) = "on") <=> \E b \in bc : owner[b] = p
    BY DEF StatusTrue
  <2>1. ASSUME Status(p) = "on" PROVE \E b \in bc : owner[b] = p
    <3>1. activeRoom[p] # 0 /\ state[activeRoom[p]] = "on"
      BY <2>1 DEF Status
    <3> QED BY <3>1 DEF RoomsInv, RoomsTypeOK, ActiveTrue, RoomTrue
  <2>2. ASSUME NEW b \in bc, owner[b] = p PROVE Status(p) = "on"
    <3>1. b \in Rooms /\ Live(b) /\ state[b] = "on" /\ opens[b] = "done" /\ b # 0
      BY <1>1 DEF RoomsInv, RoomTrue, Rooms
    <3>2. activeRoom[p] = b
      BY <2>2, <3>1 DEF RoomsInv, ActiveTrue
    <3> QED BY <3>1, <3>2 DEF Status
  <2> QED BY <2>1, <2>2
<1> QED BY <1>4, <1>5, <1>6 DEF BridgeTrue

LEMMA RoomsInit ==
  ASSUME Init
  PROVE  RoomsInv
<1>1. RoomsTypeOK
  BY DEF Init, RoomsTypeOK, Places, States, RoomLinks
<1>2. Asked = 1 .. 0
  BY DEF Init, Asked
<1>3. AskedInOrder
  BY <1>2 DEF AskedInOrder
<1>4. (\A b \in Rooms : RoomTrue(b)) /\ OneOpening /\ ActiveTrue /\ LockTrue
  BY DEF Init, RoomTrue, Orderly, Live, OneOpening, Opening, ActiveTrue, Waiting, LockTrue
<1> QED BY <1>1, <1>3, <1>4 DEF RoomsInv

\* A room goes down, and its page's lock with it: the page's only live room, or
\* its page is out of order.
LEMMA GoesDown ==
  ASSUME RoomsInv, NEW b \in Rooms, opens[b] \notin {"none", "lock", "beat"},
         NEW spot \in Places, opens' = [opens EXCEPT ![b] = spot], spot \in {"done", "thrown", opens[b]},
         outOfTurn \subseteq outOfTurn', outOfTurn' \subseteq Pages,
         \/ owner[b] \in outOfTurn'
         \/ /\ state[b] = "closed" \/ \A c \in Rooms : Live(c) /\ owner[c] = owner[b] => c = b
            /\ spot \notin Opening,
         Close(b) \/ (state[b] # "closed" /\ state' = [state EXCEPT ![b] = "failed"] /\ Teardown(b) /\ spot = "done"),
         activeRoom' \in [Pages -> Rooms \cup {0}],
         \A p \in Pages : activeRoom'[p] = activeRoom[p] \/ (p = owner[b] /\ activeRoom[p] = b /\ activeRoom'[p] = 0),
         hostPc[b] = "answered" => spot = "done",
         UNCHANGED <<owner, kind, lock, bare>>
  PROVE  RoomsInv'
<1>1. RoomsTypeOK'
  BY DEF RoomsInv, RoomsTypeOK, Close, Teardown, RoomLinks, States
<1>2. AskedInOrder'
  <2>1. Asked' = Asked
    BY DEF Asked, RoomsInv, RoomsTypeOK
  <2> QED BY <2>1 DEF RoomsInv, AskedInOrder
<1>3. \A c \in Rooms : c # b => /\ opens'[c] = opens[c] /\ state'[c] = state[c] /\ hostPc'[c] = hostPc[c]
                               /\ (c \in bc' <=> c \in bc)
  BY DEF RoomsInv, RoomsTypeOK, Close, Teardown
<1>4. /\ opens'[b] = spot /\ (state'[b] = "closed" \/ (state'[b] = "failed" /\ spot = "done"))
      /\ b \notin bc'
      /\ IF state[b] = "closed" THEN UNCHANGED <<hostPc, releaseLock>>
         ELSE hostPc'[b] \in {"none", "closed"} /\ releaseLock' = releaseLock \ {owner[b]}
  <2>1. CASE state[b] = "closed"
    <3>1. UNCHANGED <<state, bc, hostPc, releaseLock>>
      BY <2>1 DEF Close
    <3>2. b \notin bc
      BY <2>1 DEF RoomsInv, RoomTrue
    <3> QED BY <2>1, <3>1, <3>2 DEF RoomsInv, RoomsTypeOK
  <2>2. CASE state[b] # "closed"
    BY <2>2 DEF Close, Teardown, RoomsInv, RoomsTypeOK, RoomLinks
  <2> QED BY <2>1, <2>2
<1>5. ASSUME NEW c \in Rooms PROVE RoomTrue(c)'
  <2>1. RoomTrue(c)
    BY DEF RoomsInv
  <2>2. CASE c # b
    BY <1>3, <2>1, <2>2 DEF RoomTrue, Orderly, Live
  <2>3. CASE c = b
    <3>1. hostPc'[b] \in {"none", "closed"} \/ (hostPc'[b] = hostPc[b] /\ state[b] = "closed")
      BY <1>4 DEF RoomsInv, RoomsTypeOK
    <3>2. hostPc'[b] = "answered" => spot = "done"
      BY <1>4, <2>1, <2>3, <3>1 DEF RoomTrue, Orderly, Live
    <3>3. owner[b] \notin outOfTurn' => hostPc'[b] \notin {"open", "answered"}
      BY <2>1, <2>3, <3>1 DEF RoomTrue, Orderly, Live
    <3> QED BY <1>4, <2>1, <2>3, <3>2, <3>3 DEF RoomTrue, Orderly, Live, Opening
  <2> QED BY <2>2, <2>3
<1>6. OneOpening'
  <2>1. \A c \in Rooms : opens'[c] \in Opening /\ owner[c] \notin outOfTurn' => opens[c] \in Opening /\ owner[c] \notin outOfTurn
    BY <1>3, <1>4 DEF Opening
  <2> QED BY <2>1 DEF RoomsInv, OneOpening
<1>7. \A c \in Rooms : Live(c)' => c # b /\ Live(c)
  BY <1>3, <1>4 DEF Live
<1>8. ActiveTrue'
  <2>1. \A c \in Rooms : owner[c] \notin outOfTurn' /\ Waiting(c)' => c # b /\ Waiting(c) /\ owner[c] \notin outOfTurn
    BY <1>3, <1>4 DEF Waiting, Opening
  <2>3. \A c \in Rooms : opens[c] # "none" => owner[c] \in Pages
    BY DEF RoomsInv, RoomTrue
  <2>4. \A p \in Pages : activeRoom'[p] = activeRoom[p] \/ (p = owner[b] /\ activeRoom[p] = b /\ activeRoom'[p] = 0)
    OBVIOUS
  <2>5. \A p \in Pages : activeRoom'[p] # 0 => owner[activeRoom'[p]] = p /\ opens'[activeRoom'[p]] \notin {"none", "lock", "beat"}
    <3>1. \A c \in Rooms : opens[c] \notin {"none", "lock", "beat"} => opens'[c] \notin {"none", "lock", "beat"}
      BY <1>3, <1>4
    <3> QED BY <2>4, <3>1 DEF RoomsInv, RoomsTypeOK, ActiveTrue
  <2>6. \A c \in Rooms : owner[c] \notin outOfTurn' /\ Waiting(c)' => activeRoom'[owner[c]] = 0
    BY <2>1, <2>3, <2>4 DEF RoomsInv, ActiveTrue, Waiting
  <2>7. \A c \in Rooms : Live(c) => opens[c] # "none"
    BY DEF RoomsInv, RoomTrue, Live
  <2>8. \A c \in Rooms : owner[c] \notin outOfTurn' /\ Live(c)' => activeRoom'[owner[c]] = c \/ (opens'[c] = "signal" /\ kind[c] = "host")
    BY <1>3, <1>7, <2>3, <2>4, <2>7 DEF RoomsInv, ActiveTrue
  <2> QED BY <2>5, <2>6, <2>8 DEF ActiveTrue
<1>9. LockTrue'
  <2>1. releaseLock' \subseteq releaseLock /\ \A c \in Rooms : Proper(c)' => Proper(c)
    BY <1>4 DEF Proper
  <2>2. \A c \in Rooms : Proper(c)' /\ Live(c)' => owner[c] \in releaseLock'
    <3> SUFFICES ASSUME NEW c \in Rooms, Proper(c)', Live(c)' PROVE owner[c] \in releaseLock'
      OBVIOUS
    <3>1. owner[c] \in releaseLock /\ c # b /\ Live(c) /\ owner[c] \notin outOfTurn'
      BY <1>7, <2>1 DEF RoomsInv, LockTrue, Proper
    <3>2. owner[c] = owner[b] => state[b] = "closed"
      BY <3>1
    <3> QED BY <1>4, <3>1, <3>2
  <2>3. \A p \in releaseLock' : \E c \in Rooms : owner[c] = p /\ Live(c)'
    <3> SUFFICES ASSUME NEW p \in releaseLock' PROVE \E c \in Rooms : owner[c] = p /\ Live(c)'
      OBVIOUS
    <3>1. PICK c \in Rooms : owner[c] = p /\ Live(c)
      BY <2>1 DEF RoomsInv, LockTrue
    <3>2. c # b
      BY <1>4, <3>1 DEF Live
    <3>3. Live(c)'
      BY <1>3, <3>1, <3>2 DEF Live
    <3> QED BY <3>1, <3>3
  <2> QED BY <2>1, <2>2, <2>3 DEF RoomsInv, LockTrue
<1> QED BY <1>1, <1>2, <1>5, <1>6, <1>8, <1>9 DEF RoomsInv

\* One room of those that are asked for moves; its page's others do not.
OnlyMoves(b) ==
  /\ UNCHANGED <<owner, kind, outOfTurn>> /\ opens[b] # "none" /\ opens'[b] # "none"
  /\ \A c \in Rooms : c # b => /\ opens'[c] = opens[c] /\ state'[c] = state[c] /\ hostPc'[c] = hostPc[c]
                              /\ (c \in bc' <=> c \in bc)
  /\ opens'[b] \in Opening => opens[b] \in Opening

LEMMA OneMoves ==
  ASSUME RoomsInv, NEW b \in Rooms, OnlyMoves(b), RoomsTypeOK', RoomTrue(b)', ActiveTrue', LockTrue'
  PROVE  RoomsInv'
<1>1. AskedInOrder'
  <2>1. Asked' = Asked
    BY DEF Asked, OnlyMoves, RoomsInv, RoomsTypeOK
  <2> QED BY <2>1 DEF RoomsInv, AskedInOrder
<1>2. ASSUME NEW c \in Rooms PROVE RoomTrue(c)'
  <2>1. RoomTrue(c)
    BY DEF RoomsInv
  <2> QED BY <2>1 DEF RoomTrue, Orderly, Live, OnlyMoves
<1>3. OneOpening'
  BY DEF RoomsInv, OneOpening, OnlyMoves, Opening
<1> QED BY <1>1, <1>2, <1>3 DEF RoomsInv

LEMMA MovesQuietly ==
  ASSUME RoomsInv, NEW b \in Rooms, OnlyMoves(b), RoomsTypeOK', RoomTrue(b)',
         UNCHANGED <<activeRoom, releaseLock, lock, bare>>,
         opens'[b] \notin {"lock", "beat"} \/ opens[b] = "lock",
         Live(b) => Live(b)',
         owner[b] \notin outOfTurn /\ Live(b)' => Live(b) /\ (activeRoom[owner[b]] = b \/ (opens'[b] = "signal" /\ kind[b] = "host")),
         Waiting(b)' => Waiting(b)
  PROVE  RoomsInv'
<1>1. \A c \in Rooms : /\ Live(c) => Live(c)'
                       /\ owner[c] \notin outOfTurn /\ Live(c)' => Live(c)
                       /\ Waiting(c)' => Waiting(c)
  BY DEF OnlyMoves, Live, Waiting
<1>2. ActiveTrue'
  <2>1. \A p \in Pages : activeRoom[p] # 0 => opens'[activeRoom[p]] \notin {"none", "lock", "beat"}
    BY DEF RoomsInv, RoomsTypeOK, ActiveTrue, OnlyMoves
  <2>2. \A c \in Rooms : owner[c] \notin outOfTurn /\ Live(c)' => activeRoom[owner[c]] = c \/ (opens'[c] = "signal" /\ kind[c] = "host")
    BY <1>1 DEF RoomsInv, ActiveTrue, OnlyMoves
  <2> QED BY <1>1, <2>1, <2>2 DEF RoomsInv, ActiveTrue, OnlyMoves
<1>3. LockTrue'
  BY <1>1 DEF RoomsInv, LockTrue, OnlyMoves, Proper
<1> QED BY <1>2, <1>3, OneMoves

LEMMA QuietSteps ==
  ASSUME RoomsInv, NEW b \in Rooms,
         Beat(b) \/ Refused(b) \/ ManualHostOpens(b) \/ MakeOffer(b) \/ Offered(b) \/ Answered(b) \/ LanOpens(b)
  PROVE  RoomsInv'
<1>1. RoomTrue(b) /\ UNCHANGED <<owner, kind, activeRoom, releaseLock, lock, bare, outOfTurn>>
  BY DEF RoomsInv, Beat, Refused, ManualHostOpens, MakeOffer, Offered, Answered, LanOpens
<1>2. owner[b] \notin outOfTurn /\ Live(b) => activeRoom[owner[b]] = b \/ (opens[b] = "signal" /\ kind[b] = "host")
  BY DEF RoomsInv, ActiveTrue
<1>3. CASE Beat(b) \/ Refused(b)
  <2>1. RoomsTypeOK' /\ OnlyMoves(b) /\ ~Live(b)' /\ ~Live(b) /\ (Waiting(b)' => Waiting(b))
    BY <1>1, <1>3 DEF RoomsInv, RoomsTypeOK, Places, Beat, Refused, Go, OnlyMoves, Opening, Live, Waiting, RoomTrue
  <2>2. RoomTrue(b)'
    BY <1>1, <1>3 DEF RoomsInv, RoomsTypeOK, Beat, Refused, Go, Live, RoomTrue, Orderly
  <2>3. opens'[b] \notin {"lock", "beat"} \/ opens[b] = "lock"
    BY <1>3 DEF RoomsInv, RoomsTypeOK, Beat, Refused, Go
  <2> QED BY <1>1, <2>1, <2>2, <2>3, MovesQuietly
<1>4. CASE ManualHostOpens(b)
  <2>1. RoomsTypeOK' /\ OnlyMoves(b) /\ ~Waiting(b)' /\ Live(b)' /\ ~Waiting(b) /\ opens'[b] = "done"
    BY <1>1, <1>4 DEF RoomsInv, RoomsTypeOK, Places, States, ManualHostOpens, Up, Go, OnlyMoves, Opening, Live, Waiting
  <2>2. RoomTrue(b)'
    BY <1>1, <1>4 DEF RoomsInv, RoomsTypeOK, ManualHostOpens, Up, Go, Live, RoomTrue, Orderly
  <2>3. owner[b] \notin outOfTurn => Live(b)
    BY <1>1, <1>4 DEF ManualHostOpens, RoomTrue, Orderly, Live
  <2> QED BY <1>1, <1>2, <2>1, <2>2, <2>3, MovesQuietly DEF Waiting
<1>5. CASE MakeOffer(b) \/ Offered(b) \/ Answered(b)
  <2>1. opens[b] # "none" /\ opens[b] \notin {"lock", "beat"} /\ ~(opens[b] = "signal" /\ kind[b] = "host")
    BY <1>1, <1>5 DEF MakeOffer, Offered, Answered, Member
  <2>2. RoomsTypeOK' /\ OnlyMoves(b) /\ ~Waiting(b)' /\ (Live(b)' <=> Live(b)) /\ opens'[b] \notin {"lock", "beat"}
    BY <1>1, <1>5, <2>1 DEF RoomsInv, RoomsTypeOK, Places, RoomLinks, MakeOffer, Offered, Answered, Go, OnlyMoves, Opening, Live, Waiting
  <2>3. RoomTrue(b)'
    BY <1>1, <1>5, <2>1 DEF RoomsInv, RoomsTypeOK, MakeOffer, Offered, Answered, Go, Live, RoomTrue, Orderly
  <2> QED BY <1>1, <1>2, <2>1, <2>2, <2>3, MovesQuietly
<1>6. CASE LanOpens(b)
  <2>1. opens[b] = "done" /\ (owner[b] \notin outOfTurn => Live(b))
    BY <1>1, <1>6 DEF LanOpens, RoomTrue, Orderly
  <2>2. RoomsTypeOK' /\ OnlyMoves(b) /\ ~Waiting(b)' /\ Live(b)' /\ opens'[b] = "done"
    BY <1>1, <1>6, <2>1 DEF RoomsInv, RoomsTypeOK, States, LanOpens, Up, OnlyMoves, Opening, Waiting, Live
  <2>3. RoomTrue(b)'
    BY <1>1, <1>6, <2>1 DEF RoomsInv, RoomsTypeOK, LanOpens, Up, Live, RoomTrue, Orderly
  <2> QED BY <1>1, <1>2, <2>1, <2>2, <2>3, MovesQuietly
<1> QED BY <1>3, <1>4, <1>5, <1>6

\* A room is made, with the lock or without it.
LEMMA ConstructedKeeps ==
  ASSUME RoomsInv, NEW b \in Rooms, opens[b] \in {"lock", "beat"}, Constructed(b),
         UNCHANGED <<owner, kind, bc, outOfTurn>>, RoomsTypeOK', LockTrue'
  PROVE  RoomsInv'
<1> DEFINE p == owner[b]
<1>1. p \in Pages /\ Waiting(b) /\ (p \notin outOfTurn => activeRoom[p] = 0) /\ b # 0 /\ RoomTrue(b)
  BY DEF RoomsInv, RoomTrue, ActiveTrue, Waiting, Rooms
<1>2. /\ \A c \in Rooms : c # b => opens'[c] = opens[c] /\ state'[c] = state[c] /\ hostPc'[c] = hostPc[c]
      /\ opens'[b] = IF kind[b] \in {"host", "join"} THEN "signal" ELSE "gather"
      /\ state'[b] = "signalling" /\ hostPc'[b] \in {hostPc[b], "open"}
      /\ activeRoom'[p] = (IF kind[b] = "host" THEN activeRoom[p] ELSE b)
      /\ \A q \in Pages : q # p => activeRoom'[q] = activeRoom[q]
  BY <1>1 DEF Constructed, Go, RoomsInv, RoomsTypeOK
<1>4. \A c \in Rooms : c # b /\ owner[c] = p /\ p \notin outOfTurn => opens[c] \notin Opening /\ ~Live(c)
  <2>1. \A c \in Rooms : c # b /\ owner[c] = p /\ p \notin outOfTurn => opens[c] \notin Opening
    BY DEF RoomsInv, OneOpening, Opening
  <2> QED BY <1>1, <2>1 DEF RoomsInv, ActiveTrue, Opening, Rooms
<1>5. OnlyMoves(b)
  BY <1>2 DEF OnlyMoves, Opening
<1>6. RoomTrue(b)'
  BY <1>1, <1>2 DEF RoomTrue, Orderly, Live
<1>7. ActiveTrue'
  <2>1. \A q \in Pages : activeRoom'[q] # 0 => owner[activeRoom'[q]] = q /\ opens'[activeRoom'[q]] \notin {"none", "lock", "beat"}
    <3>1. \A c \in Rooms : opens[c] \notin {"none", "lock", "beat"} => opens'[c] \notin {"none", "lock", "beat"}
      BY <1>2
    <3>2. opens'[b] \notin {"none", "lock", "beat"}
      BY <1>2
    <3> QED BY <1>1, <1>2, <3>1, <3>2 DEF RoomsInv, RoomsTypeOK, ActiveTrue
  <2>2. \A c \in Rooms : opens[c] # "none" => owner[c] \in Pages
    BY DEF RoomsInv, RoomTrue
  <2>3. ASSUME NEW c \in Rooms, owner[c] \notin outOfTurn, Waiting(c)' PROVE activeRoom'[owner[c]] = 0
    <3>1. CASE c = b
      BY <1>1, <1>2, <2>3, <3>1 DEF Waiting
    <3>2. CASE c # b
      <4>1. Waiting(c) /\ opens[c] \in Opening /\ opens[c] # "none"
        BY <1>2, <2>3, <3>2 DEF Waiting, Opening
      <4> QED BY <1>2, <1>4, <2>2, <2>3, <3>2, <4>1 DEF RoomsInv, ActiveTrue
    <3> QED BY <3>1, <3>2
  <2>4. ASSUME NEW c \in Rooms, owner[c] \notin outOfTurn, Live(c)'
        PROVE  activeRoom'[owner[c]] = c \/ (opens'[c] = "signal" /\ kind[c] = "host")
    <3>1. CASE c = b
      BY <1>2, <3>1
    <3>2. CASE c # b
      <4>1. Live(c)
        BY <1>2, <2>4, <3>2 DEF Live
      <4>2. opens[c] # "none"
        BY <4>1 DEF RoomsInv, RoomTrue, Live
      <4> QED BY <1>2, <1>4, <2>2, <2>4, <3>2, <4>1, <4>2 DEF RoomsInv, ActiveTrue
    <3> QED BY <3>1, <3>2
  <2> QED BY <1>2, <2>1, <2>3, <2>4 DEF ActiveTrue
<1> QED BY <1>5, <1>6, <1>7, OneMoves

LEMMA TryLockKeeps ==
  ASSUME RoomsInv, NEW b \in Rooms, TryLock(b) \/ LockMissing(b)
  PROVE  RoomsInv'
<1> DEFINE p == owner[b]
<1>1. opens[b] \in {"lock", "beat"} /\ p \in Pages /\ Constructed(b) /\ UNCHANGED <<owner, kind, bc, outOfTurn>>
  BY DEF TryLock, LockMissing, RoomsInv, RoomTrue
<1>2. RoomsTypeOK'
  BY <1>1 DEF TryLock, LockMissing, Constructed, Go, RoomsInv, RoomsTypeOK, Places, States, RoomLinks
<1>3. Live(b)' /\ \A c \in Rooms : (c # b => (Live(c)' <=> Live(c))) /\ (Live(c) => Live(c)')
  BY <1>1 DEF Constructed, RoomsInv, RoomsTypeOK, RoomTrue, Live
<1>4. LockTrue'
  <2>1. CASE TryLock(b)
    <3>1. releaseLock' = releaseLock \cup {p} /\ lock' = lock \cup {p} /\ bare' = bare /\ (p \in releaseLock \/ lock = {})
      BY <2>1 DEF TryLock, LockGranted
    <3>2. releaseLock' \subseteq lock' /\ \A q, r \in lock' : q = r
      BY <3>1 DEF RoomsInv, LockTrue
    <3>3. \A c \in Rooms : Proper(c)' /\ Live(c)' => owner[c] \in releaseLock'
      BY <1>1, <1>3, <3>1 DEF RoomsInv, LockTrue, Proper
    <3>4. \A q \in releaseLock' : \E c \in Rooms : owner[c] = q /\ Live(c)'
      BY <1>3, <3>1 DEF RoomsInv, LockTrue
    <3> QED BY <1>1, <3>2, <3>3, <3>4 DEF LockTrue
  <2>2. CASE LockMissing(b)
    <3>1. UNCHANGED <<releaseLock, lock>> /\ bare' = bare \cup {b}
      BY <2>2 DEF LockMissing
    <3>2. \A c \in Rooms : Proper(c)' /\ Live(c)' => owner[c] \in releaseLock'
      BY <1>1, <1>3, <3>1 DEF RoomsInv, LockTrue, Proper
    <3>3. \A q \in releaseLock' : \E c \in Rooms : owner[c] = q /\ Live(c)'
      BY <1>3, <3>1 DEF RoomsInv, LockTrue
    <3> QED BY <1>1, <3>1, <3>2, <3>3 DEF RoomsInv, LockTrue
  <2> QED BY <2>1, <2>2
<1> QED BY <1>1, <1>2, <1>4, ConstructedKeeps

LEMMA HostOpensKeeps ==
  ASSUME RoomsInv, NEW b \in Rooms, HostOpens(b)
  PROVE  RoomsInv'
<1> DEFINE p == owner[b]
<1>1. opens[b] = "signal" /\ kind[b] = "host" /\ p \in Pages /\ (p \notin outOfTurn => Live(b)) /\ RoomTrue(b)
  BY DEF HostOpens, RoomsInv, RoomTrue, Orderly, Live
<1>2. /\ UNCHANGED <<owner, kind, hostPc, releaseLock, lock, bare, outOfTurn>> /\ bc' = bc \cup {b}
      /\ \A c \in Rooms : c # b => opens'[c] = opens[c] /\ state'[c] = state[c]
      /\ opens'[b] = "done" /\ state'[b] = "on" /\ activeRoom'[p] = b
      /\ \A q \in Pages : q # p => activeRoom'[q] = activeRoom[q]
  BY <1>1 DEF HostOpens, Up, Go, RoomsInv, RoomsTypeOK
<1>3. RoomsTypeOK'
  BY <1>1 DEF HostOpens, Up, Go, RoomsInv, RoomsTypeOK, Places, States
<1>4. \A c \in Rooms : c # b /\ owner[c] = p /\ p \notin outOfTurn => opens[c] \notin Opening /\ ~Live(c)
  BY <1>1, OneLives DEF RoomsInv, OneOpening, Opening
<1>5. OnlyMoves(b)
  BY <1>1, <1>2 DEF OnlyMoves, Opening
<1>6. RoomTrue(b)'
  BY <1>1, <1>2 DEF RoomTrue, Orderly, Live
<1>7. ActiveTrue'
  <2>1. \A q \in Pages : activeRoom'[q] # 0 => owner[activeRoom'[q]] = q /\ opens'[activeRoom'[q]] \notin {"none", "lock", "beat"}
    <3>1. \A c \in Rooms : opens[c] \notin {"none", "lock", "beat"} => opens'[c] \notin {"none", "lock", "beat"}
      BY <1>2
    <3> QED BY <1>1, <1>2, <3>1 DEF RoomsInv, RoomsTypeOK, ActiveTrue
  <2>2. \A c \in Rooms : opens[c] # "none" => owner[c] \in Pages
    BY DEF RoomsInv, RoomTrue
  <2>3. ASSUME NEW c \in Rooms, owner[c] \notin outOfTurn, Waiting(c)' PROVE activeRoom'[owner[c]] = 0
    <3>1. c # b /\ Waiting(c) /\ opens[c] \in Opening /\ opens[c] # "none"
      BY <1>2, <2>3 DEF Waiting, Opening
    <3> QED BY <1>2, <1>4, <2>2, <2>3, <3>1 DEF RoomsInv, ActiveTrue
  <2>4. ASSUME NEW c \in Rooms, owner[c] \notin outOfTurn, Live(c)'
        PROVE  activeRoom'[owner[c]] = c \/ (opens'[c] = "signal" /\ kind[c] = "host")
    <3>1. CASE c = b
      BY <1>2, <3>1
    <3>2. CASE c # b
      <4>1. Live(c)
        BY <1>2, <2>4, <3>2 DEF Live
      <4>2. opens[c] # "none"
        BY <4>1 DEF RoomsInv, RoomTrue, Live
      <4> QED BY <1>2, <1>4, <2>2, <2>4, <3>2, <4>1, <4>2 DEF RoomsInv, ActiveTrue
    <3> QED BY <3>1, <3>2
  <2> QED BY <1>2, <2>1, <2>3, <2>4 DEF ActiveTrue
<1>8. LockTrue'
  <2>1. \A c \in Rooms : (Live(c) => Live(c)') /\ (owner[c] \notin outOfTurn /\ Live(c)' => Live(c))
    BY <1>1, <1>2 DEF Live
  <2> QED BY <1>2, <2>1 DEF RoomsInv, LockTrue, Proper
<1> QED BY <1>3, <1>5, <1>6, <1>7, <1>8, OneMoves

LEMMA FailuresKeep ==
  ASSUME RoomsInv, NEW b \in Rooms, OpenFails(b) \/ ConnectionFails(b) \/ ConnectionDrops(b)
  PROVE  RoomsInv'
<1>1. opens[b] \notin {"none", "lock", "beat"} /\ owner[b] \in Pages /\ UNCHANGED <<owner, kind, lock, bare, outOfTurn>>
  BY DEF OpenFails, ConnectionFails, ConnectionDrops, RoomsInv, RoomTrue, Live
<1>2. owner[b] \in outOfTurn \/ state[b] = "closed" \/ \A c \in Rooms : Live(c) /\ owner[c] = owner[b] => c = b
  <2>1. owner[b] \in outOfTurn \/ state[b] = "closed" \/ Live(b)
    BY DEF OpenFails, ConnectionFails, ConnectionDrops, RoomsInv, RoomTrue, Orderly, Live
  <2> QED BY <2>1, OneLives
<1>3. outOfTurn' = outOfTurn /\ outOfTurn \subseteq Pages
  BY <1>1 DEF RoomsInv, RoomsTypeOK
<1>4. CASE OpenFails(b)
  <2>1. opens' = [opens EXCEPT ![b] = "thrown"] /\ Close(b) /\ "thrown" \in Places /\ "thrown" \notin Opening
    BY <1>4 DEF OpenFails, StopRoom, Go, Places, Opening
  <2>2. activeRoom' \in [Pages -> Rooms \cup {0}]
    BY <1>1, <1>4 DEF OpenFails, StopRoom, RoomsInv, RoomsTypeOK
  <2>3. \A p \in Pages : activeRoom'[p] = activeRoom[p] \/ (p = owner[b] /\ activeRoom[p] = b /\ activeRoom'[p] = 0)
    BY <1>1, <1>4 DEF OpenFails, StopRoom, RoomsInv, RoomsTypeOK
  <2>4. hostPc[b] # "answered"
    BY <1>4 DEF OpenFails, RoomsInv, RoomTrue
  <2> QED BY <1>1, <1>2, <1>3, <2>1, <2>2, <2>3, <2>4, GoesDown
<1>5. CASE ConnectionFails(b) \/ ConnectionDrops(b)
  <2>1. opens[b] = "done" /\ "done" \in Places /\ "done" \notin Opening
    BY <1>5 DEF ConnectionFails, ConnectionDrops, RoomsInv, RoomTrue, Places, Opening
  <2>2. opens' = [opens EXCEPT ![b] = "done"]
    BY <1>5, <2>1 DEF ConnectionFails, ConnectionDrops, RoomsInv, RoomsTypeOK
  <2>3. Close(b) \/ (state[b] # "closed" /\ state' = [state EXCEPT ![b] = "failed"] /\ Teardown(b))
    BY <1>5 DEF ConnectionFails, ConnectionDrops
  <2>4. activeRoom' = activeRoom /\ activeRoom \in [Pages -> Rooms \cup {0}]
    BY <1>5 DEF ConnectionFails, ConnectionDrops, RoomsInv, RoomsTypeOK
  <2> QED BY <1>1, <1>2, <1>3, <2>1, <2>2, <2>3, <2>4, GoesDown
<1> QED BY <1>4, <1>5

\* A page that is in order after it outOfTurn nothing has no room opening, and no
\* other live than its active one.
LEMMA PageRests ==
  ASSUME RoomsInv, NEW p \in Pages, Crosses(p), p \notin outOfTurn', NEW c \in Rooms, owner[c] = p, opens[c] # "none"
  PROVE  p \notin outOfTurn /\ opens[c] \notin Opening /\ ~Waiting(c) /\ (Live(c) => activeRoom[p] = c)
<1>1. p \notin outOfTurn /\ opens[c] \notin Opening
  BY DEF Crosses, Asked
<1> QED BY <1>1 DEF RoomsInv, ActiveTrue, Waiting, Opening

LEMMA CrossesGrows ==
  ASSUME RoomsInv, NEW p \in Pages, Crosses(p)
  PROVE  outOfTurn \subseteq outOfTurn' /\ outOfTurn' \subseteq Pages /\ outOfTurn' \subseteq outOfTurn \cup {p}
BY DEF Crosses, RoomsInv, RoomsTypeOK

LEMMA StopKeeps ==
  ASSUME RoomsInv, NEW p \in Pages, Stop(p)
  PROVE  RoomsInv'
<1> DEFINE a == activeRoom[p]
<1>1. a \in Rooms /\ owner[a] = p /\ opens[a] \notin {"none", "lock", "beat"} /\ Crosses(p)
  BY DEF Stop, RoomsInv, RoomsTypeOK, ActiveTrue
<1>2. p \notin outOfTurn' => opens[a] \notin Opening
  BY <1>1, PageRests
<1>3. p \notin outOfTurn' => \A c \in Rooms : Live(c) /\ owner[c] = p => c = a
  <2>1. \A c \in Rooms : Live(c) => opens[c] # "none"
    BY DEF RoomsInv, RoomTrue, Live
  <2> QED BY <1>1, <2>1, PageRests
<1>4. opens[a] \in Places /\ opens' = [opens EXCEPT ![a] = opens[a]]
  BY <1>1 DEF Stop, RoomsInv, RoomsTypeOK
<1>5. Close(a) /\ activeRoom' \in [Pages -> Rooms \cup {0}]
  BY <1>1 DEF Stop, StopRoom, RoomsInv, RoomsTypeOK
<1>6. \A q \in Pages : activeRoom'[q] = activeRoom[q] \/ (q = owner[a] /\ activeRoom[q] = a /\ activeRoom'[q] = 0)
  BY <1>1 DEF Stop, StopRoom, RoomsInv, RoomsTypeOK
<1>7. UNCHANGED <<owner, kind, lock, bare>>
  BY DEF Stop
<1>8. hostPc[a] = "answered" => opens[a] = "done"
  BY <1>1 DEF RoomsInv, RoomTrue
<1>9. outOfTurn \subseteq outOfTurn' /\ outOfTurn' \subseteq Pages
  BY <1>1, CrossesGrows
<1> HIDE DEF a
<1> QED BY <1>1, <1>2, <1>3, <1>4, <1>5, <1>6, <1>7, <1>8, <1>9, GoesDown

LEMMA OpenKeeps ==
  ASSUME RoomsAssumption, RoomsInv, NEW p \in Pages, NEW k \in RoomKinds, Open(p, k)
  PROVE  RoomsInv'
<1> DEFINE b == Cardinality(Asked) + 1
           a == activeRoom[p]
<1>1. PICK n \in Nat : Asked = 1 .. n
  BY DEF RoomsInv, AskedInOrder
<1>2. b = n + 1
  <2>1. Cardinality(1 .. n) = IF 1 > n THEN 0 ELSE n - 1 + 1
    BY <1>1, FS_Interval
  <2> QED BY <1>1, <2>1
<1>3. b \in Rooms /\ opens[b] = "none"
  BY <1>1, <1>2 DEF Open, Asked
<1>4. owner[b] = "none" /\ state[b] = "none" /\ hostPc[b] = "none" /\ b \notin bc
  BY <1>3 DEF RoomsInv, RoomTrue
<1>5. a \in Rooms \cup {0} /\ (a # 0 => a # b /\ owner[a] = p /\ opens[a] \notin {"none", "lock", "beat"})
  BY <1>3 DEF RoomsInv, RoomsTypeOK, ActiveTrue
<1>6. /\ opens' = [opens EXCEPT ![b] = "lock"] /\ owner' = [owner EXCEPT ![b] = p] /\ kind' = [kind EXCEPT ![b] = k]
      /\ lock' = lock /\ bare' = bare /\ Crosses(p)
  BY DEF Open, Go
<1> HIDE DEF b
<1>7. /\ opens'[b] = "lock" /\ owner'[b] = p
      /\ \A c \in Rooms : c # b => opens'[c] = opens[c] /\ owner'[c] = owner[c] /\ kind'[c] = kind[c]
  BY <1>3, <1>6 DEF RoomsInv, RoomsTypeOK
<1>8. /\ activeRoom' \in [Pages -> Rooms \cup {0}] /\ activeRoom'[p] = 0
      /\ \A q \in Pages : q # p => activeRoom'[q] = activeRoom[q]
  <2>1. CASE a = 0
    BY <2>1 DEF Open, RoomsInv, RoomsTypeOK
  <2>2. CASE a # 0
    BY <1>5, <2>2 DEF Open, StopRoom, RoomsInv, RoomsTypeOK
  <2> QED BY <2>1, <2>2
<1>9. /\ state' \in [Rooms -> States] /\ hostPc' \in [Rooms -> RoomLinks] /\ bc' \subseteq bc
      /\ releaseLock' \subseteq releaseLock /\ releaseLock \subseteq releaseLock' \cup {p}
      /\ \A c \in Rooms : c # a => state'[c] = state[c] /\ hostPc'[c] = hostPc[c] /\ (c \in bc' <=> c \in bc)
      /\ a # 0 => state'[a] = "closed" /\ a \notin bc'
      /\ a # 0 => hostPc'[a] \in {"none", "closed"} \/ (hostPc'[a] = hostPc[a] /\ state[a] = "closed")
      /\ a # 0 => p \notin releaseLock' \/ ~Live(a)
  <2>1. CASE a = 0
    BY <1>5, <2>1 DEF Open, RoomsInv, RoomsTypeOK, Rooms
  <2>2. CASE a # 0 /\ state[a] = "closed"
    <3>1. a \notin bc
      BY <1>5, <2>2 DEF RoomsInv, RoomTrue
    <3>2. UNCHANGED <<state, bc, hostPc, releaseLock>>
      BY <2>2 DEF Open, StopRoom, Close
    <3> QED BY <2>2, <3>1, <3>2 DEF RoomsInv, RoomsTypeOK, Live
  <2>3. CASE a # 0 /\ state[a] # "closed"
    <3>1. state' = [state EXCEPT ![a] = "closed"] /\ Teardown(a)
      BY <2>3 DEF Open, StopRoom, Close
    <3> QED BY <1>5, <2>3, <3>1 DEF Teardown, RoomsInv, RoomsTypeOK, States, RoomLinks
  <2> QED BY <2>1, <2>2, <2>3
<1>10. b \in Nat /\ b # 0 /\ outOfTurn \subseteq outOfTurn' /\ outOfTurn' \subseteq Pages /\ outOfTurn' \subseteq outOfTurn \cup {p}
  BY <1>1, <1>2, <1>6, CrossesGrows
<1>11. b # a
  BY <1>5, <1>10
<1>12. RoomsTypeOK'
  BY <1>3, <1>6, <1>8, <1>9, <1>10 DEF RoomsInv, RoomsTypeOK, Places, RoomKinds
<1>13. AskedInOrder'
  <2>1. Asked' = Asked \cup {b}
    BY <1>3, <1>7 DEF Asked
  <2>2. Asked' = 1 .. (n + 1) /\ n + 1 \in Nat
    BY <1>1, <1>2, <2>1
  <2> QED BY <2>2 DEF AskedInOrder
<1>14. \A c \in Rooms : c # b /\ owner[c] = p /\ p \notin outOfTurn' => opens[c] \notin Opening /\ ~Waiting(c) /\ (Live(c) => c = a)
  <2>1. \A c \in Rooms : owner[c] = p => opens[c] # "none"
    BY DEF RoomsInv, RoomTrue, RoomsAssumption
  <2> QED BY <1>6, <2>1, PageRests
<1>15. ASSUME NEW c \in Rooms PROVE RoomTrue(c)'
  <2>1. RoomTrue(c)
    BY DEF RoomsInv
  <2>2. CASE c = b
    BY <1>4, <1>7, <1>9, <1>11, <2>2 DEF RoomTrue, Orderly, Live
  <2>3. CASE c = a
    <3>1. opens'[c] = opens[c] /\ owner'[c] = p /\ opens[c] \notin {"none", "lock", "beat"} /\ (p \notin outOfTurn' => opens[c] \notin Opening)
      BY <1>5, <1>7, <1>11, <1>14, <2>3 DEF Rooms
    <3>2. hostPc'[c] = "answered" => opens[c] = "done"
      BY <1>9, <2>1, <2>3 DEF RoomTrue, Rooms
    <3>3. p \notin outOfTurn' => hostPc'[c] \notin {"open", "answered"}
      BY <1>5, <1>9, <1>10, <2>1, <2>3 DEF RoomTrue, Orderly, Live, Rooms
    <3> QED BY <1>9, <2>1, <2>3, <3>1, <3>2, <3>3 DEF RoomTrue, Orderly, Live, Opening, Rooms
  <2>4. CASE c # a /\ c # b
    BY <1>7, <1>9, <1>10, <2>1, <2>4 DEF RoomTrue, Orderly, Live
  <2> QED BY <2>2, <2>3, <2>4
<1>16. OneOpening'
  <2>1. \A c \in Rooms : opens'[c] \in Opening /\ c # b /\ owner'[c] = p => p \in outOfTurn'
    BY <1>7, <1>14
  <2> QED BY <1>7, <1>10, <2>1 DEF RoomsInv, OneOpening
<1>17. \A c \in Rooms : Live(c)' => c # b /\ c # a /\ Live(c) /\ owner'[c] = owner[c] /\ (owner[c] = p => p \in outOfTurn')
  BY <1>4, <1>7, <1>9, <1>11, <1>14 DEF Live, Rooms
<1>18. ActiveTrue'
  <2>1. \A c \in Rooms : opens[c] # "none" => owner[c] \in Pages
    BY DEF RoomsInv, RoomTrue
  <2>2. \A q \in Pages : activeRoom'[q] # 0 => owner'[activeRoom'[q]] = q /\ opens'[activeRoom'[q]] \notin {"none", "lock", "beat"}
    BY <1>3, <1>7, <1>8 DEF RoomsInv, RoomsTypeOK, ActiveTrue
  <2>3. ASSUME NEW c \in Rooms, owner'[c] \notin outOfTurn', Waiting(c)' PROVE activeRoom'[owner'[c]] = 0
    <3>1. CASE c = b
      BY <1>7, <1>8, <3>1
    <3>2. CASE c # b
      <4>1. Waiting(c) /\ opens[c] # "none" /\ owner'[c] = owner[c]
        BY <1>7, <2>3, <3>2 DEF Waiting
      <4> QED BY <1>8, <1>10, <1>14, <2>1, <2>3, <3>2, <4>1 DEF RoomsInv, ActiveTrue
    <3> QED BY <3>1, <3>2
  <2>4. ASSUME NEW c \in Rooms, owner'[c] \notin outOfTurn', Live(c)'
        PROVE  activeRoom'[owner'[c]] = c \/ (opens'[c] = "signal" /\ kind'[c] = "host")
    <3>1. c # b /\ Live(c) /\ owner[c] # p /\ owner'[c] = owner[c]
      BY <1>17, <2>4
    <3>2. owner[c] \in Pages
      BY <2>1, <3>1 DEF RoomsInv, RoomTrue, Live
    <3> QED BY <1>7, <1>8, <1>10, <2>4, <3>1, <3>2 DEF RoomsInv, ActiveTrue
  <2> QED BY <2>2, <2>3, <2>4 DEF ActiveTrue
<1>19. LockTrue'
  <2>1. \A c \in Rooms : Proper(c)' /\ Live(c)' => Proper(c) /\ Live(c) /\ owner[c] # p /\ owner'[c] = owner[c]
    BY <1>6, <1>10, <1>17 DEF Proper
  <2>2. ASSUME NEW q \in releaseLock' PROVE \E c \in Rooms : owner'[c] = q /\ Live(c)'
    <3>1. PICK c \in Rooms : owner[c] = q /\ Live(c)
      BY <1>9, <2>2 DEF RoomsInv, LockTrue
    <3>2. c # b /\ c # a
      BY <1>4, <1>5, <1>9, <2>2, <3>1 DEF Live, Rooms
    <3>3. owner'[c] = q /\ Live(c)'
      BY <1>7, <1>9, <3>1, <3>2 DEF Live
    <3> QED BY <3>3
  <2> QED BY <1>6, <1>9, <2>1, <2>2 DEF RoomsInv, LockTrue
<1> QED BY <1>12, <1>13, <1>15, <1>16, <1>18, <1>19 DEF RoomsInv

LEMMA PageDiesKeeps ==
  ASSUME RoomsAssumption, RoomsInv, NEW p \in Pages, PageDies(p)
  PROVE  RoomsInv'
<1>1. \A c \in Rooms : owner[c] = p => opens[c] # "none"
  BY DEF RoomsInv, RoomTrue, RoomsAssumption
<1>2. UNCHANGED <<owner, kind, bare>> /\ releaseLock' = releaseLock \ {p} /\ lock' = lock \ {p} /\ outOfTurn' = outOfTurn \ {p}
  BY DEF PageDies
<1>3. \A c \in Rooms :
        IF owner[c] = p THEN opens'[c] = "dead" /\ state'[c] = "closed" /\ hostPc'[c] \in {"none", "closed"} /\ c \notin bc'
        ELSE opens'[c] = opens[c] /\ state'[c] = state[c] /\ hostPc'[c] = hostPc[c] /\ (c \in bc' <=> c \in bc)
  BY DEF PageDies, RoomsInv, RoomsTypeOK
<1>4. activeRoom' \in [Pages -> Rooms \cup {0}] /\ activeRoom'[p] = 0 /\ \A q \in Pages : q # p => activeRoom'[q] = activeRoom[q]
  BY DEF PageDies, RoomsInv, RoomsTypeOK
<1>5. RoomsTypeOK'
  <2>1. opens' \in [Rooms -> Places]
    BY DEF PageDies, RoomsInv, RoomsTypeOK, Places
  <2>2. state' \in [Rooms -> States]
    BY DEF PageDies, RoomsInv, RoomsTypeOK, States
  <2>3. hostPc' \in [Rooms -> RoomLinks]
    BY DEF PageDies, RoomsInv, RoomsTypeOK, RoomLinks
  <2> QED BY <1>2, <1>4, <2>1, <2>2, <2>3 DEF PageDies, RoomsInv, RoomsTypeOK
<1>6. AskedInOrder'
  <2>1. Asked' = Asked
    BY <1>1, <1>3 DEF Asked
  <2> QED BY <2>1 DEF RoomsInv, AskedInOrder
<1>7. ASSUME NEW c \in Rooms PROVE RoomTrue(c)'
  <2>1. RoomTrue(c)
    BY DEF RoomsInv
  <2>2. CASE owner[c] = p
    <3>1. /\ owner'[c] = p /\ opens'[c] = "dead" /\ state'[c] = "closed"
          /\ hostPc'[c] \in {"none", "closed"} /\ c \notin bc'
      BY <1>2, <1>3, <2>2
    <3> QED BY <3>1 DEF RoomTrue, Orderly, Live
  <2>3. CASE owner[c] # p
    <3>1. /\ owner'[c] = owner[c] /\ opens'[c] = opens[c] /\ state'[c] = state[c] /\ hostPc'[c] = hostPc[c]
          /\ (c \in bc' <=> c \in bc) /\ (owner[c] \in outOfTurn' <=> owner[c] \in outOfTurn)
      BY <1>2, <1>3, <2>3
    <3> QED BY <2>1, <3>1 DEF RoomTrue, Orderly, Live
  <2> QED BY <2>2, <2>3
<1>8. OneOpening'
  <2>1. \A c \in Rooms : opens'[c] \in Opening => opens[c] \in Opening /\ owner[c] # p
    BY <1>3 DEF Opening
  <2> QED BY <1>2, <2>1 DEF RoomsInv, OneOpening
<1>9. \A c \in Rooms : opens[c] # "none" => owner[c] \in Pages
  BY DEF RoomsInv, RoomTrue
<1>10. \A q \in Pages : activeRoom'[q] # 0 => owner[activeRoom'[q]] = q /\ opens'[activeRoom'[q]] \notin {"none", "lock", "beat"}
  BY <1>3, <1>4 DEF RoomsInv, RoomsTypeOK, ActiveTrue
<1>11. \A c \in Rooms : owner[c] \notin outOfTurn' /\ Waiting(c)' => activeRoom'[owner[c]] = 0
  BY <1>2, <1>3, <1>4, <1>9 DEF RoomsInv, ActiveTrue, Waiting
<1>12. \A c \in Rooms : (Live(c)' => Live(c) /\ owner[c] # p /\ owner[c] \in Pages) /\ (owner[c] # p /\ Live(c) => Live(c)')
  BY <1>3, <1>9 DEF RoomsInv, RoomTrue, Live
<1>13. \A c \in Rooms : owner[c] \notin outOfTurn' /\ Live(c)' => activeRoom'[owner[c]] = c \/ (opens'[c] = "signal" /\ kind[c] = "host")
  BY <1>2, <1>3, <1>4, <1>12 DEF RoomsInv, ActiveTrue
<1>14. ActiveTrue'
  BY <1>2, <1>10, <1>11, <1>13 DEF ActiveTrue
<1>15. LockTrue'
  <2>1. \A c \in Rooms : Proper(c)' /\ Live(c)' => Proper(c) /\ Live(c) /\ owner[c] # p
    BY <1>2, <1>12 DEF Proper
  <2> QED BY <1>2, <1>12, <2>1 DEF RoomsInv, LockTrue
<1> QED BY <1>5, <1>6, <1>7, <1>8, <1>14, <1>15 DEF RoomsInv

LEMMA FreedKeeps ==
  ASSUME RoomsInv, Freed
  PROVE  RoomsInv'
<1>1. UNCHANGED <<owner, kind, opens, state, bc, hostPc, activeRoom, releaseLock, bare, outOfTurn>> /\ lock' = lock \cap releaseLock
  BY DEF Freed
<1>2. LockTrue'
  BY <1>1 DEF RoomsInv, LockTrue, Proper, Live
<1> QED BY <1>1, <1>2 DEF RoomsInv, RoomsTypeOK, AskedInOrder, Asked, RoomTrue, Orderly, Live, OneOpening, ActiveTrue, Waiting

LEMMA RoomsStutter ==
  ASSUME RoomsInv, UNCHANGED vars
  PROVE  RoomsInv'
BY DEF vars, RoomsInv, RoomsTypeOK, AskedInOrder, Asked, RoomTrue, Orderly, Live, OneOpening, ActiveTrue, Waiting, LockTrue, Proper

\* One bridge per origin (net-bridge.ts, tryLock, teardown), whatever its pages
\* do and in whatever order: of the rooms that took the lock, on pages that never
\* stopped or opened a room while another of theirs was opening, one at most is
\* on the LAN and its page holds the lock, whoever else goes without a lock or
\* out of order; a page holds the lock no longer than it has a room; and the
\* guest of a page that is in order reads "on" exactly while it is on the LAN.
THEOREM OneBridgePerOrigin ==
  ASSUME RoomsAssumption
  PROVE  Spec => []BridgeTrue
<1>1. ASSUME RoomsInv, [Next]_vars PROVE RoomsInv'
  <2>1. CASE \E p \in Pages : Stop(p)
    BY <1>1, <2>1, StopKeeps
  <2>2. CASE \E p \in Pages : PageDies(p)
    BY <1>1, <2>2, PageDiesKeeps
  <2>3. CASE \E p \in Pages, k \in RoomKinds : Open(p, k)
    BY <1>1, <2>3, OpenKeeps
  <2>4. CASE \E b \in Rooms : TryLock(b) \/ LockMissing(b)
    BY <1>1, <2>4, TryLockKeeps
  <2>5. CASE \E b \in Rooms : HostOpens(b)
    BY <1>1, <2>5, HostOpensKeeps
  <2>6. CASE \E b \in Rooms : OpenFails(b) \/ ConnectionFails(b) \/ ConnectionDrops(b)
    BY <1>1, <2>6, FailuresKeep
  <2>7. CASE \E b \in Rooms : \/ Beat(b) \/ Refused(b) \/ ManualHostOpens(b) \/ MakeOffer(b)
                             \/ Offered(b) \/ Answered(b) \/ LanOpens(b)
    BY <1>1, <2>7, QuietSteps
  <2>8. CASE Freed
    BY <1>1, <2>8, FreedKeeps
  <2>9. CASE UNCHANGED vars
    BY <1>1, <2>9, RoomsStutter
  <2> QED BY <1>1, <2>1, <2>2, <2>3, <2>4, <2>5, <2>6, <2>7, <2>8, <2>9 DEF Next, RoomKinds
<1> QED BY <1>1, RoomsInit, InvGivesBridgeTrue, PTL DEF Spec

----------------------------------------------------------------------------
(* The host's switch: whoever joins again, and whatever is lost or late, a  *)
(* machine hears a frame once at most and never its own.                    *)

Spots == {<<"hub">>} \cup {<<"up", p>> : p \in Peers} \cup {<<"down", p>> : p \in Peers}

AtHub(f) == <<f, <<"hub">>>> \in air
GoesUp(f, p) == <<f, <<"up", p>>>> \in air
GoesOut(f, p) == <<f, <<"down", p>>>> \in air
Kin(p, q) == p # q /\ Home[p] = Home[q]

SwitchTypeOK ==
  /\ ports \in [Peers -> {"none", "answered", "open"}] /\ parted \subseteq Peers
  /\ frame \in Seq([src : Stations, dst : Stations \cup {Everyone}]) /\ Len(frame) <= MaxFrame
  /\ air \subseteq Frames \X Spots
  /\ caught \in [(1 .. MaxFrame) \X Stations -> Nat]

\* The host takes a machine for one member: of its peer ids only the last
\* has a connection that is not gone.
OneSeat == \A p, q \in Peers \ parted : Kin(p, q) => ports[p] = "none" \/ ports[q] = "none"

\* A frame not sent yet was heard by nobody.
Unsent == \A f \in 1 .. MaxFrame, s \in Stations : f > Len(frame) => caught[<<f, s>>] = 0

\* On the hub: no member has it or has heard it.
HubTrue(f) ==
  AtHub(f) =>
    /\ frame[f].src \in Attached
    /\ \A p \in Peers : ~GoesUp(f, p) /\ ~GoesOut(f, p)
    /\ \A s \in Stations \ Attached : caught[<<f, s>>] = 0

\* On its way to the switch: from its machine's only seat, heard by nobody.
UpTrue(f) ==
  \A p \in Peers : GoesUp(f, p) =>
    /\ frame[f].src = Home[p] /\ ports[p] = "open"
    /\ \A q \in Peers : ~GoesOut(f, q) /\ (GoesUp(f, q) => q = p)
    /\ \A q \in Peers \ parted : Kin(p, q) => ports[q] = "none"
    /\ \A s \in Stations : caught[<<f, s>>] = 0

\* On its way from the switch: to a machine that did not send it nor hear it.
DownTrue(f) ==
  \A p \in Peers : GoesOut(f, p) =>
    /\ p \notin parted /\ ports[p] = "open"
    /\ frame[f].src # Home[p] /\ caught[<<f, Home[p]>>] = 0

SwitchInv ==
  /\ SwitchTypeOK /\ OneSeat /\ Unsent /\ HeardOnce
  /\ \A f \in Frames : HubTrue(f) /\ UpTrue(f) /\ DownTrue(f)


LEMMA SpotsApart ==
  ASSUME NEW f, NEW g, NEW p, NEW q
  PROVE  /\ <<f, <<"hub">>>> # <<g, <<"up", p>>>> /\ <<f, <<"hub">>>> # <<g, <<"down", p>>>>
         /\ <<f, <<"up", p>>>> # <<g, <<"down", q>>>>
         /\ <<f, <<"up", p>>>> = <<g, <<"up", q>>>> => f = g /\ p = q
         /\ <<f, <<"down", p>>>> = <<g, <<"down", q>>>> => f = g /\ p = q
         /\ <<f, <<"hub">>>> = <<g, <<"hub">>>> => f = g
OBVIOUS

\* Nothing new on its way, and nobody hears anything.
LEMMA LessOnItsWay ==
  ASSUME SwitchInv, UNCHANGED <<frame, caught>>, air' \subseteq air,
         ports' \in [Peers -> {"none", "answered", "open"}], parted' \subseteq Peers,
         OneSeat',
         \A f \in Frames, p \in Peers : GoesUp(f, p)' => 
            ports'[p] = "open" /\ \A q \in Peers \ parted' : Kin(p, q) => ports'[q] = "none",
         \A f \in Frames, p \in Peers : GoesOut(f, p)' => p \notin parted' /\ ports'[p] = "open"
  PROVE  SwitchInv'
<1>1. SwitchTypeOK'
  BY DEF SwitchInv, SwitchTypeOK, Frames
<1>2. Unsent' /\ HeardOnce'
  BY DEF SwitchInv, Unsent, HeardOnce, Frames
<1>3. ASSUME NEW f \in Frames  PROVE HubTrue(f)' /\ UpTrue(f)' /\ DownTrue(f)'
  <2>1. /\ AtHub(f)' => AtHub(f)
        /\ \A p \in Peers : (GoesUp(f, p)' => GoesUp(f, p)) /\ (GoesOut(f, p)' => GoesOut(f, p))
    BY DEF AtHub, GoesUp, GoesOut
  <2>2. HubTrue(f) /\ UpTrue(f) /\ DownTrue(f)
    BY <1>3 DEF SwitchInv
  <2>3. HubTrue(f)'
    BY <2>1, <2>2 DEF HubTrue
  <2>4. UpTrue(f)'
    BY <2>1, <2>2, <1>3 DEF UpTrue
  <2>5. DownTrue(f)'
    BY <2>1, <2>2, <1>3 DEF DownTrue
  <2> QED BY <2>3, <2>4, <2>5
<1> QED BY <1>1, <1>2, <1>3 DEF SwitchInv, Frames

\* A machine joins by a new peer id: what it sent by the old is in, or lost.
LEMMA AcceptKeeps ==
  ASSUME SwitchInv, NEW p \in Peers, Accept(p)
  PROVE  SwitchInv'
<1>1. /\ ports[p] = "none" /\ p \notin parted /\ UNCHANGED <<parted, macs, frame, caught>>
      /\ \A q \in Peers : Home[q] = Home[p] /\ ports[q] # "none" => q \in parted
      /\ ports' = [ports EXCEPT ![p] = "answered"]
      /\ air' = {a \in air : \A q \in parted : Home[q] = Home[p] => a[2] # <<"up", q>>}
  BY DEF Accept
<1>2. ports \in [Peers -> {"none", "answered", "open"}] /\ parted \subseteq Peers
  BY DEF SwitchInv, SwitchTypeOK
<1>3. ports'[p] = "answered" /\ \A q \in Peers \ {p} : ports'[q] = ports[q]
  BY <1>1, <1>2
<1>4. OneSeat'
  BY <1>1, <1>2, <1>3 DEF SwitchInv, OneSeat, Kin
<1>5. ASSUME NEW f \in Frames, NEW q \in Peers, GoesUp(f, q)'
      PROVE  ports'[q] = "open" /\ \A r \in Peers \ parted' : Kin(q, r) => ports'[r] = "none"
  <2>1. GoesUp(f, q) /\ ~(q \in parted /\ Home[q] = Home[p])
    <3>1. <<f, <<"up", q>>>> \in air /\ \A r \in parted : Home[r] = Home[p] => <<f, <<"up", q>>>>[2] # <<"up", r>>
      BY <1>1, <1>5 DEF GoesUp
    <3> QED BY <3>1 DEF GoesUp
  <2>2. ports[q] = "open" /\ \A r \in Peers \ parted : Kin(q, r) => ports[r] = "none"
    BY <2>1 DEF SwitchInv, UpTrue
  <2>3. q # p /\ ~Kin(q, p)
    BY <1>1, <2>1, <2>2 DEF Kin
  <2> QED BY <1>1, <1>3, <2>2, <2>3
<1>6. ASSUME NEW f \in Frames, NEW q \in Peers, GoesOut(f, q)'
      PROVE  q \notin parted' /\ ports'[q] = "open"
  <2>1. GoesOut(f, q)
    BY <1>1, <1>6 DEF GoesOut
  <2>2. q \notin parted /\ ports[q] = "open"
    BY <2>1 DEF SwitchInv, DownTrue
  <2> QED BY <1>1, <1>3, <2>2
<1>7. air' \subseteq air /\ ports' \in [Peers -> {"none", "answered", "open"}] /\ parted' \subseteq Peers
  BY <1>1, <1>2
<1> QED BY <1>1, <1>4, <1>5, <1>6, <1>7, LessOnItsWay

\* Its channel comes.
LEMMA AttachPeerLanKeeps ==
  ASSUME SwitchInv, NEW p \in Peers, AttachPeerLan(p)
  PROVE  SwitchInv'
<1>1. /\ ports[p] = "answered" /\ p \notin parted /\ UNCHANGED <<parted, macs, frame, air, caught>>
      /\ ports' = [ports EXCEPT ![p] = "open"]
  BY DEF AttachPeerLan
<1>2. ports \in [Peers -> {"none", "answered", "open"}] /\ parted \subseteq Peers
  BY DEF SwitchInv, SwitchTypeOK
<1>3. ports'[p] = "open" /\ \A q \in Peers \ {p} : ports'[q] = ports[q]
  BY <1>1, <1>2
<1>4. OneSeat'
  BY <1>1, <1>2, <1>3 DEF SwitchInv, OneSeat, Kin
<1>5. ASSUME NEW f \in Frames, NEW q \in Peers, GoesUp(f, q)'
      PROVE  ports'[q] = "open" /\ \A r \in Peers \ parted' : Kin(q, r) => ports'[r] = "none"
  <2>1. GoesUp(f, q)
    BY <1>1, <1>5 DEF GoesUp
  <2>2. ports[q] = "open" /\ \A r \in Peers \ parted : Kin(q, r) => ports[r] = "none"
    BY <2>1 DEF SwitchInv, UpTrue
  <2> QED BY <1>1, <1>3, <2>2
<1>6. ASSUME NEW f \in Frames, NEW q \in Peers, GoesOut(f, q)'
      PROVE  q \notin parted' /\ ports'[q] = "open"
  <2>1. GoesOut(f, q)
    BY <1>1, <1>6 DEF GoesOut
  <2> QED BY <1>1, <1>3, <2>1 DEF SwitchInv, DownTrue
<1>7. air' \subseteq air /\ ports' \in [Peers -> {"none", "answered", "open"}] /\ parted' \subseteq Peers
  BY <1>1, <1>2
<1> QED BY <1>1, <1>4, <1>5, <1>6, <1>7, LessOnItsWay

\* A member goes, and what was on its way to it.
LEMMA PartKeeps ==
  ASSUME SwitchInv, NEW p \in Peers, Part(p)
  PROVE  SwitchInv'
<1>1. /\ UNCHANGED <<ports, macs, frame, caught>> /\ parted' = parted \cup {p}
      /\ air' = air \ {<<f, <<"down", p>>>> : f \in Frames}
  BY DEF Part
<1>2. ports \in [Peers -> {"none", "answered", "open"}] /\ parted \subseteq Peers
  BY DEF SwitchInv, SwitchTypeOK
<1>3. OneSeat'
  BY <1>1, <1>2 DEF SwitchInv, OneSeat, Kin
<1>4. ASSUME NEW f \in Frames, NEW q \in Peers, GoesUp(f, q)'
      PROVE  ports'[q] = "open" /\ \A r \in Peers \ parted' : Kin(q, r) => ports'[r] = "none"
  <2>1. GoesUp(f, q)
    BY <1>1, <1>4 DEF GoesUp
  <2>2. ports[q] = "open" /\ \A r \in Peers \ parted : Kin(q, r) => ports[r] = "none"
    BY <2>1 DEF SwitchInv, UpTrue
  <2> QED BY <1>1, <2>2
<1>5. ASSUME NEW f \in Frames, NEW q \in Peers, GoesOut(f, q)'
      PROVE  q \notin parted' /\ ports'[q] = "open"
  <2>1. GoesOut(f, q) /\ q # p
    BY <1>1, <1>5 DEF GoesOut
  <2>2. q \notin parted /\ ports[q] = "open"
    BY <2>1 DEF SwitchInv, DownTrue
  <2> QED BY <1>1, <2>1, <2>2
<1>6. air' \subseteq air /\ ports' \in [Peers -> {"none", "answered", "open"}] /\ parted' \subseteq Peers
  BY <1>1, <1>2
<1> QED BY <1>1, <1>3, <1>4, <1>5, <1>6, LessOnItsWay

\* The host notices, and its connection delivers nothing more.
LEMMA DropPeerKeeps ==
  ASSUME SwitchInv, NEW p \in Peers, DropPeer(p)
  PROVE  SwitchInv'
<1>1. /\ UNCHANGED <<parted, frame, caught>> /\ p \in parted
      /\ ports' = [ports EXCEPT ![p] = "none"] /\ air' = {a \in air : a[2] # <<"up", p>>}
  BY DEF DropPeer
<1>2. ports \in [Peers -> {"none", "answered", "open"}] /\ parted \subseteq Peers
  BY DEF SwitchInv, SwitchTypeOK
<1>3. ports'[p] = "none" /\ \A q \in Peers \ {p} : ports'[q] = ports[q]
  BY <1>1, <1>2
<1>4. OneSeat'
  BY <1>1, <1>2, <1>3 DEF SwitchInv, OneSeat, Kin
<1>5. ASSUME NEW f \in Frames, NEW q \in Peers, GoesUp(f, q)'
      PROVE  ports'[q] = "open" /\ \A r \in Peers \ parted' : Kin(q, r) => ports'[r] = "none"
  <2>1. GoesUp(f, q) /\ q # p
    <3>1. <<f, <<"up", q>>>> \in air /\ <<f, <<"up", q>>>>[2] # <<"up", p>>
      BY <1>1, <1>5 DEF GoesUp
    <3> QED BY <3>1 DEF GoesUp
  <2>2. ports[q] = "open" /\ \A r \in Peers \ parted : Kin(q, r) => ports[r] = "none"
    BY <2>1 DEF SwitchInv, UpTrue
  <2> QED BY <1>1, <1>3, <2>1, <2>2
<1>6. ASSUME NEW f \in Frames, NEW q \in Peers, GoesOut(f, q)'
      PROVE  q \notin parted' /\ ports'[q] = "open"
  <2>1. GoesOut(f, q)
    BY <1>1, <1>6 DEF GoesOut
  <2>2. q \notin parted /\ ports[q] = "open"
    BY <2>1 DEF SwitchInv, DownTrue
  <2> QED BY <1>1, <1>3, <2>2
<1>7. air' \subseteq air /\ ports' \in [Peers -> {"none", "answered", "open"}] /\ parted' \subseteq Peers
  BY <1>1, <1>2
<1> QED BY <1>1, <1>4, <1>5, <1>6, <1>7, LessOnItsWay

\* What is sent to the members is new to them: their ports are open, and what
\* is on its way through the switch is on its way nowhere else.
LEMMA Sent ==
  ASSUME NEW f, NEW ps, NEW a, a \in SendTo(f, ps)
  PROVE  \E p \in ps \ parted : a = <<f, <<"down", p>>>>
BY DEF SendTo

\* The hub's frame goes out to the members it is sent to.
LEMMA SwitchHubKeeps ==
  ASSUME SwitchInv, SwitchAssumption, NEW f \in Frames, SwitchHub(f)
  PROVE  SwitchInv'
<1>0. Home \in [Peers -> Stations \ Attached]
  BY DEF SwitchAssumption
<1>1. PICK ps \in SUBSET OpenPorts : air' = (air \ {<<f, <<"hub">>>>}) \cup SendTo(f, ps)
  BY DEF SwitchHub, Flood
<1>2. AtHub(f) /\ UNCHANGED <<ports, parted, frame, caught>>
  BY DEF SwitchHub, AtHub
<1>3. \A p \in ps : p \in Peers /\ ports[p] = "open"
  BY <1>1 DEF OpenPorts
<1>4. ASSUME NEW g \in Frames, NEW p \in Peers
      PROVE  /\ AtHub(g)' => AtHub(g) /\ g # f
             /\ GoesUp(g, p)' => GoesUp(g, p)
             /\ GoesOut(g, p)' => GoesOut(g, p) \/ (g = f /\ p \in ps \ parted)
  BY <1>1, Sent, SpotsApart DEF AtHub, GoesUp, GoesOut
<1>4a. \A g \in Frames : AtHub(g)' => AtHub(g) /\ g # f
  BY <1>1, Sent, SpotsApart DEF AtHub
<1>5. SwitchTypeOK'
  <2>1. SendTo(f, ps) \subseteq Frames \X Spots
    BY <1>3 DEF SendTo, Spots
  <2> QED BY <1>1, <1>2, <2>1 DEF SwitchInv, SwitchTypeOK, Frames
<1>6. OneSeat' /\ Unsent' /\ HeardOnce'
  BY <1>2 DEF SwitchInv, OneSeat, Unsent, HeardOnce, Frames
<1>7. /\ frame[f].src \in Attached
      /\ \A p \in Peers : ~GoesUp(f, p) /\ ~GoesOut(f, p)
      /\ \A s \in Stations \ Attached : caught[<<f, s>>] = 0
  BY <1>2 DEF SwitchInv, HubTrue
<1>8. ASSUME NEW g \in Frames  PROVE HubTrue(g)' /\ UpTrue(g)' /\ DownTrue(g)'
  <2>1. HubTrue(g) /\ UpTrue(g) /\ DownTrue(g)
    BY <1>8 DEF SwitchInv
  <2>2. HubTrue(g)'
    BY <1>2, <1>4, <1>4a, <2>1 DEF HubTrue
  <2>3. UpTrue(g)'
    BY <1>2, <1>4, <1>7, <2>1 DEF UpTrue
  <2>4. DownTrue(g)'
    BY <1>0, <1>2, <1>3, <1>4, <1>7, <2>1 DEF DownTrue
  <2> QED BY <2>2, <2>3, <2>4
<1> QED BY <1>2, <1>5, <1>6, <1>8 DEF SwitchInv, Frames

\* A member's frame goes to the others and to the hub, the machine that sent
\* it having no other seat.
LEMMA SwitchUpKeeps ==
  ASSUME SwitchInv, SwitchAssumption, NEW f \in Frames, NEW p \in Peers, SwitchUp(f, p)
  PROVE  SwitchInv'
<1>0. Home \in [Peers -> Stations \ Attached] /\ Attached \subseteq Stations /\ MaxFrame \in Nat
  BY DEF SwitchAssumption
<1>0a. SwitchTypeOK /\ f \in 1 .. MaxFrame
  BY <1>0 DEF SwitchInv, SwitchTypeOK, Frames
<1>1. PICK ps \in SUBSET (OpenPorts \ {p}) : air' = (air \ {<<f, <<"up", p>>>>}) \cup SendTo(f, ps)
  <2>1. CASE Owner(f) = "local" /\ air' = air \ {<<f, <<"up", p>>>>}
    <3>1. SendTo(f, {}) = {}
      BY DEF SendTo
    <3> QED BY <2>1, <3>1
  <2>2. CASE Owner(f) \in Peers \ {p} /\ air' = (air \ {<<f, <<"up", p>>>>}) \cup SendTo(f, OpenPorts \cap {Owner(f)})
    BY <2>2
  <2>3. CASE air' = (air \ {<<f, <<"up", p>>>>}) \cup Flood(f, p)
    BY <2>3 DEF Flood
  <2> QED BY <2>1, <2>2, <2>3 DEF SwitchUp
<1>2. GoesUp(f, p) /\ UNCHANGED <<ports, parted, frame>>
  BY DEF SwitchUp, GoesUp
<1>3. \A q \in ps : q \in Peers /\ ports[q] = "open" /\ q # p
  BY <1>1 DEF OpenPorts
<1>4. PICK hs \in SUBSET ({f} \X Attached) : caught' = [k \in DOMAIN caught |-> IF k \in hs THEN caught[k] + 1 ELSE caught[k]]
  <2>1. CASE UNCHANGED caught
    <3>1. caught = [k \in DOMAIN caught |-> IF k \in {} THEN caught[k] + 1 ELSE caught[k]]
      BY DEF SwitchInv, SwitchTypeOK
    <3>2. {} \in SUBSET ({f} \X Attached)
      OBVIOUS
    <3>3. caught' = [k \in DOMAIN caught |-> IF k \in {} THEN caught[k] + 1 ELSE caught[k]]
      BY <2>1, <3>1
    <3> HIDE <2>1
    <3> QED BY <3>2, <3>3
  <2>2. CASE Hear(OnHub(f))
    <3>1. OnHub(f) \subseteq {f} \X Attached
      BY DEF OnHub
    <3> QED BY <2>2, <3>1 DEF Hear
  <2> QED BY <2>1, <2>2 DEF SwitchUp
<1>5. ASSUME NEW g \in 1 .. MaxFrame, NEW s \in Stations
      PROVE  caught'[<<g, s>>] = caught[<<g, s>>] \/ (g = f /\ s \in Attached /\ caught'[<<g, s>>] = caught[<<g, s>>] + 1)
  BY <1>0a, <1>4 DEF SwitchTypeOK
<1>6. /\ frame[f].src = Home[p] /\ ports[p] = "open"
      /\ \A q \in Peers : ~GoesOut(f, q) /\ (GoesUp(f, q) => q = p)
      /\ \A q \in Peers \ parted : Kin(p, q) => ports[q] = "none"
      /\ \A s \in Stations : caught[<<f, s>>] = 0
      /\ ~AtHub(f)
  BY <1>2 DEF SwitchInv, UpTrue, HubTrue
<1>7. ASSUME NEW g \in Frames, NEW q \in Peers
      PROVE  /\ GoesUp(g, q)' => GoesUp(g, q) /\ (g # f \/ q # p)
             /\ GoesOut(g, q)' => GoesOut(g, q) \/ (g = f /\ q \in ps \ parted)
  BY <1>1, Sent, SpotsApart DEF GoesUp, GoesOut
<1>8. \A g \in Frames : AtHub(g)' => AtHub(g)
  BY <1>1, Sent, SpotsApart DEF AtHub
<1>9. SwitchTypeOK'
  <2>1. SendTo(f, ps) \subseteq Frames \X Spots
    BY <1>3 DEF SendTo, Spots
  <2>2. caught' \in [(1 .. MaxFrame) \X Stations -> Nat]
    BY <1>0a, <1>4 DEF SwitchTypeOK
  <2> QED BY <1>0a, <1>1, <1>2, <2>1, <2>2 DEF SwitchTypeOK, Frames
<1>10. OneSeat'
  BY <1>2 DEF SwitchInv, OneSeat
<1>11. Unsent'
  <2>1. f <= Len(frame)
    BY DEF Frames
  <2> QED BY <1>0a, <1>2, <1>5, <2>1 DEF SwitchInv, Unsent
<1>12. HeardOnce'
  <2> SUFFICES ASSUME NEW g \in Frames, NEW s \in Stations
               PROVE  caught'[<<g, s>>] <= IF s = frame[g].src THEN 0 ELSE 1
    BY <1>2 DEF HeardOnce, Frames
  <2>1. g \in 1 .. MaxFrame /\ caught[<<g, s>>] \in Nat
    BY <1>0, <1>0a DEF SwitchTypeOK, Frames
  <2>2. caught[<<g, s>>] <= IF s = frame[g].src THEN 0 ELSE 1
    BY DEF SwitchInv, HeardOnce
  <2>3. g = f /\ s \in Attached => s # frame[g].src
    BY <1>0, <1>6
  <2> QED BY <1>5, <1>6, <2>1, <2>2, <2>3
<1>13. ASSUME NEW g \in Frames  PROVE HubTrue(g)' /\ UpTrue(g)' /\ DownTrue(g)'
  <2>1. HubTrue(g) /\ UpTrue(g) /\ DownTrue(g) /\ g \in 1 .. MaxFrame
    BY <1>0, <1>0a, <1>13 DEF SwitchInv, Frames, SwitchTypeOK
  <2>2. HubTrue(g)'
    BY <1>2, <1>5, <1>6, <1>7, <1>8, <2>1 DEF HubTrue
  <2>3. UpTrue(g)'
    <3> SUFFICES ASSUME NEW q \in Peers, GoesUp(g, q)'
                 PROVE  /\ frame[g].src = Home[q] /\ ports[q] = "open"
                        /\ \A r \in Peers : ~GoesOut(g, r)' /\ (GoesUp(g, r)' => r = q)
                        /\ \A r \in Peers \ parted : Kin(q, r) => ports[r] = "none"
                        /\ \A s \in Stations : caught'[<<g, s>>] = 0
      BY <1>2 DEF UpTrue, Kin
    <3>1. GoesUp(g, q) /\ g # f
      BY <1>6, <1>7
    <3> QED BY <1>5, <1>7, <2>1, <3>1 DEF UpTrue
  <2>4. DownTrue(g)'
    <3> SUFFICES ASSUME NEW q \in Peers, GoesOut(g, q)'
                 PROVE  q \notin parted /\ ports[q] = "open" /\ frame[g].src # Home[q] /\ caught'[<<g, Home[q]>>] = 0
      BY <1>2 DEF DownTrue
    <3>1. Home[q] \in Stations \ Attached
      BY <1>0
    <3>2. caught'[<<g, Home[q]>>] = caught[<<g, Home[q]>>]
      BY <1>5, <2>1, <3>1
    <3>3. CASE GoesOut(g, q)
      BY <2>1, <3>2, <3>3 DEF DownTrue
    <3>4. CASE g = f /\ q \in ps \ parted
      BY <1>3, <1>6, <3>1, <3>2, <3>4 DEF Kin
    <3> QED BY <1>7, <3>3, <3>4
  <2> QED BY <2>2, <2>3, <2>4
<1> QED BY <1>2, <1>9, <1>10, <1>11, <1>12, <1>13 DEF SwitchInv, Frames

\* A member's machine hears what comes, for the first time.
LEMMA ArriveKeeps ==
  ASSUME SwitchInv, SwitchAssumption, NEW f \in Frames, NEW p \in Peers, Arrive(f, p)
  PROVE  SwitchInv'
<1>0. Home \in [Peers -> Stations \ Attached] /\ Attached \subseteq Stations /\ MaxFrame \in Nat
  BY DEF SwitchAssumption
<1>0a. SwitchTypeOK /\ f \in 1 .. MaxFrame
  BY <1>0 DEF SwitchInv, SwitchTypeOK, Frames
<1>1. /\ GoesOut(f, p) /\ air' = air \ {<<f, <<"down", p>>>>}
      /\ Hear(IF frame[f].dst \in {Everyone, Home[p]} THEN {<<f, Home[p]>>} ELSE {})
      /\ UNCHANGED <<ports, parted, macs, frame>>
  BY DEF Arrive, GoesOut
<1>2. caught' \in [(1 .. MaxFrame) \X Stations -> Nat]
  BY <1>0a, <1>1 DEF Hear, SwitchTypeOK
<1>3. ASSUME NEW g \in 1 .. MaxFrame, NEW s \in Stations
      PROVE  caught'[<<g, s>>] = caught[<<g, s>>] \/ (g = f /\ s = Home[p] /\ caught'[<<g, s>>] = caught[<<g, s>>] + 1)
  BY <1>0a, <1>1 DEF Hear, SwitchTypeOK
<1>4. /\ p \notin parted /\ ports[p] = "open"
      /\ frame[f].src # Home[p] /\ caught[<<f, Home[p]>>] = 0
      /\ ~AtHub(f) /\ \A q \in Peers : ~GoesUp(f, q)
  BY <1>1 DEF SwitchInv, DownTrue, HubTrue, UpTrue
<1>5. ASSUME NEW g \in Frames
      PROVE  /\ AtHub(g)' => AtHub(g)
             /\ \A q \in Peers : /\ GoesUp(g, q)' => GoesUp(g, q)
                                 /\ GoesOut(g, q)' => GoesOut(g, q) /\ (g # f \/ q # p)
  BY <1>1, SpotsApart DEF AtHub, GoesUp, GoesOut
<1>6. SwitchTypeOK' /\ OneSeat'
  BY <1>0a, <1>1, <1>2 DEF SwitchInv, SwitchTypeOK, OneSeat, Frames
<1>7. Unsent'
  <2>1. f <= Len(frame)
    BY DEF Frames
  <2> QED BY <1>0a, <1>1, <1>3, <2>1 DEF SwitchInv, Unsent
<1>8. HeardOnce'
  <2> SUFFICES ASSUME NEW g \in Frames, NEW s \in Stations
               PROVE  caught'[<<g, s>>] <= IF s = frame[g].src THEN 0 ELSE 1
    BY <1>1 DEF HeardOnce, Frames
  <2>1. g \in 1 .. MaxFrame /\ caught[<<g, s>>] \in Nat
    BY <1>0, <1>0a DEF SwitchTypeOK, Frames
  <2>2. caught[<<g, s>>] <= IF s = frame[g].src THEN 0 ELSE 1
    BY DEF SwitchInv, HeardOnce
  <2> QED BY <1>3, <1>4, <2>1, <2>2
<1>9. ASSUME NEW g \in Frames  PROVE HubTrue(g)' /\ UpTrue(g)' /\ DownTrue(g)'
  <2>1. HubTrue(g) /\ UpTrue(g) /\ DownTrue(g) /\ g \in 1 .. MaxFrame
    BY <1>0, <1>0a, <1>9 DEF SwitchInv, Frames, SwitchTypeOK
  <2>2. HubTrue(g)'
    BY <1>1, <1>3, <1>4, <1>5, <2>1 DEF HubTrue
  <2>3. UpTrue(g)'
    <3> SUFFICES ASSUME NEW q \in Peers, GoesUp(g, q)'
                 PROVE  /\ frame[g].src = Home[q] /\ ports[q] = "open"
                        /\ \A r \in Peers : ~GoesOut(g, r)' /\ (GoesUp(g, r)' => r = q)
                        /\ \A r \in Peers \ parted : Kin(q, r) => ports[r] = "none"
                        /\ \A s \in Stations : caught'[<<g, s>>] = 0
      BY <1>1 DEF UpTrue, Kin
    <3>1. GoesUp(g, q) /\ g # f
      BY <1>4, <1>5
    <3> QED BY <1>3, <1>5, <2>1, <3>1 DEF UpTrue
  <2>4. DownTrue(g)'
    <3> SUFFICES ASSUME NEW q \in Peers, GoesOut(g, q)'
                 PROVE  q \notin parted /\ ports[q] = "open" /\ frame[g].src # Home[q] /\ caught'[<<g, Home[q]>>] = 0
      BY <1>1 DEF DownTrue
    <3>1. GoesOut(g, q) /\ (g # f \/ q # p)
      BY <1>5
    <3>2. q \notin parted /\ ports[q] = "open" /\ frame[g].src # Home[q] /\ caught[<<g, Home[q]>>] = 0
      BY <2>1, <3>1 DEF DownTrue
    <3>3. g = f => Home[q] # Home[p]
      BY <1>4, <3>1, <3>2 DEF SwitchInv, OneSeat, Kin
    <3>4. Home[q] \in Stations
      BY <1>0
    <3> QED BY <1>3, <2>1, <3>2, <3>3, <3>4
  <2> QED BY <2>2, <2>3, <2>4
<1> QED BY <1>1, <1>6, <1>7, <1>8, <1>9 DEF SwitchInv, Frames

\* A machine sends: its own hub hears it, or its one seat takes it.
LEMMA SendKeeps ==
  ASSUME SwitchInv, SwitchAssumption, NEW s \in Stations, NEW d \in Stations \cup {Everyone}, Send(s, d)
  PROVE  SwitchInv'
<1>0. Home \in [Peers -> Stations \ Attached] /\ Attached \subseteq Stations /\ MaxFrame \in Nat
  BY DEF SwitchAssumption
<1>0a. SwitchTypeOK
  BY DEF SwitchInv
<1>0b. PICK f \in Nat : f = Len(frame) + 1
  BY <1>0a DEF SwitchTypeOK
<1>1. f <= MaxFrame /\ s # d /\ UNCHANGED <<ports, parted, macs>> /\ frame' = Append(frame, [src |-> s, dst |-> d])
  BY <1>0b DEF Send
<1>2. /\ f \in Nat /\ f \in 1 .. MaxFrame /\ f \notin Frames /\ Len(frame') = f
      /\ Frames' = Frames \cup {f} /\ \A g \in Frames : frame'[g] = frame[g]
      /\ frame'[f] = [src |-> s, dst |-> d] /\ frame' \in Seq([src : Stations, dst : Stations \cup {Everyone}])
  BY <1>0, <1>0a, <1>0b, <1>1 DEF SwitchTypeOK, Frames
<1>3. PICK as \in SUBSET ({f} \X Spots), hs \in SUBSET ({f} \X (Attached \ {s})) :
         /\ air' = air \cup as
         /\ caught' = [k \in DOMAIN caught |-> IF k \in hs THEN caught[k] + 1 ELSE caught[k]]
         /\ <<f, <<"hub">>>> \in as => s \in Attached /\ as = {<<f, <<"hub">>>>}
         /\ \A p \in Peers : <<f, <<"up", p>>>> \in as => p \in Through(s) /\ hs = {}
         /\ \A p \in Peers : <<f, <<"down", p>>>> \notin as
  <2>1. CASE s \in Attached
    <3> DEFINE hs == {f} \X (Attached \cap (IF d = Everyone THEN Attached \ {s} ELSE {d}))
               as == {<<f, <<"hub">>>>}
    <3>1. hs \in SUBSET ({f} \X (Attached \ {s}))
      BY <1>1
    <3>2. as \in SUBSET ({f} \X Spots)
      BY DEF Spots
    <3>3. air' = air \cup as /\ caught' = [k \in DOMAIN caught |-> IF k \in hs THEN caught[k] + 1 ELSE caught[k]]
      BY <1>0b, <2>1 DEF Send, Hear
    <3>4. \A p \in Peers : <<f, <<"up", p>>>> \notin as /\ <<f, <<"down", p>>>> \notin as
      BY SpotsApart
    <3>5. as = {<<f, <<"hub">>>>}
      OBVIOUS
    <3> HIDE DEF hs, as
    <3> QED BY <2>1, <3>1, <3>2, <3>3, <3>4, <3>5
  <2>2. CASE s \notin Attached
    <3> DEFINE as == {<<f, <<"up", p>>>> : p \in Through(s)}
    <3>1. as \in SUBSET ({f} \X Spots)
      BY DEF Spots, Through, OpenPorts
    <3>2. air' = air \cup as /\ caught' = caught
      BY <1>0b, <2>2 DEF Send
    <3>3. caught' = [k \in DOMAIN caught |-> IF k \in {} THEN caught[k] + 1 ELSE caught[k]]
      BY <1>0a, <3>2 DEF SwitchTypeOK
    <3>4. /\ <<f, <<"hub">>>> \notin as /\ \A p \in Peers : <<f, <<"down", p>>>> \notin as
          /\ \A p \in Peers : <<f, <<"up", p>>>> \in as => p \in Through(s)
      BY SpotsApart
    <3>5. {} \in SUBSET ({f} \X (Attached \ {s}))
      OBVIOUS
    <3> HIDE DEF as
    <3> QED BY <3>1, <3>2, <3>3, <3>4, <3>5
  <2> QED BY <2>1, <2>2
<1>4. \A g \in Frames : \A x : <<g, x>> \in air' => <<g, x>> \in air
  BY <1>2, <1>3
<1>5. \A x : <<f, x>> \in air' => <<f, x>> \in as
  BY <1>0a, <1>2, <1>3 DEF SwitchTypeOK
<1>6. ASSUME NEW g \in 1 .. MaxFrame, NEW t \in Stations
      PROVE  caught'[<<g, t>>] = IF <<g, t>> \in hs THEN caught[<<g, t>>] + 1 ELSE caught[<<g, t>>]
  BY <1>0a, <1>3 DEF SwitchTypeOK
<1>7. \A t \in Stations : caught[<<f, t>>] = 0
  <2>1. f > Len(frame)
    BY <1>0a, <1>0b DEF SwitchTypeOK
  <2> QED BY <1>2, <2>1 DEF SwitchInv, Unsent
<1>8. \A g \in 1 .. MaxFrame, t \in Stations : g # f => caught'[<<g, t>>] = caught[<<g, t>>]
  BY <1>3, <1>6
<1>9. SwitchTypeOK'
  <2>1. caught' \in [(1 .. MaxFrame) \X Stations -> Nat]
    BY <1>0a, <1>3 DEF SwitchTypeOK
  <2>2. air' \subseteq Frames' \X Spots
    BY <1>0a, <1>2, <1>3 DEF SwitchTypeOK
  <2>3. ports' \in [Peers -> {"none", "answered", "open"}] /\ parted' \subseteq Peers
    BY <1>0a, <1>1 DEF SwitchTypeOK
  <2> QED BY <1>1, <1>2, <2>1, <2>2, <2>3 DEF SwitchTypeOK
<1>10. OneSeat'
  BY <1>1 DEF SwitchInv, OneSeat
<1>11. Unsent'
  <2> SUFFICES ASSUME NEW g \in 1 .. MaxFrame, NEW t \in Stations, g > Len(frame')
               PROVE  caught'[<<g, t>>] = 0
    BY DEF Unsent
  <2>1. g # f /\ g > Len(frame)
    BY <1>0a, <1>0b, <1>2 DEF SwitchTypeOK
  <2> QED BY <1>8, <2>1 DEF SwitchInv, Unsent
<1>12. HeardOnce'
  <2> SUFFICES ASSUME NEW g \in Frames', NEW t \in Stations
               PROVE  caught'[<<g, t>>] <= IF t = frame'[g].src THEN 0 ELSE 1
    BY DEF HeardOnce
  <2>1. CASE g = f
    <3>1. <<f, t>> \in hs => t # s
      BY <1>3
    <3>2. frame'[g].src = s
      BY <1>2, <2>1
    <3> QED BY <1>2, <1>6, <1>7, <2>1, <3>1, <3>2
  <2>2. CASE g \in Frames
    <3>1. g \in 1 .. MaxFrame /\ g # f
      BY <1>0, <1>0a, <1>2, <2>2 DEF Frames, SwitchTypeOK
    <3> QED BY <1>2, <1>8, <2>2, <3>1 DEF SwitchInv, HeardOnce
  <2> QED BY <1>2, <2>1, <2>2
<1>13. ASSUME NEW g \in Frames  PROVE HubTrue(g)' /\ UpTrue(g)' /\ DownTrue(g)'
  <2>1. HubTrue(g) /\ UpTrue(g) /\ DownTrue(g) /\ g \in 1 .. MaxFrame /\ g # f /\ frame'[g] = frame[g]
    <3>1. HubTrue(g) /\ UpTrue(g) /\ DownTrue(g)
      BY DEF SwitchInv
    <3>2. g \in 1 .. MaxFrame
      BY <1>0, <1>0a DEF Frames, SwitchTypeOK
    <3>3. g # f /\ frame'[g] = frame[g]
      BY <1>2
    <3> QED BY <3>1, <3>2, <3>3
  <2>2. /\ AtHub(g)' => AtHub(g)
        /\ \A p \in Peers : (GoesUp(g, p)' => GoesUp(g, p)) /\ (GoesOut(g, p)' => GoesOut(g, p))
    BY <1>4 DEF AtHub, GoesUp, GoesOut
  <2>3. \A t \in Stations : caught'[<<g, t>>] = caught[<<g, t>>]
    BY <1>8, <2>1
  <2>4. HubTrue(g)'
    BY <2>1, <2>2, <2>3 DEF HubTrue
  <2>5. UpTrue(g)'
    BY <1>1, <2>1, <2>2, <2>3 DEF UpTrue, Kin
  <2>6. DownTrue(g)'
    BY <1>0, <1>1, <2>1, <2>2, <2>3 DEF DownTrue
  <2> QED BY <2>4, <2>5, <2>6
<1>14. HubTrue(f)' /\ UpTrue(f)' /\ DownTrue(f)'
  <2>1. /\ AtHub(f)' => s \in Attached /\ as = {<<f, <<"hub">>>>}
        /\ \A p \in Peers : (GoesUp(f, p)' => <<f, <<"up", p>>>> \in as) /\ ~GoesOut(f, p)'
    BY <1>3, <1>5 DEF AtHub, GoesUp, GoesOut
  <2>2. frame'[f].src = s
    BY <1>2
  <2>3. HubTrue(f)'
    <3> SUFFICES ASSUME AtHub(f)'
                 PROVE  /\ s \in Attached /\ \A p \in Peers : ~GoesUp(f, p)' /\ ~GoesOut(f, p)'
                        /\ \A t \in Stations \ Attached : caught'[<<f, t>>] = 0
      BY <2>2 DEF HubTrue
    <3>1. \A p \in Peers : <<f, <<"up", p>>>> \notin as
      <4>1. as = {<<f, <<"hub">>>>}
        BY <2>1
      <4>2. \A p \in Peers : <<f, <<"up", p>>>> # <<f, <<"hub">>>>
        BY SpotsApart
      <4> QED BY <4>1, <4>2
    <3>2. \A t \in Stations \ Attached : <<f, t>> \notin hs
      BY <1>3
    <3> QED BY <1>2, <1>6, <1>7, <2>1, <3>1, <3>2
  <2>4. UpTrue(f)'
    <3> SUFFICES ASSUME NEW p \in Peers, <<f, <<"up", p>>>> \in as
                 PROVE  /\ s = Home[p] /\ ports[p] = "open"
                        /\ \A q \in Peers : <<f, <<"up", q>>>> \in as => q = p
                        /\ \A q \in Peers \ parted : Kin(p, q) => ports[q] = "none"
                        /\ \A t \in Stations : caught'[<<f, t>>] = 0
      BY <1>1, <2>1, <2>2 DEF UpTrue, Kin
    <3>1. p \notin parted /\ s = Home[p] /\ ports[p] = "open" /\ hs = {}
      BY <1>3 DEF Through, OpenPorts
    <3>2. \A q \in Peers \ parted : Kin(p, q) => ports[q] = "none"
      BY <3>1 DEF SwitchInv, OneSeat
    <3>3. \A q \in Peers : <<f, <<"up", q>>>> \in as => q = p
      BY <1>3, <3>1, <3>2 DEF Through, OpenPorts, Kin
    <3>4. \A t \in Stations : caught'[<<f, t>>] = 0
      BY <1>2, <1>6, <1>7, <3>1
    <3> QED BY <3>1, <3>2, <3>3, <3>4
  <2>5. DownTrue(f)'
    BY <2>1 DEF DownTrue
  <2> QED BY <2>3, <2>4, <2>5
<1> QED BY <1>2, <1>9, <1>10, <1>11, <1>12, <1>13, <1>14 DEF SwitchInv

\* No machine hears a frame twice, nor its own come back, however many machines
\* join, leave and join again, and whatever the channels lose and reorder.
THEOREM SwitchKeepsItsWord ==
  ASSUME SwitchAssumption
  PROVE  SwitchSpec => []HeardOnce
<1>1. SwitchInit => SwitchInv
  BY DEF SwitchAssumption, SwitchInit, SwitchInv, SwitchTypeOK, OneSeat, Unsent, HeardOnce, Frames
<1>2. SwitchInv /\ [SwitchNext]_switchVars => SwitchInv'
  <2> SUFFICES ASSUME SwitchInv, [SwitchNext]_switchVars  PROVE SwitchInv'
    OBVIOUS
  <2>1. ASSUME NEW p \in Peers, Accept(p) \/ AttachPeerLan(p) \/ Part(p) \/ DropPeer(p)  PROVE SwitchInv'
    BY <2>1, AcceptKeeps, AttachPeerLanKeeps, PartKeeps, DropPeerKeeps
  <2>2. ASSUME NEW s \in Stations, NEW d \in Stations \cup {Everyone}, Send(s, d)  PROVE SwitchInv'
    BY <2>2, SendKeeps
  <2>3. ASSUME NEW f \in Frames, SwitchHub(f) \/ \E p \in Peers : SwitchUp(f, p) \/ Arrive(f, p)  PROVE SwitchInv'
    BY <2>3, SwitchHubKeeps, SwitchUpKeeps, ArriveKeeps
  <2>4. CASE UNCHANGED switchVars
    <3>1. SwitchTypeOK' /\ OneSeat' /\ Unsent' /\ HeardOnce' /\ Frames' = Frames
      BY <2>4 DEF switchVars, SwitchInv, SwitchTypeOK, OneSeat, Unsent, HeardOnce, Frames
    <3>2. ASSUME NEW f \in Frames  PROVE HubTrue(f)' /\ UpTrue(f)' /\ DownTrue(f)'
      BY <2>4, <3>2 DEF switchVars, SwitchInv, HubTrue, UpTrue, DownTrue, AtHub, GoesUp, GoesOut, Kin
    <3> QED BY <3>1, <3>2 DEF SwitchInv
  <2> QED BY <2>1, <2>2, <2>3, <2>4 DEF SwitchNext
<1>3. SwitchInv => HeardOnce
  BY DEF SwitchInv
<1> QED BY <1>1, <1>2, <1>3, PTL DEF SwitchSpec

----------------------------------------------------------------------------
(* The roster: what a member's channel still brings ends in the roster the  *)
(* host has, or the member shows it already.                                *)

RosterNotes == [kind : {"roster"}, what : SUBSET Members]
Notes == RosterNotes \cup [kind : {"chat"}, what : Nat]

RosterTypeOK ==
  /\ wires \in [Members -> {"none", "open", "named", "broken"}]
  /\ ctl \in [Members -> Seq(Notes)] /\ roster \in [Members -> SUBSET Members]
  /\ members \subseteq Members
  /\ up \in [Members -> Seq(Nat)] /\ said \in Seq([from : Members \cup {Keeper}, to : Members \cup {Keeper, ToAll}])

\* The notes of a channel after the i-th are all chat.
ChatAfter(q, i) == \A j \in 1 .. Len(q) : i < j => q[j].kind = "chat"

\* Once all of q is taken, a member that shows `shown` shows `now`.
EndsIn(q, shown, now) ==
  /\ ChatAfter(q, 0) => shown = now
  /\ \A i \in 1 .. Len(q) : q[i].kind = "roster" /\ ChatAfter(q, i) => q[i].what = now

RosterInv ==
  /\ RosterTypeOK
  /\ \A m \in Members : wires[m] = "named" => EndsIn(ctl[m], roster[m], members)

----------------------------------------------------------------------------
\* A line of chat changes no roster.
LEMMA ChatKeepsEnd ==
  ASSUME NEW q \in Seq(Notes), NEW shown, NEW now, NEW c \in Nat, EndsIn(q, shown, now)
  PROVE  EndsIn(Append(q, [kind |-> "chat", what |-> c]), shown, now)
<1> DEFINE r == Append(q, [kind |-> "chat", what |-> c])
<1>1. Len(r) = Len(q) + 1 /\ r[Len(r)].kind = "chat" /\ \A i \in 1 .. Len(q) : r[i] = q[i]
  OBVIOUS
<1>2. Len(q) \in Nat
  OBVIOUS
<1> HIDE DEF r
<1>3. \A i \in 0 .. Len(q) : ChatAfter(r, i) => ChatAfter(q, i)
  BY <1>1, <1>2 DEF ChatAfter
<1>4. EndsIn(r, shown, now)
  BY <1>1, <1>2, <1>3 DEF EndsIn
<1> QED BY <1>4 DEF r

\* A roster ends it, whatever was there.
LEMMA RosterEnds ==
  ASSUME NEW q \in Seq(Notes), NEW shown, NEW now
  PROVE  EndsIn(Append(q, [kind |-> "roster", what |-> now]), shown, now)
<1> DEFINE r == Append(q, [kind |-> "roster", what |-> now])
<1>1. Len(r) = Len(q) + 1 /\ r[Len(r)] = [kind |-> "roster", what |-> now] /\ Len(q) \in Nat
  OBVIOUS
<1> HIDE DEF r
<1>2. \A i \in 0 .. Len(q) : ~ChatAfter(r, i)
  BY <1>1 DEF ChatAfter
<1>3. EndsIn(r, shown, now)
  BY <1>1, <1>2 DEF EndsIn
<1> QED BY <1>3 DEF r

\* The first note is taken.
LEMMA TakingKeepsEnd ==
  ASSUME NEW q \in Seq(Notes), q # <<>>, NEW shown, NEW now, EndsIn(q, shown, now)
  PROVE  EndsIn(Tail(q), IF Head(q).kind = "roster" THEN Head(q).what ELSE shown, now)
<1> DEFINE r == Tail(q)
<1>1. Len(r) = Len(q) - 1 /\ (\A i \in 1 .. Len(r) : r[i] = q[i + 1]) /\ Head(q) = q[1] /\ Len(q) \in Nat \ {0}
  OBVIOUS
<1>2. q[1].kind \in {"roster", "chat"}
  BY <1>1 DEF Notes, RosterNotes
<1> HIDE DEF r
<1>3. \A i \in 0 .. Len(r) : ChatAfter(r, i) => ChatAfter(q, i + 1)
  <2> SUFFICES ASSUME NEW i \in 0 .. Len(r), ChatAfter(r, i), NEW j \in 1 .. Len(q), i + 1 < j
               PROVE  q[j].kind = "chat"
    BY <1>1 DEF ChatAfter
  <2>1. j - 1 \in 1 .. Len(r) /\ i < j - 1 /\ r[j - 1] = q[(j - 1) + 1] /\ (j - 1) + 1 = j
    BY <1>1
  <2> QED BY <2>1 DEF ChatAfter
<1>4. ChatAfter(r, 0) => (IF q[1].kind = "roster" THEN q[1].what ELSE shown) = now
  <2> SUFFICES ASSUME ChatAfter(r, 0)  PROVE (IF q[1].kind = "roster" THEN q[1].what ELSE shown) = now
    OBVIOUS
  <2>1. ChatAfter(q, 1)
    BY <1>1, <1>3
  <2>2. CASE q[1].kind = "roster"
    BY <1>1, <2>1, <2>2 DEF EndsIn
  <2>3. CASE q[1].kind = "chat"
    <3>1. ChatAfter(q, 0)
      <4> SUFFICES ASSUME NEW j \in 1 .. Len(q)  PROVE q[j].kind = "chat"
        BY DEF ChatAfter
      <4>1. j = 1 \/ 1 < j
        OBVIOUS
      <4> QED BY <2>1, <2>3, <4>1 DEF ChatAfter
    <3> QED BY <2>3, <3>1 DEF EndsIn
  <2> QED BY <1>2, <2>2, <2>3
<1>5. \A i \in 1 .. Len(r) : r[i].kind = "roster" /\ ChatAfter(r, i) => r[i].what = now
  <2> SUFFICES ASSUME NEW i \in 1 .. Len(r), r[i].kind = "roster", ChatAfter(r, i)  PROVE r[i].what = now
    OBVIOUS
  <2>1. i + 1 \in 1 .. Len(q) /\ q[i + 1] = r[i] /\ ChatAfter(q, i + 1)
    BY <1>1, <1>3
  <2> QED BY <2>1 DEF EndsIn
<1>6. EndsIn(r, IF Head(q).kind = "roster" THEN Head(q).what ELSE shown, now)
  BY <1>1, <1>4, <1>5 DEF EndsIn
<1> QED BY <1>6 DEF r

----------------------------------------------------------------------------
\* The host tells all whose channel is open.
LEMMA UpdatingKeeps ==
  ASSUME RosterInv, wires' \in [Members -> {"none", "open", "named", "broken"}], UpdateRoster(wires'),
         up' \in [Members -> Seq(Nat)], UNCHANGED <<roster, said>>
  PROVE  RosterInv'
<1> DEFINE in == {m \in Members : wires'[m] = "named"}
<1>1. /\ members' = in /\ in \subseteq Members
      /\ ctl' = [m \in Members |-> IF wires'[m] \in {"none", "broken"} THEN <<>>
                                   ELSE Append(ctl[m], [kind |-> "roster", what |-> in])]
  BY DEF UpdateRoster
<1>2. ctl \in [Members -> Seq(Notes)]
  BY DEF RosterInv, RosterTypeOK
<1> HIDE DEF in
<1>3. [kind |-> "roster", what |-> in] \in Notes
  BY <1>1 DEF Notes, RosterNotes
<1>4. ctl' \in [Members -> Seq(Notes)]
  BY <1>1, <1>2, <1>3
<1>5. ASSUME NEW m \in Members, wires'[m] = "named"  PROVE EndsIn(ctl'[m], roster'[m], members')
  <2>1. ctl'[m] = Append(ctl[m], [kind |-> "roster", what |-> in]) /\ ctl[m] \in Seq(Notes)
    BY <1>1, <1>2, <1>5
  <2>2. EndsIn(Append(ctl[m], [kind |-> "roster", what |-> in]), roster'[m], in)
    BY <2>1, RosterEnds
  <2> QED BY <1>1, <2>1, <2>2
<1> QED BY <1>1, <1>4, <1>5 DEF RosterInv, RosterTypeOK

\* A line posted to some of them.
LEMMA PostingKeeps ==
  ASSUME RosterInv, NEW ms, NEW c \in Nat, ctl' = Post(ms, [kind |-> "chat", what |-> c]),
         up' \in [Members -> Seq(Nat)],
         said' \in Seq([from : Members \cup {Keeper}, to : Members \cup {Keeper, ToAll}]),
         UNCHANGED <<wires, members, roster>>
  PROVE  RosterInv'
<1>1. ctl \in [Members -> Seq(Notes)] /\ [kind |-> "chat", what |-> c] \in Notes
  BY DEF RosterInv, RosterTypeOK, Notes
<1>2. ctl' \in [Members -> Seq(Notes)]
  BY <1>1 DEF Post
<1>3. ASSUME NEW m \in Members, wires'[m] = "named"  PROVE EndsIn(ctl'[m], roster'[m], members')
  <2>1. EndsIn(ctl[m], roster[m], members) /\ ctl[m] \in Seq(Notes)
    BY <1>1, <1>3 DEF RosterInv
  <2>2. CASE m \in ms
    <3>1. ctl'[m] = Append(ctl[m], [kind |-> "chat", what |-> c])
      BY <2>2 DEF Post
    <3>2. EndsIn(Append(ctl[m], [kind |-> "chat", what |-> c]), roster[m], members)
      BY <2>1, ChatKeepsEnd
    <3> QED BY <3>1, <3>2
  <2>3. CASE m \notin ms
    BY <2>1, <2>3 DEF Post
  <2> QED BY <2>2, <2>3
<1> QED BY <1>2, <1>3 DEF RosterInv, RosterTypeOK

LEMMA RosterStepKeeps ==
  ASSUME RosterInv, NEW m \in Members,
         AttachPeerCtl(m) \/ HelloArrives(m) \/ MemberLeaves(m) \/ DropMember(m) \/ Take(m)
  PROVE  RosterInv'
<1>1. RosterTypeOK
  BY DEF RosterInv
<1>2. CASE AttachPeerCtl(m)
  <2>1. wires' = [wires EXCEPT ![m] = "open"] /\ up' = [up EXCEPT ![m] = <<0>>]
        /\ UNCHANGED <<members, ctl, roster, said>>
    BY <1>2 DEF AttachPeerCtl
  <2>2. RosterTypeOK'
    BY <1>1, <2>1 DEF RosterTypeOK
  <2>3. \A n \in Members : wires'[n] = "named" => wires[n] = "named"
    BY <1>1, <2>1 DEF RosterTypeOK
  <2> QED BY <2>1, <2>2, <2>3 DEF RosterInv
<1>3. CASE HelloArrives(m)
  <2>1. /\ wires' = [wires EXCEPT ![m] = IF @ = "open" THEN "named" ELSE @]
        /\ up[m] # <<>> /\ up' = [up EXCEPT ![m] = Tail(@)] /\ UpdateRoster(wires') /\ UNCHANGED <<roster, said>>
    BY <1>3 DEF HelloArrives
  <2>2. wires' \in [Members -> {"none", "open", "named", "broken"}] /\ up' \in [Members -> Seq(Nat)]
    BY <1>1, <2>1 DEF RosterTypeOK
  <2> QED BY <2>1, <2>2, UpdatingKeeps
<1>4. CASE DropMember(m)
  <2>1. /\ wires' = [wires EXCEPT ![m] = "none"] /\ up' = [up EXCEPT ![m] = <<>>]
        /\ UpdateRoster(wires') /\ UNCHANGED <<roster, said>>
    BY <1>4 DEF DropMember
  <2>2. wires' \in [Members -> {"none", "open", "named", "broken"}] /\ up' \in [Members -> Seq(Nat)]
    BY <1>1, <2>1 DEF RosterTypeOK
  <2> QED BY <2>1, <2>2, UpdatingKeeps
<1>5. CASE MemberLeaves(m)
  <2>1. /\ wires' = [wires EXCEPT ![m] = "broken"] /\ ctl' = [ctl EXCEPT ![m] = <<>>]
        /\ roster' = [roster EXCEPT ![m] = {}] /\ UNCHANGED <<members, up, said>>
    BY <1>5 DEF MemberLeaves
  <2>2. RosterTypeOK'
    BY <1>1, <2>1 DEF RosterTypeOK
  <2>3. \A n \in Members : wires'[n] = "named" => wires[n] = "named" /\ ctl'[n] = ctl[n] /\ roster'[n] = roster[n]
    BY <1>1, <2>1 DEF RosterTypeOK
  <2> QED BY <2>1, <2>2, <2>3 DEF RosterInv
<1>6. CASE Take(m)
  <2>1. ctl[m] # <<>> /\ ctl' = [ctl EXCEPT ![m] = Tail(@)] /\ UNCHANGED <<wires, members, up, said>>
    BY <1>6 DEF Take
  <2>2. ctl[m] \in Seq(Notes) /\ Head(ctl[m]) \in Notes
    BY <1>1, <2>1 DEF RosterTypeOK
  <2>3. /\ Head(ctl[m]).kind \in {"roster", "chat"}
        /\ Head(ctl[m]).kind = "roster" => Head(ctl[m]).what \in SUBSET Members
    BY <2>2 DEF Notes, RosterNotes
  <2>4. roster' = [roster EXCEPT ![m] = IF Head(ctl[m]).kind = "roster" THEN Head(ctl[m]).what ELSE @]
    BY <1>1, <1>6, <2>3 DEF Take, RosterTypeOK
  <2>5. RosterTypeOK'
    BY <1>1, <2>1, <2>2, <2>3, <2>4 DEF RosterTypeOK
  <2>6. ASSUME NEW n \in Members, wires'[n] = "named"  PROVE EndsIn(ctl'[n], roster'[n], members')
    <3>1. EndsIn(ctl[n], roster[n], members)
      BY <2>1, <2>6 DEF RosterInv
    <3>2. CASE n = m
      <4>1. EndsIn(Tail(ctl[m]), IF Head(ctl[m]).kind = "roster" THEN Head(ctl[m]).what ELSE roster[m], members)
        BY <2>1, <2>2, <3>1, <3>2, TakingKeepsEnd
      <4>2. ctl'[m] = Tail(ctl[m]) /\ roster'[m] = IF Head(ctl[m]).kind = "roster" THEN Head(ctl[m]).what ELSE roster[m]
        BY <1>1, <2>1, <2>4 DEF RosterTypeOK
      <4> QED BY <2>1, <3>2, <4>1, <4>2
    <3>3. CASE n # m
      BY <1>1, <2>1, <2>4, <3>1, <3>3 DEF RosterTypeOK
    <3> QED BY <3>2, <3>3
  <2> QED BY <2>5, <2>6 DEF RosterInv
<1> QED BY <1>2, <1>3, <1>4, <1>5, <1>6

\* A member that took all its channel brought shows the roster the host has,
\* however many join, leave and talk meanwhile.
THEOREM RosterKeepsItsWord == RosterSpec => []RostersAgree
<1>1. RosterInit => RosterInv
  BY DEF RosterInit, RosterInv, RosterTypeOK
<1>2. RosterInv /\ [RosterNext]_rosterVars => RosterInv'
  <2> SUFFICES ASSUME RosterInv, [RosterNext]_rosterVars  PROVE RosterInv'
    OBVIOUS
  <2>0. RosterTypeOK
    BY DEF RosterInv
  <2>1. ASSUME NEW m \in Members,
               AttachPeerCtl(m) \/ HelloArrives(m) \/ MemberLeaves(m) \/ DropMember(m) \/ Take(m)
        PROVE  RosterInv'
    BY <2>1, RosterStepKeeps
  <2>2. ASSUME NEW m \in Members, Relay(m)  PROVE RosterInv'
    <3>1. up[m] \in Seq(Nat) /\ up[m] # <<>> /\ up' = [up EXCEPT ![m] = Tail(@)] /\ Head(up[m]) \in Nat
      BY <2>0, <2>2 DEF Relay, RosterTypeOK
    <3>2. PICK ms : ctl' = Post(ms, [kind |-> "chat", what |-> Head(up[m])])
      BY <2>2 DEF Relay, FanoutChat
    <3>3. up' \in [Members -> Seq(Nat)]
      BY <2>0, <3>1 DEF RosterTypeOK
    <3> QED BY <2>0, <2>2, <3>1, <3>2, <3>3, PostingKeeps DEF Relay, RosterTypeOK
  <2>3. ASSUME NEW to \in Members \cup {Keeper, ToAll}, SayHere(to)  PROVE RosterInv'
    <3>1. Len(said) + 1 \in Nat /\ said' = Append(said, [from |-> Keeper, to |-> to]) /\ UNCHANGED <<wires, members, roster, up>>
      BY <2>0, <2>3 DEF SayHere, RosterTypeOK
    <3>2. PICK ms : ctl' = Post(ms, [kind |-> "chat", what |-> Len(said) + 1])
      BY <2>3 DEF SayHere
    <3>3. said' \in Seq([from : Members \cup {Keeper}, to : Members \cup {Keeper, ToAll}]) /\ up' \in [Members -> Seq(Nat)]
      BY <2>0, <3>1 DEF RosterTypeOK
    <3> QED BY <3>1, <3>2, <3>3, PostingKeeps
  <2>4. ASSUME NEW to \in Members \cup {Keeper, ToAll}, NEW s \in Members, SayThere(s, to)  PROVE RosterInv'
    <3>1. /\ said' = Append(said, [from |-> s, to |-> to]) /\ up' = [up EXCEPT ![s] = Append(@, Len(said) + 1)]
          /\ UNCHANGED <<wires, members, ctl, roster>>
      BY <2>4 DEF SayThere
    <3>2. RosterTypeOK'
      BY <2>0, <3>1 DEF RosterTypeOK
    <3> QED BY <3>1, <3>2 DEF RosterInv
  <2>5. CASE UNCHANGED rosterVars
    BY <2>5 DEF rosterVars, RosterInv, RosterTypeOK
  <2> QED BY <2>1, <2>2, <2>3, <2>4, <2>5 DEF RosterNext
<1>3. RosterInv => RostersAgree
  BY DEF RosterInv, RosterTypeOK, RostersAgree, EndsIn, ChatAfter
<1> QED BY <1>1, <1>2, <1>3, PTL DEF RosterSpec

----------------------------------------------------------------------------
(* Signalling, whenever relays come, go and drop their sockets.             *)

SignalTypes ==
  /\ ws \in [Relays -> {"connecting", "open", "shut", "none"}]
  /\ adopted \subseteq Relays /\ sockets \subseteq Relays /\ timers \subseteq Relays
  /\ posted \in [Offers -> Nat] /\ answers \in [Offers -> Nat]

\* While the channel is dialled nothing is watched or retried; a channel that
\* failed is closed; the relays of the map are the watched ones.
Dialled ==
  /\ dial \in {"connecting", "open", "failed"} /\ (dial = "failed" => closed) /\ adopted = sockets
  /\ dial = "connecting" => sockets = {} /\ timers = {} /\ ~closed

\* An event reaches the listener after it was met, and once.
MetOnce ==
  /\ unsealing \subseteq seen
  /\ \A e \in Offers : IF e \in seen /\ e \notin unsealing THEN posted[e] <= 1 ELSE posted[e] = 0

SignalInv == SignalTypes /\ Dialled /\ MetOnce /\ (\A e \in Offers : answers[e] <= posted[e])
             /\ NoRelayForgotten /\ ClosedHoldsNothing

LEMMA SignalInvGives ==
  ASSUME SignalInv
  PROVE  SignalTrue
<1>1. OffersOnce
  <2> SUFFICES ASSUME NEW e \in Offers PROVE posted[e] <= 1 /\ answers[e] <= 1
    BY DEF OffersOnce
  <2>1. posted[e] \in Nat /\ answers[e] \in Nat /\ answers[e] <= posted[e] /\ posted[e] <= 1
    BY DEF SignalInv, SignalTypes, MetOnce
  <2> QED BY <2>1
<1> QED BY <1>1 DEF SignalInv, SignalTrue

\* A socket changes, and with it where its relay is.
LEMMA SocketKeeps ==
  ASSUME SignalInv, NEW r \in Relays, NEW now \in {"connecting", "open", "shut", "none"},
         ws' = [ws EXCEPT ![r] = now], UNCHANGED <<dial, closed, mail>>,
         adopted' \subseteq Relays, sockets' \subseteq Relays, timers' \subseteq Relays,
         \A q \in Relays \ {r} : (q \in adopted' <=> q \in adopted) /\ (q \in sockets' <=> q \in sockets) /\ (q \in timers' <=> q \in timers),
         adopted' = sockets',
         dial = "connecting" => UNCHANGED <<adopted, sockets, timers>>,
         closed => sockets' = {} /\ timers' = {} /\ now \in {"none", "connecting"},
         dial = "open" /\ ~closed =>
           \/ r \in sockets' /\ r \notin timers' /\ now = "open"
           \/ r \in timers' /\ r \notin sockets' /\ now = "none"
           \/ now = "connecting" /\ r \notin sockets' /\ r \notin timers'
           \/ now = "shut" /\ r \in sockets' /\ r \notin timers'
  PROVE  SignalInv'
<1>1. /\ ws' \in [Relays -> {"connecting", "open", "shut", "none"}] /\ ws'[r] = now
      /\ \A q \in Relays \ {r} : ws'[q] = ws[q]
  BY DEF SignalInv, SignalTypes
<1>2. SignalTypes' /\ MetOnce' /\ \A e \in Offers : answers'[e] <= posted'[e]
  BY <1>1 DEF SignalInv, SignalTypes, MetOnce, mail
<1>3. Dialled'
  BY <1>1 DEF SignalInv, SignalTypes, Dialled
<1>4. NoRelayForgotten'
  BY <1>1 DEF SignalInv, NoRelayForgotten
<1>5. ClosedHoldsNothing'
  BY <1>1 DEF SignalInv, ClosedHoldsNothing
<1> QED BY <1>2, <1>3, <1>4, <1>5 DEF SignalInv

LEMMA AllAnsweredKeeps ==
  ASSUME SignalInv, AllAnswered
  PROVE  SignalInv'
<1> DEFINE came == {r \in Relays : ws[r] # "none"}
<1>1. /\ dial = "connecting" /\ \A r \in Relays : ws[r] # "connecting"
      /\ dial' = (IF came = {} THEN "failed" ELSE "open") /\ closed' = (came = {})
      /\ adopted' = came /\ sockets' = came /\ ws' = ws /\ UNCHANGED mail
      /\ timers' = IF came = {} THEN {} ELSE Relays \ came
  BY DEF AllAnswered
<1>2. \A r \in Relays : IF r \in came THEN ws[r] \in {"open", "shut"} ELSE ws[r] = "none"
  BY <1>1 DEF SignalInv, SignalTypes
<1>3. NoRelayForgotten'
  BY <1>1, <1>2 DEF NoRelayForgotten
<1>4. ClosedHoldsNothing'
  BY <1>1, <1>2 DEF ClosedHoldsNothing
<1>5. SignalTypes' /\ MetOnce' /\ \A e \in Offers : answers'[e] <= posted'[e]
  BY <1>1 DEF SignalInv, SignalTypes, MetOnce, mail
<1>6. Dialled'
  BY <1>1 DEF Dialled
<1> QED BY <1>3, <1>4, <1>5, <1>6 DEF SignalInv

LEMMA RelayStepKeeps ==
  ASSUME SignalInv, NEW r \in Relays,
         Connected(r) \/ Unreachable(r) \/ RelayDrops(r) \/ Retry(r) \/ Retried(r) \/ RetryFails(r)
  PROVE  SignalInv'
<1>0. /\ ws \in [Relays -> {"connecting", "open", "shut", "none"}]
      /\ sockets \subseteq Relays /\ timers \subseteq Relays /\ adopted = sockets
      /\ dial = "connecting" => sockets = {} /\ timers = {} /\ ~closed
      /\ dial # "connecting" /\ ~closed => dial = "open"
      /\ closed => sockets = {} /\ timers = {} /\ ws[r] \in {"none", "connecting"}
      /\ dial = "open" /\ ~closed =>
           \/ r \in sockets /\ r \notin timers /\ ws[r] = "open"
           \/ r \in timers /\ r \notin sockets /\ ws[r] = "none"
           \/ ws[r] = "connecting" /\ r \notin sockets /\ r \notin timers
           \/ ws[r] = "shut" /\ r \in sockets /\ r \notin timers
  BY DEF SignalInv, SignalTypes, Dialled, NoRelayForgotten, ClosedHoldsNothing
<1>1. CASE Connected(r)
  <2>1. dial = "connecting" /\ ws' = [ws EXCEPT ![r] = "open"] /\ UNCHANGED <<dial, closed, mail, adopted, sockets, timers>>
    BY <1>1 DEF Connected
  <2> QED BY <1>0, <2>1, SocketKeeps
<1>2. CASE Unreachable(r)
  <2>1. dial = "connecting" /\ ws' = [ws EXCEPT ![r] = "none"] /\ UNCHANGED <<dial, closed, mail, adopted, sockets, timers>>
    BY <1>2 DEF Unreachable
  <2> QED BY <1>0, <2>1, SocketKeeps
<1>3. CASE RelayDrops(r)
  <2>1. ws[r] = "open" /\ ~closed /\ UNCHANGED <<dial, closed, mail>>
    BY <1>0, <1>3 DEF RelayDrops
  <2>2. CASE r \in adopted
    <3>1. ws' = [ws EXCEPT ![r] = "none"] /\ adopted' = adopted \ {r} /\ sockets' = sockets \ {r} /\ timers' = timers \cup {r}
      BY <1>3, <2>1, <2>2 DEF RelayDrops
    <3> QED BY <1>0, <2>1, <2>2, <3>1, SocketKeeps
  <2>3. CASE r \notin adopted
    <3>1. ws' = [ws EXCEPT ![r] = "shut"] /\ UNCHANGED <<adopted, sockets, timers>>
      BY <1>3, <2>3 DEF RelayDrops
    <3>2. dial = "connecting"
      BY <1>0, <2>1, <2>3
    <3> QED BY <1>0, <2>1, <3>1, <3>2, SocketKeeps
  <2> QED BY <2>2, <2>3
<1>4. CASE Retry(r)
  <2>1. r \in timers /\ ~closed /\ ws' = [ws EXCEPT ![r] = "connecting"] /\ timers' = timers \ {r}
        /\ UNCHANGED <<dial, closed, mail, adopted, sockets>>
    BY <1>4 DEF Retry
  <2> QED BY <1>0, <2>1, SocketKeeps
<1>5. CASE Retried(r)
  <2>1. dial # "connecting" /\ ws[r] = "connecting" /\ UNCHANGED <<dial, timers, closed, mail>>
    BY <1>5 DEF Retried
  <2>2. CASE closed
    <3>1. ws' = [ws EXCEPT ![r] = "none"] /\ UNCHANGED <<adopted, sockets>>
      BY <1>5, <2>2 DEF Retried
    <3> QED BY <1>0, <2>1, <2>2, <3>1, SocketKeeps
  <2>3. CASE ~closed
    <3>1. ws' = [ws EXCEPT ![r] = "open"] /\ adopted' = adopted \cup {r} /\ sockets' = sockets \cup {r}
      BY <1>5, <2>3 DEF Retried
    <3> QED BY <1>0, <2>1, <2>3, <3>1, SocketKeeps
  <2> QED BY <2>2, <2>3
<1>6. CASE RetryFails(r)
  <2>1. /\ dial # "connecting" /\ ws[r] = "connecting" /\ ws' = [ws EXCEPT ![r] = "none"]
        /\ UNCHANGED <<dial, adopted, sockets, closed, mail>>
        /\ timers' = IF closed THEN timers ELSE timers \cup {r}
    BY <1>6 DEF RetryFails
  <2>2. CASE closed
    BY <1>0, <2>1, <2>2, SocketKeeps
  <2>3. CASE ~closed
    BY <1>0, <2>1, <2>3, SocketKeeps
  <2> QED BY <2>2, <2>3
<1> QED BY <1>1, <1>2, <1>3, <1>4, <1>5, <1>6

LEMMA CloseSignalKeeps ==
  ASSUME SignalInv, CloseSignal
  PROVE  SignalInv'
<1>1. /\ dial = "open" /\ ~closed /\ UNCHANGED <<dial, seen, unsealing, posted, answers>> /\ closed' = TRUE /\ timers' = {} /\ sockets' = {}
      /\ ws' = [r \in Relays |-> IF r \in sockets THEN "none" ELSE ws[r]] /\ adopted' = adopted \ sockets
  BY DEF CloseSignal
<1>2. SignalTypes' /\ MetOnce' /\ \A e \in Offers : answers'[e] <= posted'[e]
  BY <1>1 DEF SignalInv, SignalTypes, MetOnce
<1>3. Dialled' /\ NoRelayForgotten'
  BY <1>1 DEF SignalInv, Dialled, NoRelayForgotten
<1>4. ClosedHoldsNothing'
  BY <1>1 DEF SignalInv, NoRelayForgotten, ClosedHoldsNothing
<1> QED BY <1>2, <1>3, <1>4 DEF SignalInv

LEMMA MailKeeps ==
  ASSUME SignalInv, NEW e \in Offers, (\E r \in Relays : Deliver(r, e)) \/ Unsealed(e) \/ AnswerOffer(e)
  PROVE  SignalInv'
<1>1. UNCHANGED net
  BY DEF Deliver, Unsealed, AnswerOffer
<1>2. Dialled' /\ NoRelayForgotten' /\ ClosedHoldsNothing'
  BY <1>1 DEF net, SignalInv, Dialled, NoRelayForgotten, ClosedHoldsNothing
<1>3. SignalTypes
  BY DEF SignalInv
<1>4. CASE \E r \in Relays : Deliver(r, e)
  <2>1. e \notin seen /\ seen' = seen \cup {e} /\ unsealing' = unsealing \cup {e} /\ UNCHANGED <<posted, answers>>
    BY <1>4 DEF Deliver
  <2>2. MetOnce'
    BY <2>1 DEF SignalInv, MetOnce
  <2> QED BY <1>1, <1>2, <2>1, <2>2 DEF SignalInv, SignalTypes, net
<1>5. CASE Unsealed(e)
  <2>1. e \in unsealing /\ unsealing' = unsealing \ {e} /\ UNCHANGED <<seen, answers>>
        /\ (posted' = [posted EXCEPT ![e] = @ + 1] \/ posted' = posted)
    BY <1>5 DEF Unsealed
  <2>2. posted[e] = 0 /\ posted \in [Offers -> Nat]
    BY <1>3, <2>1 DEF SignalInv, MetOnce, SignalTypes
  <2>3. posted' \in [Offers -> Nat] /\ posted'[e] \in {0, 1} /\ \A c \in Offers : c # e => posted'[c] = posted[c]
    BY <2>1, <2>2
  <2>4. MetOnce'
    <3>1. \A c \in Offers : c # e => (c \in unsealing' <=> c \in unsealing)
      BY <2>1
    <3>2. e \in seen' /\ e \notin unsealing' /\ posted'[e] <= 1
      BY <2>1, <2>3 DEF SignalInv, MetOnce
    <3> QED BY <2>1, <2>3, <3>1, <3>2 DEF SignalInv, MetOnce
  <2>5. \A c \in Offers : answers'[c] <= posted'[c]
    BY <1>3, <2>1, <2>2, <2>3 DEF SignalInv, SignalTypes
  <2> QED BY <1>1, <1>2, <2>1, <2>3, <2>4, <2>5 DEF SignalInv, SignalTypes, net
<1>6. CASE AnswerOffer(e)
  <2>1. answers[e] < posted[e] /\ answers' = [answers EXCEPT ![e] = @ + 1] /\ UNCHANGED <<seen, unsealing, posted>>
    BY <1>6 DEF AnswerOffer
  <2>2. answers' \in [Offers -> Nat] /\ \A c \in Offers : answers'[c] <= posted'[c]
    BY <1>3, <2>1 DEF SignalInv, SignalTypes
  <2>3. MetOnce'
    BY <2>1 DEF SignalInv, MetOnce
  <2> QED BY <1>1, <1>2, <2>1, <2>2, <2>3 DEF SignalInv, SignalTypes, net
<1> QED BY <1>4, <1>5, <1>6

\* Whenever relays answer, drop and come back (nostr-signal.ts, openSignal): an
\* offer is acted on once; an open channel is, at each relay, subscribed, about
\* to try again or trying, and one of these only, except at a relay that dropped
\* its socket before the slowest had answered; a closed one has no timer and no
\* socket but those that still connect.
THEOREM SignalKeepsItsWord == SignalSpec => []SignalTrue
<1>1. SignalInit => SignalInv
  BY DEF SignalInit, SignalInv, SignalTypes, Dialled, MetOnce, NoRelayForgotten, ClosedHoldsNothing
<1>2. SignalInv /\ [SignalNext]_signalVars => SignalInv'
  <2> SUFFICES ASSUME SignalInv, [SignalNext]_signalVars  PROVE SignalInv'
    OBVIOUS
  <2>1. ASSUME NEW r \in Relays,
               Connected(r) \/ Unreachable(r) \/ RelayDrops(r) \/ Retry(r) \/ Retried(r) \/ RetryFails(r)
        PROVE  SignalInv'
    BY <2>1, RelayStepKeeps
  <2>2. CASE AllAnswered
    BY <2>2, AllAnsweredKeeps
  <2>3. CASE CloseSignal
    BY <2>3, CloseSignalKeeps
  <2>4. ASSUME NEW e \in Offers, (\E r \in Relays : Deliver(r, e)) \/ Unsealed(e) \/ AnswerOffer(e)  PROVE SignalInv'
    BY <2>4, MailKeeps
  <2>5. CASE UNCHANGED signalVars
    BY <2>5 DEF signalVars, net, mail, SignalInv, SignalTypes, Dialled, MetOnce, NoRelayForgotten, ClosedHoldsNothing
  <2> QED BY <2>1, <2>2, <2>3, <2>4, <2>5 DEF SignalNext
<1>3. SignalInv => SignalTrue
  BY SignalInvGives
<1> QED BY <1>1, <1>2, <1>3, PTL DEF SignalSpec

----------------------------------------------------------------------------
(* One radio, however calls, clicks and answers overlap.                    *)

RadioTypes ==
  /\ locks \in Docs \cup {"none"} /\ refs \in [Docs -> Nat]
  /\ deviceHold \in [Docs -> BOOLEAN] /\ scanHold \in [Docs -> BOOLEAN]
  /\ device \in [Docs -> {"none", "linked", "lost"}] /\ pendingPick \in [Docs -> BOOLEAN] /\ waiting \in [Docs -> BOOLEAN]
  /\ pendingScan \in [Docs -> BOOLEAN] /\ leScan \in [Docs -> BOOLEAN]
  /\ doing \in [Docs -> SUBSET Deeds] /\ loose \in [Docs -> SUBSET {"device", "scan"}]

\* One document: its references are counted, and the lock is its own while it
\* has any; its uses and what is on its way have their references, and the other
\* way round.
Counted(d) ==
  /\ refs[d] = Count(deviceHold[d]) + Count(scanHold[d])
  /\ refs[d] > 0 <=> locks = d

Used(d) ==
  /\ device[d] = "linked" \/ Picking(d) => deviceHold[d] \/ "device" \in loose[d]
  /\ deviceHold[d] => device[d] = "linked" \/ Picking(d)
  /\ leScan[d] => scanHold[d] \/ "scan" \in loose[d]
  /\ scanHold[d] => leScan[d] \/ pendingScan[d] \/ "starting" \in doing[d] \/ "stopped" \in doing[d]
  /\ waiting[d] => pendingPick[d] \/ "picker" \in doing[d]

Chip(d) == Counted(d) /\ Used(d)
RadioInv == RadioTypes /\ \A d \in Docs : Chip(d)

\* The rest of the documents are as they were.
OthersStand(d) ==
  \A e \in Docs : e # d => /\ refs'[e] = refs[e] /\ deviceHold'[e] = deviceHold[e] /\ scanHold'[e] = scanHold[e]
                           /\ device'[e] = device[e] /\ pendingPick'[e] = pendingPick[e] /\ waiting'[e] = waiting[e]
                           /\ pendingScan'[e] = pendingScan[e] /\ leScan'[e] = leScan[e] /\ doing'[e] = doing[e]
                           /\ loose'[e] = loose[e]

\* One document moves, and the lock goes to it or from it, if at all.
LEMMA RadioMoves ==
  ASSUME RadioAssumption, RadioInv, NEW d \in Docs, RadioTypes', OthersStand(d),
         locks' = locks \/ (locks \in {"none", d} /\ locks' \in {"none", d}),
         Chip(d)'
  PROVE  RadioInv'
<1>1. ASSUME NEW e \in Docs, e # d PROVE Chip(e)'
  <2>1. Chip(e)
    BY DEF RadioInv
  <2>2. e # "none"
    BY DEF RadioAssumption
  <2>3. (locks' = e) <=> (locks = e)
    BY <1>1, <2>2
  <2> QED BY <1>1, <2>1, <2>3 DEF Chip, Counted, Used, Picking, OthersStand
<1> QED BY <1>1 DEF RadioInv

\* References dropped: the lock stays with a count, and goes with the last.
LEMMA Drops ==
  ASSUME RadioAssumption, RadioInv, NEW d \in Docs, NEW n \in Nat, n <= refs[d], Drop(d, n)
  PROVE  /\ refs' \in [Docs -> Nat] /\ refs'[d] = refs[d] - n /\ \A e \in Docs : e # d => refs'[e] = refs[e]
         /\ locks' \in Docs \cup {"none"} /\ (locks' = d <=> refs'[d] > 0)
         /\ locks' = locks \/ (locks \in {"none", d} /\ locks' \in {"none", d})
<1>1. refs \in [Docs -> Nat] /\ locks \in Docs \cup {"none"} /\ (refs[d] > 0 <=> locks = d)
  BY DEF RadioInv, RadioTypes, Chip, Counted
<1>2. refs[d] - n \in Nat
  BY <1>1
<1>3. refs' = [refs EXCEPT ![d] = refs[d] - n] /\ locks' = IF n > 0 /\ refs[d] = n THEN "none" ELSE locks
  BY DEF Drop
<1>4. refs' \in [Docs -> Nat] /\ refs'[d] = refs[d] - n /\ \A e \in Docs : e # d => refs'[e] = refs[e]
  BY <1>1, <1>2, <1>3
<1>5. d # "none"
  BY DEF RadioAssumption
<1>6. locks' = d <=> refs'[d] > 0
  BY <1>1, <1>3, <1>4, <1>5
<1> QED BY <1>1, <1>3, <1>4, <1>6

\* What a document has under way keeps its type.
LEMMA TurnKeeps ==
  ASSUME RadioTypes, NEW d \in Docs, NEW a, NEW b \in SUBSET Deeds
  PROVE  /\ Swap(d, a, b) \in [Docs -> SUBSET Deeds] /\ Swap(d, a, b)[d] = (doing[d] \ a) \cup b
         /\ \A e \in Docs : e # d => Swap(d, a, b)[e] = doing[e]
BY DEF Swap, RadioTypes

\* And so does what is loose.
LEMMA LooseKeeps ==
  ASSUME RadioTypes, NEW d \in Docs, NEW use \in {"device", "scan"}, NEW yes \in BOOLEAN
  PROVE  /\ Fasten(d, use) \in [Docs -> SUBSET {"device", "scan"}] /\ Fasten(d, use)[d] = loose[d] \ {use}
         /\ Loosen(d, use, yes) \in [Docs -> SUBSET {"device", "scan"}]
         /\ yes => Loosen(d, use, yes)[d] = loose[d] \cup {use}
         /\ ~yes => Loosen(d, use, yes)[d] = loose[d]
         /\ \A e \in Docs : e # d => Fasten(d, use)[e] = loose[e] /\ Loosen(d, use, yes)[e] = loose[e]
BY DEF Fasten, Loosen, RadioTypes

----------------------------------------------------------------------------
(* The hold arrives.                                                       *)

LEMMA ConnectTakes ==
  ASSUME RadioAssumption, RadioInv, NEW d \in Docs, locks \in {"none", d}, TakeHold(d, "connect")
  PROVE  RadioInv'
<1>1. RadioTypes /\ Chip(d) /\ d # "none"
  BY DEF RadioInv, RadioAssumption
<1>2. /\ locks' = d /\ refs' = [refs EXCEPT ![d] = @ + 1 - Count(deviceHold[d])]
      /\ device' = Set(device, d, "none") /\ deviceHold' = Set(deviceHold, d, TRUE) /\ loose' = Fasten(d, "device")
      /\ doing' = Swap(d, {"connect"}, {"remembered"})
      /\ UNCHANGED <<scanHold, pendingPick, waiting, pendingScan, leScan, hears>>
  BY DEF TakeHold
<1>3. /\ doing' \in [Docs -> SUBSET Deeds] /\ doing'[d] = (doing[d] \ {"connect"}) \cup {"remembered"}
      /\ \A e \in Docs : e # d => doing'[e] = doing[e]
  BY <1>1, <1>2, TurnKeeps DEF Deeds
<1>4. /\ deviceHold' \in [Docs -> BOOLEAN] /\ deviceHold'[d] = TRUE
      /\ \A e \in Docs : e # d => deviceHold'[e] = deviceHold[e]
  BY <1>1, <1>2 DEF Set, RadioTypes
<1>5. /\ device' \in [Docs -> {"none", "linked", "lost"}] /\ device'[d] = "none"
      /\ \A e \in Docs : e # d => device'[e] = device[e]
  BY <1>1, <1>2 DEF Set, RadioTypes
<1>6. /\ loose' \in [Docs -> SUBSET {"device", "scan"}] /\ loose'[d] = loose[d] \ {"device"}
      /\ \A e \in Docs : e # d => loose'[e] = loose[e]
  BY <1>1, <1>2, LooseKeeps
<1>7. refs[d] \in Nat /\ refs[d] + 1 - Count(deviceHold[d]) \in Nat /\ refs[d] = Count(deviceHold[d]) + Count(scanHold[d])
  BY <1>1 DEF Chip, Counted, Count, RadioTypes
<1>8. /\ refs' \in [Docs -> Nat] /\ refs'[d] = 1 + Count(scanHold[d])
      /\ \A e \in Docs : e # d => refs'[e] = refs[e]
  BY <1>1, <1>2, <1>7 DEF RadioTypes, Count
<1>9. RadioTypes'
  BY <1>1, <1>2, <1>3, <1>4, <1>5, <1>6, <1>8 DEF RadioTypes
<1>10. Chip(d)'
  <2>c. Counted(d)'
    <3>1. Count(deviceHold'[d]) = 1 /\ Count(scanHold[d]) \in Nat /\ scanHold' = scanHold
      BY <1>2, <1>4 DEF Count
    <3>2. refs'[d] = Count(deviceHold'[d]) + Count(scanHold'[d])
      BY <1>2, <1>8, <3>1
    <3>3. refs'[d] > 0 /\ locks' = d
      BY <1>2, <1>8, <3>1
    <3> QED BY <3>2, <3>3 DEF Counted, Count
  <2>u. Used(d)'
    BY <1>1, <1>2, <1>3, <1>4, <1>5, <1>6, <1>8 DEF Chip, Used, Picking
  <2> QED BY <2>c, <2>u DEF Chip
<1>11. OthersStand(d)
  BY <1>2, <1>3, <1>4, <1>5, <1>6, <1>8 DEF OthersStand
<1> QED BY <1>2, <1>9, <1>10, <1>11, RadioMoves

LEMMA ClickTakes ==
  ASSUME RadioAssumption, RadioInv, NEW d \in Docs, locks \in {"none", d}, ~deviceHold[d], TakeHold(d, "click")
  PROVE  RadioInv'
<1>1. RadioTypes /\ Chip(d) /\ d # "none"
  BY DEF RadioInv, RadioAssumption
<1>2. /\ locks' = d /\ refs' = [refs EXCEPT ![d] = @ + 1]
      /\ pendingPick' = Set(pendingPick, d, FALSE) /\ deviceHold' = Set(deviceHold, d, TRUE) /\ loose' = Fasten(d, "device")
      /\ doing' = Swap(d, {"click"}, {"picker"})
      /\ UNCHANGED <<scanHold, device, waiting, pendingScan, leScan, hears>>
  BY DEF TakeHold
<1>3. /\ doing' \in [Docs -> SUBSET Deeds] /\ doing'[d] = (doing[d] \ {"click"}) \cup {"picker"}
      /\ \A e \in Docs : e # d => doing'[e] = doing[e]
  BY <1>1, <1>2, TurnKeeps DEF Deeds
<1>4. /\ deviceHold' \in [Docs -> BOOLEAN] /\ deviceHold'[d] = TRUE
      /\ \A e \in Docs : e # d => deviceHold'[e] = deviceHold[e]
  BY <1>1, <1>2 DEF Set, RadioTypes
<1>5. /\ pendingPick' \in [Docs -> BOOLEAN] /\ pendingPick'[d] = FALSE
      /\ \A e \in Docs : e # d => pendingPick'[e] = pendingPick[e]
  BY <1>1, <1>2 DEF Set, RadioTypes
<1>6. /\ loose' \in [Docs -> SUBSET {"device", "scan"}] /\ loose'[d] = loose[d] \ {"device"}
      /\ \A e \in Docs : e # d => loose'[e] = loose[e]
  BY <1>1, <1>2, LooseKeeps
<1>7. refs[d] \in Nat /\ refs[d] = Count(scanHold[d])
  BY <1>1 DEF Chip, Counted, Count, RadioTypes
<1>8. /\ refs' \in [Docs -> Nat] /\ refs'[d] = 1 + Count(scanHold[d])
      /\ \A e \in Docs : e # d => refs'[e] = refs[e]
  BY <1>1, <1>2, <1>7 DEF RadioTypes, Count
<1>9. RadioTypes'
  BY <1>1, <1>2, <1>3, <1>4, <1>5, <1>6, <1>8 DEF RadioTypes
<1>10. Chip(d)'
  <2>c. Counted(d)'
    <3>1. Count(deviceHold'[d]) = 1 /\ Count(scanHold[d]) \in Nat /\ scanHold' = scanHold
      BY <1>2, <1>4 DEF Count
    <3>2. refs'[d] = Count(deviceHold'[d]) + Count(scanHold'[d])
      BY <1>2, <1>8, <3>1
    <3>3. refs'[d] > 0 /\ locks' = d
      BY <1>2, <1>8, <3>1
    <3> QED BY <3>2, <3>3 DEF Counted, Count
  <2>u. Used(d)'
    BY <1>1, <1>2, <1>3, <1>4, <1>5, <1>6, <1>8 DEF Chip, Used, Picking
  <2> QED BY <2>c, <2>u DEF Chip
<1>11. OthersStand(d)
  BY <1>2, <1>3, <1>4, <1>5, <1>6, <1>8 DEF OthersStand
<1> QED BY <1>2, <1>9, <1>10, <1>11, RadioMoves

LEMMA ScanTakes ==
  ASSUME RadioAssumption, RadioInv, NEW d \in Docs, locks \in {"none", d}, ~scanHold[d], TakeHold(d, "scan")
  PROVE  RadioInv'
<1>1. RadioTypes /\ Chip(d) /\ d # "none"
  BY DEF RadioInv, RadioAssumption
<1>2. /\ locks' = d /\ refs' = [refs EXCEPT ![d] = @ + 1]
      /\ scanHold' = Set(scanHold, d, TRUE) /\ pendingScan' = Set(pendingScan, d, TRUE)
      /\ doing' = Swap(d, {"scan"}, {})
      /\ UNCHANGED <<deviceHold, device, pendingPick, waiting, leScan, hears, loose>>
  BY DEF TakeHold, pickState
<1>3. /\ doing' \in [Docs -> SUBSET Deeds] /\ doing'[d] = doing[d] \ {"scan"}
      /\ \A e \in Docs : e # d => doing'[e] = doing[e]
  BY <1>1, <1>2, TurnKeeps DEF Deeds
<1>4. /\ scanHold' \in [Docs -> BOOLEAN] /\ scanHold'[d] = TRUE
      /\ \A e \in Docs : e # d => scanHold'[e] = scanHold[e]
  BY <1>1, <1>2 DEF Set, RadioTypes
<1>5. /\ pendingScan' \in [Docs -> BOOLEAN] /\ pendingScan'[d] = TRUE
      /\ \A e \in Docs : e # d => pendingScan'[e] = pendingScan[e]
  BY <1>1, <1>2 DEF Set, RadioTypes
<1>7. refs[d] \in Nat /\ refs[d] = Count(deviceHold[d])
  BY <1>1 DEF Chip, Counted, Count, RadioTypes
<1>8. /\ refs' \in [Docs -> Nat] /\ refs'[d] = Count(deviceHold[d]) + 1
      /\ \A e \in Docs : e # d => refs'[e] = refs[e]
  BY <1>1, <1>2, <1>7 DEF RadioTypes, Count
<1>9. RadioTypes'
  BY <1>1, <1>2, <1>3, <1>4, <1>5, <1>8 DEF RadioTypes
<1>10. Chip(d)'
  <2>c. Counted(d)'
    <3>1. Count(scanHold'[d]) = 1 /\ Count(deviceHold[d]) \in Nat /\ deviceHold' = deviceHold
      BY <1>2, <1>4 DEF Count
    <3>2. refs'[d] = Count(deviceHold'[d]) + Count(scanHold'[d])
      BY <1>2, <1>8, <3>1
    <3>3. refs'[d] > 0 /\ locks' = d
      BY <1>2, <1>8, <3>1
    <3> QED BY <3>2, <3>3 DEF Counted, Count
  <2>u. Used(d)'
    BY <1>1, <1>2, <1>3, <1>4, <1>5, <1>8 DEF Chip, Used, Picking
  <2> QED BY <2>c, <2>u DEF Chip
<1>11. OthersStand(d)
  BY <1>2, <1>3, <1>4, <1>5, <1>8 DEF OthersStand
<1> QED BY <1>2, <1>9, <1>10, <1>11, RadioMoves

\* A hold is taken where none is, and by a click or a scan that has none.
LEMMA TakeKeeps ==
  ASSUME RadioAssumption, RadioInv, NEW d \in Docs, NEW deed \in Asking, locks \in {"none", d}, TakeHold(d, deed),
         deed = "click" => ~deviceHold[d], deed = "scan" => ~scanHold[d]
  PROVE  RadioInv'
BY ConnectTakes, ClickTakes, ScanTakes DEF Asking

\* Only the list of what is under way changes, by what is asked of the browser.
LEMMA AskedKeeps ==
  ASSUME RadioAssumption, RadioInv, NEW d \in Docs, NEW a \in SUBSET Asking, NEW b \in SUBSET Asking,
         doing' = Swap(d, a, b), UNCHANGED <<holdState, deviceHold, scanHold, pickState, scanState, loose>>
  PROVE  RadioInv'
<1>1. RadioTypes /\ Chip(d)
  BY DEF RadioInv
<1>2. /\ doing' \in [Docs -> SUBSET Deeds] /\ doing'[d] = (doing[d] \ a) \cup b
      /\ \A e \in Docs : e # d => doing'[e] = doing[e]
  BY <1>1, TurnKeeps DEF Deeds, Asking
<1>3. \A x \in {"remembered", "picker", "starting", "stopped"} : x \in doing'[d] <=> x \in doing[d]
  BY <1>2 DEF Asking
<1>4. RadioTypes' /\ OthersStand(d) /\ locks' = locks
  BY <1>1, <1>2 DEF RadioTypes, OthersStand, holdState, pickState, scanState
<1>5. Chip(d)'
  BY <1>1, <1>3 DEF Chip, Counted, Used, Picking, holdState, pickState, scanState
<1> QED BY <1>4, <1>5, RadioMoves

LEMMA AcquireKeeps ==
  ASSUME RadioAssumption, RadioInv, NEW d \in Docs, NEW deed \in Asking, Acquire(d, deed),
         deed = "click" => ~deviceHold[d], deed = "scan" => ~scanHold[d]
  PROVE  RadioInv'
<1>1. CASE refs[d] > 0 /\ TakeHold(d, deed)
  <2>1. locks = d
    BY <1>1 DEF RadioInv, Chip, Counted
  <2> QED BY <1>1, <2>1, TakeKeeps
<1>2. CASE refs[d] = 0 /\ doing' = Swap(d, {}, {deed})
           /\ UNCHANGED <<holdState, deviceHold, scanHold, pickState, scanState, loose>>
  BY <1>2, AskedKeeps
<1> QED BY <1>1, <1>2 DEF Acquire

LEMMA AnswersKeep ==
  ASSUME RadioAssumption, RadioInv, NEW d \in Docs, NEW deed \in Asking, Granted(d, deed) \/ Busy(d, deed)
  PROVE  RadioInv'
<1>1. CASE Granted(d, deed)
  <2>1. ~(locks = d)
    BY <1>1 DEF Granted, RadioAssumption
  <2>2. ~deviceHold[d] /\ ~scanHold[d]
    BY <2>1 DEF RadioInv, RadioTypes, Chip, Counted, Count
  <2> QED BY <1>1, <2>2, TakeKeeps DEF Granted
<1>2. CASE Busy(d, deed)
  BY <1>2, AskedKeeps DEF Busy
<1> QED BY <1>1, <1>2

----------------------------------------------------------------------------
(* The device.                                                             *)

LEMMA RememberedKeeps ==
  ASSUME RadioAssumption, RadioInv, NEW d \in Docs, Remembered(d)
  PROVE  RadioInv'
<1>1. RadioTypes /\ Chip(d)
  BY DEF RadioInv
<1>2. /\ doing' = Swap(d, {"remembered"}, {}) /\ "remembered" \in doing[d]
      /\ UNCHANGED <<locks, refs, deviceHold, scanHold, pendingScan, leScan, loose>>
  BY DEF Remembered, holdState, scanState
<1>3. /\ doing' \in [Docs -> SUBSET Deeds] /\ doing'[d] = doing[d] \ {"remembered"}
      /\ \A e \in Docs : e # d => doing'[e] = doing[e]
  BY <1>1, <1>2, TurnKeeps
<1>4. \E dev \in {device[d], "linked"}, b \in BOOLEAN :
        /\ b \/ dev = "linked"
        /\ device' = Set(device, d, dev) /\ pendingPick' = Set(pendingPick, d, b) /\ waiting' = Set(waiting, d, b)
  <2>1. Set(device, d, device[d]) = device
    BY <1>1 DEF Set, RadioTypes
  <2>2. CASE Adopt(d)
    BY <2>2 DEF Adopt
  <2>3. CASE pendingPick' = Set(pendingPick, d, TRUE) /\ waiting' = Set(waiting, d, TRUE) /\ UNCHANGED device
    BY <2>1, <2>3
  <2> QED BY <2>2, <2>3 DEF Remembered
<1>5. PICK dev \in {device[d], "linked"}, b \in BOOLEAN :
        /\ b \/ dev = "linked"
        /\ device' = Set(device, d, dev) /\ pendingPick' = Set(pendingPick, d, b) /\ waiting' = Set(waiting, d, b)
  BY <1>4
<1>6. /\ device' \in [Docs -> {"none", "linked", "lost"}] /\ device'[d] = dev
      /\ \A e \in Docs : e # d => device'[e] = device[e]
  BY <1>1, <1>5 DEF Set, RadioTypes
<1>7. /\ pendingPick' \in [Docs -> BOOLEAN] /\ pendingPick'[d] = b
      /\ \A e \in Docs : e # d => pendingPick'[e] = pendingPick[e]
  BY <1>1, <1>5 DEF Set, RadioTypes
<1>8. /\ waiting' \in [Docs -> BOOLEAN] /\ waiting'[d] = b
      /\ \A e \in Docs : e # d => waiting'[e] = waiting[e]
  BY <1>1, <1>5 DEF Set, RadioTypes
<1>9. RadioTypes' /\ OthersStand(d)
  BY <1>1, <1>2, <1>3, <1>6, <1>7, <1>8 DEF RadioTypes, OthersStand
<1>10. Chip(d)'
  <2>c. Counted(d)'
    BY <1>1, <1>2, <1>3, <1>5, <1>6, <1>7, <1>8 DEF Chip, Counted, Count
  <2>u. Used(d)'
    BY <1>1, <1>2, <1>3, <1>5, <1>6, <1>7, <1>8 DEF Chip, Used, Picking
  <2> QED BY <2>c, <2>u DEF Chip
<1> QED BY <1>2, <1>9, <1>10, RadioMoves

LEMMA OpenPickerKeeps ==
  ASSUME RadioAssumption, RadioInv, NEW d \in Docs, OpenPicker(d)
  PROVE  RadioInv'
<1>1. RadioTypes /\ Chip(d)
  BY DEF RadioInv
<1>2. /\ doing' = Swap(d, {}, {"picker"}) /\ pendingPick' = Set(pendingPick, d, FALSE)
      /\ pendingPick[d] \/ deviceHold[d]
      /\ UNCHANGED <<locks, refs, deviceHold, scanHold, device, waiting, pendingScan, leScan, loose>>
  BY DEF OpenPicker, holdState, scanState
<1>3. /\ doing' \in [Docs -> SUBSET Deeds] /\ doing'[d] = doing[d] \cup {"picker"}
      /\ \A e \in Docs : e # d => doing'[e] = doing[e]
  BY <1>1, <1>2, TurnKeeps DEF Deeds
<1>4. /\ pendingPick' \in [Docs -> BOOLEAN] /\ pendingPick'[d] = FALSE
      /\ \A e \in Docs : e # d => pendingPick'[e] = pendingPick[e]
  BY <1>1, <1>2 DEF Set, RadioTypes
<1>5. RadioTypes' /\ OthersStand(d)
  BY <1>1, <1>2, <1>3, <1>4 DEF RadioTypes, OthersStand
<1>6. Chip(d)'
  <2>c. Counted(d)'
    BY <1>1, <1>2, <1>3, <1>4 DEF Chip, Counted, Count
  <2>u. Used(d)'
    BY <1>1, <1>2, <1>3, <1>4 DEF Chip, Used, Picking
  <2> QED BY <2>c, <2>u DEF Chip
<1> QED BY <1>2, <1>5, <1>6, RadioMoves

\* The device's reference dropped, with what that does to the document.
LEMMA DeviceDrops ==
  ASSUME RadioAssumption, RadioInv, NEW d \in Docs, NEW still \in BOOLEAN, DropDevice(d, still)
  PROVE  /\ refs' \in [Docs -> Nat] /\ refs'[d] = Count(scanHold[d]) /\ \A e \in Docs : e # d => refs'[e] = refs[e]
         /\ locks' \in Docs \cup {"none"} /\ (locks' = d <=> refs'[d] > 0)
         /\ locks' = locks \/ (locks \in {"none", d} /\ locks' \in {"none", d})
         /\ deviceHold' \in [Docs -> BOOLEAN] /\ deviceHold'[d] = FALSE
         /\ \A e \in Docs : e # d => deviceHold'[e] = deviceHold[e]
         /\ loose' \in [Docs -> SUBSET {"device", "scan"}] /\ \A e \in Docs : e # d => loose'[e] = loose[e]
         /\ (still => loose'[d] = loose[d] \cup {"device"}) /\ (~still => loose'[d] = loose[d])
<1>1. RadioTypes /\ Chip(d)
  BY DEF RadioInv
<1> DEFINE n == Count(deviceHold[d])
<1>2. n \in Nat /\ n <= refs[d] /\ refs[d] - n = Count(scanHold[d])
  BY <1>1 DEF Chip, Counted, Count, RadioTypes
<1>3. Drop(d, n) /\ deviceHold' = Set(deviceHold, d, FALSE) /\ loose' = Loosen(d, "device", still)
  BY DEF DropDevice
<1> HIDE DEF n
<1>4. /\ refs' \in [Docs -> Nat] /\ refs'[d] = Count(scanHold[d]) /\ \A e \in Docs : e # d => refs'[e] = refs[e]
      /\ locks' \in Docs \cup {"none"} /\ (locks' = d <=> refs'[d] > 0)
      /\ locks' = locks \/ (locks \in {"none", d} /\ locks' \in {"none", d})
  BY <1>2, <1>3, Drops
<1>5. /\ deviceHold' \in [Docs -> BOOLEAN] /\ deviceHold'[d] = FALSE
      /\ \A e \in Docs : e # d => deviceHold'[e] = deviceHold[e]
  BY <1>1, <1>3 DEF Set, RadioTypes
<1>6. /\ loose' \in [Docs -> SUBSET {"device", "scan"}] /\ \A e \in Docs : e # d => loose'[e] = loose[e]
      /\ (still => loose'[d] = loose[d] \cup {"device"}) /\ (~still => loose'[d] = loose[d])
  BY <1>1, <1>3, LooseKeeps
<1> QED BY <1>4, <1>5, <1>6

LEMMA PickedKeeps ==
  ASSUME RadioAssumption, RadioInv, NEW d \in Docs, Picked(d)
  PROVE  RadioInv'
<1>1. RadioTypes /\ Chip(d)
  BY DEF RadioInv
<1>2. /\ doing' = Swap(d, {"picker"}, {}) /\ "picker" \in doing[d]
      /\ UNCHANGED <<scanHold, pendingScan, leScan>>
      /\ pendingPick' = Set(pendingPick, d, FALSE) /\ waiting' = Set(waiting, d, FALSE)
  BY DEF Picked, Adopt, scanState
<1>3. /\ doing' \in [Docs -> SUBSET Deeds] /\ doing'[d] = doing[d] \ {"picker"}
      /\ \A e \in Docs : e # d => doing'[e] = doing[e]
  BY <1>1, <1>2, TurnKeeps
<1>4. /\ pendingPick' \in [Docs -> BOOLEAN] /\ pendingPick'[d] = FALSE
      /\ \A e \in Docs : e # d => pendingPick'[e] = pendingPick[e]
  BY <1>1, <1>2 DEF Set, RadioTypes
<1>5. /\ waiting' \in [Docs -> BOOLEAN] /\ waiting'[d] = FALSE
      /\ \A e \in Docs : e # d => waiting'[e] = waiting[e]
  BY <1>1, <1>2 DEF Set, RadioTypes
<1>6. CASE device' = Set(device, d, "linked") /\ UNCHANGED <<locks, refs, deviceHold, loose>>
  <2>1. /\ device' \in [Docs -> {"none", "linked", "lost"}] /\ device'[d] = "linked"
        /\ \A e \in Docs : e # d => device'[e] = device[e]
    BY <1>1, <1>6 DEF Set, RadioTypes
  <2>2. RadioTypes' /\ OthersStand(d)
    BY <1>1, <1>2, <1>3, <1>4, <1>5, <1>6, <2>1 DEF RadioTypes, OthersStand
  <2>3. Chip(d)'
    <3>c. Counted(d)'
      BY <1>1, <1>2, <1>3, <1>4, <1>5, <1>6, <2>1 DEF Chip, Counted, Count
    <3>u. Used(d)'
      BY <1>1, <1>2, <1>3, <1>4, <1>5, <1>6, <2>1 DEF Chip, Used, Picking
    <3> QED BY <3>c, <3>u DEF Chip
  <2> QED BY <1>6, <2>2, <2>3, RadioMoves
<1>7. CASE DropDevice(d, device[d] = "linked" \/ "remembered" \in doing[d]) /\ UNCHANGED device
  <2> DEFINE still == device[d] = "linked" \/ "remembered" \in doing[d]
  <2>1. still \in BOOLEAN /\ DropDevice(d, still)
    BY <1>7
  <2>2. still => device[d] = "linked" \/ "remembered" \in doing[d]
    OBVIOUS
  <2>3. device[d] = "linked" \/ "remembered" \in doing[d] => still
    OBVIOUS
  <2> HIDE DEF still
  <2>4. /\ refs' \in [Docs -> Nat] /\ refs'[d] = Count(scanHold[d]) /\ \A e \in Docs : e # d => refs'[e] = refs[e]
        /\ locks' \in Docs \cup {"none"} /\ (locks' = d <=> refs'[d] > 0)
        /\ locks' = locks \/ (locks \in {"none", d} /\ locks' \in {"none", d})
        /\ deviceHold' \in [Docs -> BOOLEAN] /\ deviceHold'[d] = FALSE
        /\ \A e \in Docs : e # d => deviceHold'[e] = deviceHold[e]
        /\ loose' \in [Docs -> SUBSET {"device", "scan"}] /\ \A e \in Docs : e # d => loose'[e] = loose[e]
        /\ (still => loose'[d] = loose[d] \cup {"device"}) /\ (~still => loose'[d] = loose[d])
    BY <2>1, DeviceDrops
  <2>5. RadioTypes' /\ OthersStand(d)
    BY <1>1, <1>2, <1>3, <1>4, <1>5, <1>7, <2>4 DEF RadioTypes, OthersStand
  <2>6. Chip(d)'
    <3>c. Counted(d)'
      BY <1>1, <1>2, <1>3, <1>4, <1>5, <1>7, <2>3, <2>4 DEF Chip, Counted, Count
    <3>u. Used(d)'
      BY <1>1, <1>2, <1>3, <1>4, <1>5, <1>7, <2>3, <2>4 DEF Chip, Used, Picking
    <3> QED BY <3>c, <3>u DEF Chip
  <2> QED BY <2>4, <2>5, <2>6, RadioMoves
<1> QED BY <1>6, <1>7 DEF Picked, Adopt, holdState

LEMMA DisconnectedKeeps ==
  ASSUME RadioAssumption, RadioInv, NEW d \in Docs, Disconnected(d)
  PROVE  RadioInv'
<1>1. RadioTypes /\ Chip(d)
  BY DEF RadioInv
<1>2. /\ device' = Set(device, d, "lost")
      /\ UNCHANGED <<scanHold, pendingPick, waiting, pendingScan, leScan, doing>>
  BY DEF Disconnected, scanState
<1>3. /\ device' \in [Docs -> {"none", "linked", "lost"}] /\ device'[d] = "lost"
      /\ \A e \in Docs : e # d => device'[e] = device[e]
  BY <1>1, <1>2 DEF Set, RadioTypes
<1> DEFINE still == Picking(d)
<1>4. still \in BOOLEAN /\ DropDevice(d, still)
  BY <1>1 DEF Disconnected, Picking, RadioTypes
<1>5. pendingPick[d] \/ "remembered" \in doing[d] \/ "picker" \in doing[d] => still
  BY DEF Picking
<1> HIDE DEF still
<1>6. /\ refs' \in [Docs -> Nat] /\ refs'[d] = Count(scanHold[d]) /\ \A e \in Docs : e # d => refs'[e] = refs[e]
      /\ locks' \in Docs \cup {"none"} /\ (locks' = d <=> refs'[d] > 0)
      /\ locks' = locks \/ (locks \in {"none", d} /\ locks' \in {"none", d})
      /\ deviceHold' \in [Docs -> BOOLEAN] /\ deviceHold'[d] = FALSE
      /\ \A e \in Docs : e # d => deviceHold'[e] = deviceHold[e]
      /\ loose' \in [Docs -> SUBSET {"device", "scan"}] /\ \A e \in Docs : e # d => loose'[e] = loose[e]
      /\ (still => loose'[d] = loose[d] \cup {"device"}) /\ (~still => loose'[d] = loose[d])
  BY <1>4, DeviceDrops
<1>7. RadioTypes' /\ OthersStand(d)
  BY <1>1, <1>2, <1>3, <1>6 DEF RadioTypes, OthersStand
<1>8. Chip(d)'
  <2>c. Counted(d)'
    BY <1>1, <1>2, <1>3, <1>5, <1>6 DEF Chip, Counted, Count
  <2>u. Used(d)'
    BY <1>1, <1>2, <1>3, <1>5, <1>6 DEF Chip, Used, Picking
  <2> QED BY <2>c, <2>u DEF Chip
<1> QED BY <1>6, <1>7, <1>8, RadioMoves

----------------------------------------------------------------------------
(* The scan.                                                               *)

LEMMA ScanKeeps ==
  ASSUME RadioAssumption, RadioInv, NEW d \in Docs, Scan(d)
  PROVE  RadioInv'
<1>1. CASE ~scanHold[d] /\ Acquire(d, "scan")
  BY <1>1, AcquireKeeps DEF Asking
<1>2. CASE /\ scanHold[d] /\ pendingScan' = Set(pendingScan, d, TRUE)
           /\ UNCHANGED <<holdState, deviceHold, scanHold, pickState, leScan, hears, doing, loose>>
  <2>1. RadioTypes /\ Chip(d)
    BY DEF RadioInv
  <2>2. /\ pendingScan' \in [Docs -> BOOLEAN] /\ pendingScan'[d] = TRUE
        /\ \A e \in Docs : e # d => pendingScan'[e] = pendingScan[e]
    BY <2>1, <1>2 DEF Set, RadioTypes
  <2>3. RadioTypes' /\ OthersStand(d) /\ locks' = locks
    BY <2>1, <2>2, <1>2 DEF RadioTypes, OthersStand, holdState, pickState
  <2>4. Chip(d)'
    <3>c. Counted(d)'
      BY <2>1, <1>2 DEF Chip, Counted, Count, holdState
    <3>u. Used(d)'
      BY <2>1, <2>2, <1>2 DEF Chip, Used, Picking, pickState
    <3> QED BY <3>c, <3>u DEF Chip
  <2> QED BY <2>3, <2>4, RadioMoves
<1> QED BY <1>1, <1>2 DEF Scan

LEMMA StartScanKeeps ==
  ASSUME RadioAssumption, RadioInv, NEW d \in Docs, StartScan(d)
  PROVE  RadioInv'
<1>1. RadioTypes /\ Chip(d)
  BY DEF RadioInv
<1>2. /\ doing' = Swap(d, {}, {"starting"}) /\ pendingScan' = Set(pendingScan, d, FALSE)
      /\ UNCHANGED <<locks, refs, deviceHold, scanHold, device, pendingPick, waiting, leScan, loose>>
  BY DEF StartScan, holdState, pickState
<1>3. /\ doing' \in [Docs -> SUBSET Deeds] /\ doing'[d] = doing[d] \cup {"starting"}
      /\ \A e \in Docs : e # d => doing'[e] = doing[e]
  BY <1>1, <1>2, TurnKeeps DEF Deeds
<1>4. /\ pendingScan' \in [Docs -> BOOLEAN] /\ \A e \in Docs : e # d => pendingScan'[e] = pendingScan[e]
  BY <1>1, <1>2 DEF Set, RadioTypes
<1>5. RadioTypes' /\ OthersStand(d)
  BY <1>1, <1>2, <1>3, <1>4 DEF RadioTypes, OthersStand
<1>6. Chip(d)'
  <2>c. Counted(d)'
    BY <1>1, <1>2 DEF Chip, Counted, Count
  <2>u. Used(d)'
    BY <1>1, <1>2, <1>3 DEF Chip, Used, Picking
  <2> QED BY <2>c, <2>u DEF Chip
<1> QED BY <1>2, <1>5, <1>6, RadioMoves

\* A scan stopped, and n references dropped.
LEMMA ScanStops ==
  ASSUME RadioTypes, NEW d \in Docs, StopScan(d)
  PROVE  /\ leScan' \in [Docs -> BOOLEAN] /\ leScan'[d] = FALSE /\ \A e \in Docs : e # d => leScan'[e] = leScan[e]
         /\ pendingScan' \in [Docs -> BOOLEAN] /\ \A e \in Docs : e # d => pendingScan'[e] = pendingScan[e]
         /\ scanHold' \in [Docs -> BOOLEAN] /\ scanHold'[d] = FALSE /\ \A e \in Docs : e # d => scanHold'[e] = scanHold[e]
BY DEF StopScan, Set, RadioTypes

LEMMA ScanDrops ==
  ASSUME RadioAssumption, RadioInv, NEW d \in Docs, StopScan(d), Drop(d, Count(scanHold[d])), loose' = Fasten(d, "scan"),
         NEW a, NEW b \in SUBSET {"stopped"}, a \cap {"remembered", "picker"} = {}, doing' = Swap(d, a, b),
         UNCHANGED <<deviceHold, pickState>>
  PROVE  RadioInv'
<1>1. RadioTypes /\ Chip(d)
  BY DEF RadioInv
<1> DEFINE n == Count(scanHold[d])
<1>2. n \in Nat /\ n <= refs[d] /\ refs[d] - n = Count(deviceHold[d])
  BY <1>1 DEF Chip, Counted, Count, RadioTypes
<1>3. Drop(d, n)
  OBVIOUS
<1> HIDE DEF n
<1>4. /\ refs' \in [Docs -> Nat] /\ refs'[d] = Count(deviceHold[d]) /\ \A e \in Docs : e # d => refs'[e] = refs[e]
      /\ locks' \in Docs \cup {"none"} /\ (locks' = d <=> refs'[d] > 0)
      /\ locks' = locks \/ (locks \in {"none", d} /\ locks' \in {"none", d})
  BY <1>2, <1>3, Drops
<1>5. /\ leScan' \in [Docs -> BOOLEAN] /\ leScan'[d] = FALSE /\ \A e \in Docs : e # d => leScan'[e] = leScan[e]
      /\ pendingScan' \in [Docs -> BOOLEAN] /\ \A e \in Docs : e # d => pendingScan'[e] = pendingScan[e]
      /\ scanHold' \in [Docs -> BOOLEAN] /\ scanHold'[d] = FALSE /\ \A e \in Docs : e # d => scanHold'[e] = scanHold[e]
  BY <1>1, ScanStops
<1>6. /\ loose' \in [Docs -> SUBSET {"device", "scan"}] /\ loose'[d] = loose[d] \ {"scan"}
      /\ \A e \in Docs : e # d => loose'[e] = loose[e]
  BY <1>1, LooseKeeps
<1>b. b \in SUBSET Deeds
  BY DEF Deeds
<1>7. /\ doing' \in [Docs -> SUBSET Deeds] /\ doing'[d] = (doing[d] \ a) \cup b
      /\ \A e \in Docs : e # d => doing'[e] = doing[e]
  BY <1>1, <1>b, TurnKeeps
<1>8. \A x \in {"remembered", "picker"} : x \in doing'[d] <=> x \in doing[d]
  BY <1>7
<1>9. RadioTypes' /\ OthersStand(d)
  BY <1>1, <1>4, <1>5, <1>6, <1>7 DEF RadioTypes, OthersStand, pickState
<1>10. Chip(d)'
  <2>c. Counted(d)'
    BY <1>4, <1>5 DEF Counted, Count
  <2>u. Used(d)'
    BY <1>1, <1>5, <1>6, <1>8 DEF Chip, Used, Picking, pickState
  <2> QED BY <2>c, <2>u DEF Chip
<1> QED BY <1>4, <1>9, <1>10, RadioMoves

LEMMA ScanningKeeps ==
  ASSUME RadioAssumption, RadioInv, NEW d \in Docs, NEW how \in {"starting", "stopped"}, Scanning(d, how)
  PROVE  RadioInv'
<1>1. CASE StopScan(d) /\ Drop(d, Count(scanHold[d])) /\ loose' = Fasten(d, "scan")
  BY <1>1, ScanDrops DEF Scanning
<1>2. CASE /\ leScan' = Set(leScan, d, TRUE) /\ UNCHANGED <<holdState, scanHold, pendingScan, hears>>
           /\ loose' = Loosen(d, "scan", ~scanHold[d])
  <2>1. RadioTypes /\ Chip(d)
    BY DEF RadioInv
  <2>2. /\ leScan' \in [Docs -> BOOLEAN] /\ leScan'[d] = TRUE /\ \A e \in Docs : e # d => leScan'[e] = leScan[e]
    BY <1>2, <2>1 DEF Set, RadioTypes
  <2>3. /\ loose' \in [Docs -> SUBSET {"device", "scan"}] /\ \A e \in Docs : e # d => loose'[e] = loose[e]
        /\ loose[d] \subseteq loose'[d] /\ (scanHold[d] \/ "scan" \in loose'[d]) /\ ("device" \in loose[d] => "device" \in loose'[d])
    BY <1>2, <2>1, LooseKeeps
  <2>4. /\ doing' \in [Docs -> SUBSET Deeds] /\ doing'[d] = doing[d] \ {how}
        /\ \A e \in Docs : e # d => doing'[e] = doing[e]
    BY <2>1, TurnKeeps DEF Scanning
  <2>5. RadioTypes' /\ OthersStand(d) /\ locks' = locks
    BY <1>2, <2>1, <2>2, <2>3, <2>4 DEF RadioTypes, OthersStand, Scanning, holdState, pickState
  <2>6. Chip(d)'
    <3>c. Counted(d)'
      BY <1>2, <2>1 DEF Chip, Counted, Count, Scanning, holdState
    <3>1. \A x \in {"remembered", "picker"} : x \in doing'[d] <=> x \in doing[d]
      BY <2>4
    <3>2. UNCHANGED <<scanHold, deviceHold, device, pendingPick, waiting>>
      BY <1>2 DEF Scanning, pickState
    <3>u. Used(d)'
      BY <2>1, <2>2, <2>3, <3>1, <3>2 DEF Chip, Used, Picking
    <3> QED BY <3>c, <3>u DEF Chip
  <2> QED BY <2>5, <2>6, RadioMoves
<1> QED BY <1>1, <1>2 DEF Scanning

LEMMA ScanOffKeeps ==
  ASSUME RadioAssumption, RadioInv, NEW d \in Docs, ScanOff(d)
  PROVE  RadioInv'
<1> DEFINE b == IF "starting" \in doing[d] THEN {"stopped"} ELSE {}
<1>1. b \in SUBSET {"stopped"} /\ doing' = Swap(d, {"starting"}, b)
  BY DEF ScanOff, Told
<1> HIDE DEF b
<1> QED BY <1>1, ScanDrops DEF ScanOff

LEMMA DisconnectKeeps ==
  ASSUME RadioAssumption, RadioInv, NEW d \in Docs, Disconnect(d)
  PROVE  RadioInv'
<1>1. RadioTypes /\ Chip(d)
  BY DEF RadioInv
<1> DEFINE n == Count(scanHold[d]) + Count(deviceHold[d])
           b == IF "starting" \in doing[d] THEN {"stopped"} ELSE {}
<1>2. n \in Nat /\ n <= refs[d] /\ refs[d] - n = 0
  BY <1>1 DEF Chip, Counted, Count, RadioTypes
<1>3. Drop(d, n)
  BY DEF Disconnect
<1> HIDE DEF n
<1>4. /\ refs' \in [Docs -> Nat] /\ refs'[d] = 0 /\ \A e \in Docs : e # d => refs'[e] = refs[e]
      /\ locks' \in Docs \cup {"none"} /\ (locks' = d <=> refs'[d] > 0)
      /\ locks' = locks \/ (locks \in {"none", d} /\ locks' \in {"none", d})
  BY <1>2, <1>3, Drops
<1>5. /\ leScan' \in [Docs -> BOOLEAN] /\ leScan'[d] = FALSE /\ \A e \in Docs : e # d => leScan'[e] = leScan[e]
      /\ pendingScan' \in [Docs -> BOOLEAN] /\ \A e \in Docs : e # d => pendingScan'[e] = pendingScan[e]
      /\ scanHold' \in [Docs -> BOOLEAN] /\ scanHold'[d] = FALSE /\ \A e \in Docs : e # d => scanHold'[e] = scanHold[e]
  BY <1>1, ScanStops DEF Disconnect
<1>6. b \in SUBSET Deeds /\ doing' = Swap(d, {"starting"}, b) /\ b \cap {"remembered", "picker"} = {}
  BY DEF Disconnect, Told, Deeds
<1> HIDE DEF b
<1>7. /\ doing' \in [Docs -> SUBSET Deeds] /\ doing'[d] = (doing[d] \ {"starting"}) \cup b
      /\ \A e \in Docs : e # d => doing'[e] = doing[e]
  BY <1>1, <1>6, TurnKeeps
<1>8. \A x \in {"remembered", "picker"} : x \in doing'[d] <=> x \in doing[d]
  BY <1>6, <1>7
<1>9. /\ device' \in [Docs -> {"none", "linked", "lost"}] /\ device'[d] = "none"
      /\ \A e \in Docs : e # d => device'[e] = device[e]
  BY <1>1 DEF Disconnect, Set, RadioTypes
<1>10. /\ deviceHold' \in [Docs -> BOOLEAN] /\ deviceHold'[d] = FALSE
       /\ \A e \in Docs : e # d => deviceHold'[e] = deviceHold[e]
  BY <1>1 DEF Disconnect, Set, RadioTypes
<1>11. /\ loose' \in [Docs -> SUBSET {"device", "scan"}] /\ \A e \in Docs : e # d => loose'[e] = loose[e]
       /\ Picking(d) => "device" \in loose'[d]
  BY <1>1 DEF Disconnect, Set, RadioTypes
<1>12. UNCHANGED <<pendingPick, waiting>>
  BY DEF Disconnect
<1>13. RadioTypes' /\ OthersStand(d)
  BY <1>1, <1>4, <1>5, <1>7, <1>9, <1>10, <1>11, <1>12 DEF RadioTypes, OthersStand
<1>14. Chip(d)'
  <2>c. Counted(d)'
    BY <1>4, <1>5, <1>10 DEF Counted, Count
  <2>u. Used(d)'
    BY <1>1, <1>5, <1>8, <1>9, <1>10, <1>11, <1>12 DEF Chip, Used, Picking
  <2> QED BY <2>c, <2>u DEF Chip
<1> QED BY <1>4, <1>13, <1>14, RadioMoves

LEMMA DocClosesKeeps ==
  ASSUME RadioAssumption, RadioInv, NEW d \in Docs, DocCloses(d)
  PROVE  RadioInv'
<1>1. RadioTypes /\ Chip(d) /\ d # "none"
  BY DEF RadioInv, RadioAssumption
<1>2. /\ leScan' \in [Docs -> BOOLEAN] /\ leScan'[d] = FALSE /\ \A e \in Docs : e # d => leScan'[e] = leScan[e]
      /\ pendingScan' \in [Docs -> BOOLEAN] /\ \A e \in Docs : e # d => pendingScan'[e] = pendingScan[e]
      /\ scanHold' \in [Docs -> BOOLEAN] /\ scanHold'[d] = FALSE /\ \A e \in Docs : e # d => scanHold'[e] = scanHold[e]
  BY <1>1, ScanStops DEF DocCloses
<1>3. /\ refs' \in [Docs -> Nat] /\ refs'[d] = 0 /\ \A e \in Docs : e # d => refs'[e] = refs[e]
  BY <1>1 DEF DocCloses, Set, RadioTypes
<1>4. /\ device' \in [Docs -> {"none", "linked", "lost"}] /\ device'[d] = "none"
      /\ \A e \in Docs : e # d => device'[e] = device[e]
  BY <1>1 DEF DocCloses, Set, RadioTypes
<1>5. /\ deviceHold' \in [Docs -> BOOLEAN] /\ deviceHold'[d] = FALSE
      /\ \A e \in Docs : e # d => deviceHold'[e] = deviceHold[e]
  BY <1>1 DEF DocCloses, Set, RadioTypes
<1>6. /\ pendingPick' \in [Docs -> BOOLEAN] /\ pendingPick'[d] = FALSE
      /\ \A e \in Docs : e # d => pendingPick'[e] = pendingPick[e]
  BY <1>1 DEF DocCloses, Set, RadioTypes
<1>7. /\ waiting' \in [Docs -> BOOLEAN] /\ waiting'[d] = FALSE
      /\ \A e \in Docs : e # d => waiting'[e] = waiting[e]
  BY <1>1 DEF DocCloses, Set, RadioTypes
<1>8. /\ doing' \in [Docs -> SUBSET Deeds] /\ doing'[d] = {} /\ \A e \in Docs : e # d => doing'[e] = doing[e]
      /\ loose' \in [Docs -> SUBSET {"device", "scan"}] /\ \A e \in Docs : e # d => loose'[e] = loose[e]
  BY <1>1 DEF DocCloses, Set, RadioTypes
<1>9. locks' = IF locks = d THEN "none" ELSE locks
  BY DEF DocCloses
<1>10. RadioTypes' /\ OthersStand(d)
  BY <1>1, <1>2, <1>3, <1>4, <1>5, <1>6, <1>7, <1>8, <1>9 DEF RadioTypes, OthersStand
<1>11. Chip(d)'
  <2>c. Counted(d)'
    BY <1>1, <1>2, <1>3, <1>5, <1>9 DEF Counted, Count
  <2>u. Used(d)'
    BY <1>2, <1>4, <1>5, <1>6, <1>7, <1>8 DEF Used, Picking
  <2> QED BY <2>c, <2>u DEF Chip
<1> QED BY <1>9, <1>10, <1>11, RadioMoves

----------------------------------------------------------------------------
LEMMA RadioStarts == ASSUME RadioAssumption, RadioInit PROVE RadioInv
<1>1. RadioTypes
  BY DEF RadioInit, RadioTypes, Off
<1>2. ASSUME NEW d \in Docs PROVE Chip(d)
  <2>1. d # "none"
    BY DEF RadioAssumption
  <2> QED BY <2>1 DEF RadioInit, Off, Chip, Counted, Used, Picking, Count
<1> QED BY <1>1, <1>2 DEF RadioInv

LEMMA RadioStep == ASSUME RadioAssumption, RadioInv, [RadioNext]_radioVars PROVE RadioInv'
<1>1. CASE UNCHANGED radioVars
  BY <1>1 DEF radioVars, holdState, pickState, scanState, RadioInv, RadioTypes, Chip, Counted, Used, Picking
<1>2. ASSUME NEW d \in Docs, Connect(d) \/ ClickIdle(d) PROVE RadioInv'
  <2>1. \E deed \in Asking : Acquire(d, deed) /\ (deed = "click" => ~deviceHold[d]) /\ deed # "scan"
    BY <1>2 DEF Connect, ClickIdle, Asking
  <2> QED BY <2>1, AcquireKeeps
<1>3. CASE RadioNext
  BY <1>2, <1>3, RememberedKeeps, OpenPickerKeeps, PickedKeeps, DisconnectedKeeps, ScanKeeps, StartScanKeeps,
     ScanningKeeps, ScanOffKeeps, DisconnectKeeps, DocClosesKeeps, AnswersKeep DEF RadioNext
<1> QED BY <1>1, <1>3

LEMMA RadioSays == RadioInv => RadioTrue
<1> SUFFICES ASSUME RadioInv PROVE RadioTrue
  OBVIOUS
<1>1. UseIsHeld /\ Answerable
  BY DEF UseIsHeld, Answerable, RadioInv, Chip, Used
<1>2. RefsExact
  BY DEF RefsExact, RadioInv, Chip, Counted
<1>3. GivenBack
  BY DEF GivenBack, RadioInv, Chip, Used
<1> QED BY <1>1, <1>2, <1>3 DEF RadioTrue

\* The radio of an origin is used under its lock, but for the uses whose hold was
\* dropped while they were on their way; each reference to it is counted once,
\* dropped once, and goes back when nothing is left to use it; and whoever waits
\* for a pick can get one: for any number of documents, however their calls, clicks
\* and answers overlap, whatever the lock answers and whichever document closes.
THEOREM OneRadioPerOrigin == ASSUME RadioAssumption PROVE RadioSpec => []RadioTrue
<1>1. RadioInit => RadioInv
  BY RadioStarts
<1>2. RadioInv /\ [RadioNext]_radioVars => RadioInv'
  BY RadioStep
<1>3. RadioInv => RadioTrue
  BY RadioSays
<1> QED BY <1>1, <1>2, <1>3, PTL DEF RadioSpec

----------------------------------------------------------------------------
(* The network's panel, where the address of the page names no relay.       *)

NetKinds    == {"wsproxy", "wisp"}
Boxes    == Addresses \cup {"typo"}
Statuses == {"none", "testing", "mixed", "policy", "denied", "insecure", "ok", "failed", "timeout"}

PanelRecords ==
  [view : {"none", "settings", "bridge"}, choice : NetKinds \cup {"host", "bridge"}, leg : BOOLEAN,
   wsproxy : Boxes, wisp : Boxes, seq : Nat,
   probe : [kind : NetKinds \cup {"none"}, status : Statuses, of : Addresses \cup {"none"}],
   sig : {"room", "manual"}, form : {"idle", "joining", "manual-join"}]

ProbeRecords == [seq : Nat, kind : NetKinds, url : Addresses, at : {"gate", "socket"}]

NetTypeOK ==
  /\ stored \in {"host", "bridge"} \cup Addresses /\ stored = wanted
  /\ pane \in [Panes -> {"closed", "loading", "up"}] /\ restarts \in Nat
  /\ backend \in [Panes -> {"none", "inbrowser"} \cup Addresses]
  /\ panel \in [Panes -> PanelRecords] /\ probes \in [Panes -> SUBSET ProbeRecords]
  /\ room \in [Panes -> {"none", "inviting", "answering", "signalling", "on", "over"}]
  /\ naming \in [Panes -> SUBSET {"host", "join", "invite", "answer"}]
  /\ health \in [Panes -> {"null", "ok", "connecting", "down"}]
  /\ framed \/ \A p \in Panes \ {First} : pane[p] = "closed"

\* A panel and the probes it waits for: the verdict, and the one that will
\* come for it, are of the address in the box.
Verified(shown, out) ==
  /\ shown.view = "none" => out = {}
  /\ shown.probe.kind # "none" => shown[shown.probe.kind] = shown.probe.of
  /\ shown.probe.status = "testing" => \E q \in out : q.seq = shown.seq
  /\ \A q \in out : q.seq <= shown.seq /\ (q.seq = shown.seq => shown[q.kind] = q.url)

\* Settings that do not know of a relay are right about it, or all starts over.
LegTrue(shown) == restarts = 0 /\ shown.view = "settings" /\ ~shown.leg => stored \notin Addresses

\* A page's machine, and what hangs on how it was made.
WiredTrue(p) ==
  /\ pane[p] = "up" => backend[p] = Backend(stored) \/ restarts > 0
  /\ pane[p] # "up" => room[p] = "none" /\ naming[p] = {} /\ health[p] = "null"
  /\ BridgeLive(p) \/ naming[p] # {} => backend[p] = "inbrowser"
  /\ health[p] \in {"ok", "down"} => backend[p] \in Addresses

NetInv ==
  /\ NetTypeOK
  /\ \A p \in Panes :
       /\ pane[p] # "up" => panel[p].view = "none"
       /\ Verified(panel[p], probes[p]) /\ LegTrue(panel[p]) /\ WiredTrue(p)

----------------------------------------------------------------------------
LEMMA WordsAreNoAddresses ==
  ASSUME NetPanelAssumption
  PROVE  /\ \A word \in {"host", "bridge", "inbrowser", "typo"} : word \notin Addresses
         /\ WsDefault \in Addresses /\ WispDefault \in Addresses
  BY DEF NetPanelAssumption, Addresses

LEMMA ChoiceIsOfStored ==
  /\ IsRelay(InitialChoice(stored)) \in BOOLEAN
  /\ ~IsRelay(InitialChoice(stored)) => stored \notin Addresses
  /\ InitialChoice(stored) \in NetKinds \cup {"host", "bridge"}
  BY DEF IsRelay, InitialChoice, Addresses, NetKinds

LEMMA ClosedIsAPanel ==
  ASSUME NetPanelAssumption
  PROVE  /\ Closed \in PanelRecords /\ Closed.view = "none" /\ Closed.seq = 0
         /\ Closed.probe.kind = "none" /\ Closed.probe.status = "none"
  BY WordsAreNoAddresses DEF Closed, NoProbe, PanelRecords, NetKinds, Boxes, Statuses

LEMMA BridgeIsAPanel ==
  ASSUME NetPanelAssumption
  PROVE  LET new == [Closed EXCEPT !.view = "bridge"]
         IN  new \in PanelRecords /\ new.view = "bridge" /\ new.probe = NoProbe
<1>1. PICK old \in PanelRecords : old = Closed /\ old.probe = NoProbe
  BY ClosedIsAPanel DEF Closed
<1> QED  BY <1>1 DEF PanelRecords

\* A panel that opens knows of no probe.
LEMMA FreshIsVerified ==
  ASSUME NEW shown, shown.probe.kind = "none", shown.probe.status = "none"
  PROVE  Verified(shown, {})
  BY DEF Verified

LEMMA NetInitInv == ASSUME NetPanelAssumption, ~Legacy PROVE NetInit => NetInv
<1> SUFFICES ASSUME NetInit PROVE NetInv  OBVIOUS
<1>1. NetTypeOK
  BY ClosedIsAPanel DEF NetInit, NetTypeOK, Tokens
<1>2. ASSUME NEW p \in Panes
      PROVE  (pane[p] # "up" => panel[p].view = "none") /\ Verified(panel[p], probes[p]) /\ LegTrue(panel[p]) /\ WiredTrue(p)
  <2>1. panel[p] = Closed /\ probes[p] = {} /\ pane[p] # "up" /\ room[p] = "none" /\ naming[p] = {} /\ health[p] = "null"
    BY DEF NetInit
  <2>2. Verified(panel[p], probes[p])
    BY <2>1, ClosedIsAPanel, FreshIsVerified
  <2> QED  BY <2>1, <2>2, ClosedIsAPanel DEF LegTrue, WiredTrue, BridgeLive
<1> QED  BY <1>1, <1>2 DEF NetInv

----------------------------------------------------------------------------
\* A click in a panel: it stays verified, and knows what is stored.
LEMMA PanelMoves ==
  ASSUME NetInv, NEW p \in Panes, pane[p] = "up", NEW new \in PanelRecords, NEW out \in SUBSET ProbeRecords,
         panel' = [panel EXCEPT ![p] = new], probes' = [probes EXCEPT ![p] = out],
         Verified(new, out), LegTrue(new), UNCHANGED <<pages, netModes, bridge>>
  PROVE  NetInv'
<1> USE DEF NetInv, NetTypeOK
<1>1. NetTypeOK'
  BY DEF pages, netModes, bridge
<1>2. ASSUME NEW q \in Panes
      PROVE  ((pane[q] # "up" => panel[q].view = "none") /\ Verified(panel[q], probes[q]) /\ LegTrue(panel[q]) /\ WiredTrue(q))'
  <2>1. WiredTrue(q)'
    BY DEF WiredTrue, BridgeLive, pages, netModes, bridge
  <2>2. panel'[q] = (IF q = p THEN new ELSE panel[q]) /\ probes'[q] = (IF q = p THEN out ELSE probes[q])
    OBVIOUS
  <2>3. Verified(panel'[q], probes'[q]) /\ LegTrue(panel'[q])
    BY <2>2
  <2>4. LegTrue(panel[q])'
    BY <2>3 DEF LegTrue, netModes
  <2>5. Verified(panel[q], probes[q])'
    BY <2>3 DEF Verified
  <2> QED  BY <2>1, <2>2, <2>4, <2>5 DEF pages
<1> QED  BY <1>1, <1>2

\* What moves in no panel: the machine's bridge and its chip.
LEMMA BridgeMoves ==
  ASSUME NetInv, NEW p \in Panes, pane[p] = "up", UNCHANGED <<pages, netModes>>, UNCHANGED probes,
         panel' = panel \/ (\E new \in PanelRecords :
           /\ panel' = [panel EXCEPT ![p] = new]
           /\ new.view = panel[p].view /\ Verified(new, probes[p]) /\ LegTrue(new)),
         NetTypeOK', WiredTrue(p)',
         \A q \in Panes \ {p} : room'[q] = room[q] /\ naming'[q] = naming[q] /\ health'[q] = health[q]
  PROVE  NetInv'
<1> USE DEF NetInv, NetTypeOK
<1>1. ASSUME NEW q \in Panes
      PROVE  ((pane[q] # "up" => panel[q].view = "none") /\ Verified(panel[q], probes[q]) /\ LegTrue(panel[q]) /\ WiredTrue(q))'
  <2>1. WiredTrue(q)'
    BY DEF WiredTrue, BridgeLive, pages, netModes
  <2>2. PICK shown : shown = panel'[q]
    OBVIOUS
  <2>3. Verified(shown, probes[q]) /\ LegTrue(shown) /\ (pane[q] # "up" => shown.view = "none")
    BY <2>2
  <2>4. LegTrue(panel[q])'
    BY <2>2, <2>3 DEF LegTrue, netModes
  <2>5. Verified(panel[q], probes[q])'
    BY <2>2, <2>3 DEF Verified
  <2> QED  BY <2>1, <2>2, <2>3, <2>4, <2>5 DEF pages
<1> QED  BY <1>1

\* Documents that go, with what was saved: those that stay know of nothing new.
LEMMA GoneKeeps ==
  ASSUME NetPanelAssumption, NetInv, NEW set, Gone(set),
         stored' \in {"host", "bridge"} \cup Addresses, stored' = wanted', restarts' \in Nat,
         pane' \in [Panes -> {"closed", "loading", "up"}], UNCHANGED <<framed, backend>>,
         framed \/ \A p \in Panes \ {First} : pane[p] = "closed" => pane'[p] = "closed",
         \A p \in Panes : IF p \in set THEN pane'[p] # "up" ELSE pane'[p] = pane[p],
         UNCHANGED <<stored, restarts>> \/ \A p \in Panes \ set : pane[p] # "up"
  PROVE  NetInv'
<1> USE DEF NetInv, NetTypeOK
<1>1. NetTypeOK'
  BY ClosedIsAPanel DEF Gone
<1>2. ASSUME NEW q \in Panes
      PROVE  ((pane[q] # "up" => panel[q].view = "none") /\ Verified(panel[q], probes[q]) /\ LegTrue(panel[q]) /\ WiredTrue(q))'
  <2>1. CASE q \in set
    <3>1. panel'[q] = Closed /\ probes'[q] = {} /\ room'[q] = "none" /\ naming'[q] = {} /\ health'[q] = "null" /\ pane'[q] # "up"
      BY <2>1 DEF Gone
    <3>2. Verified(panel[q], probes[q])'
      BY <3>1, ClosedIsAPanel DEF Verified
    <3> QED  BY <3>1, <3>2, ClosedIsAPanel DEF LegTrue, WiredTrue, BridgeLive
  <2>2. CASE q \notin set
    <3>1. /\ panel'[q] = panel[q] /\ probes'[q] = probes[q] /\ room'[q] = room[q] /\ naming'[q] = naming[q]
          /\ health'[q] = health[q] /\ pane'[q] = pane[q]
      BY <2>2 DEF Gone
    <3>2. Verified(panel[q], probes[q])'
      BY <3>1 DEF Verified
    <3>3. (pane[q] # "up" => panel[q].view = "none")' /\ LegTrue(panel[q])' /\ WiredTrue(q)'
      BY <2>2, <3>1 DEF LegTrue, WiredTrue, BridgeLive
    <3> QED  BY <3>2, <3>3
  <2> QED  BY <2>1, <2>2
<1> QED  BY <1>1, <1>2

LEMMA RenderedMoves ==
  ASSUME NetInv, NEW p \in Panes, pane[p] = "up", NEW new \in PanelRecords, NEW out \in SUBSET ProbeRecords,
         Rendered(p, new), probes' = [probes EXCEPT ![p] = out], Verified(new, out), UNCHANGED <<pages, netModes, bridge>>
  PROVE  NetInv'
<1>1. PICK leg \in BOOLEAN : leg = IsRelay(InitialChoice(stored))
  BY ChoiceIsOfStored
<1>2. PICK now : now = [new EXCEPT !.leg = leg]
  OBVIOUS
<1>3. /\ now \in PanelRecords /\ now.leg = leg /\ now.view = new.view /\ now.seq = new.seq /\ now.probe = new.probe
      /\ \A sort \in NetKinds : now[sort] = new[sort]
  BY <1>2 DEF PanelRecords, NetKinds
<1>4. Verified(now, out)
  <2>1. new.probe.kind \in NetKinds \cup {"none"} /\ \A q \in out : q.kind \in NetKinds
    BY DEF PanelRecords, ProbeRecords
  <2> QED  BY <1>3, <2>1 DEF Verified
<1>5. LegTrue(now)
  BY <1>1, <1>3, ChoiceIsOfStored DEF LegTrue
<1>6. panel' = [panel EXCEPT ![p] = now]
  BY <1>1, <1>2 DEF Rendered
<1> QED  BY <1>3, <1>4, <1>5, <1>6, PanelMoves

LEMMA SettingsAreAPanel ==
  ASSUME NetPanelAssumption, NetInv
  PROVE  /\ Settings \in PanelRecords /\ Settings.probe = NoProbe /\ LegTrue(Settings)
<1>1. PICK leg \in BOOLEAN : leg = IsRelay(InitialChoice(stored))
  BY ChoiceIsOfStored
<1>2. PICK first \in NetKinds \cup {"host", "bridge"} : first = InitialChoice(stored)
  BY ChoiceIsOfStored
<1>3. PICK filled \in Boxes : filled = IF stored \in WsUrls THEN stored ELSE WsDefault
  BY WordsAreNoAddresses DEF Boxes, Addresses
<1>4. PICK wisp \in Boxes : wisp = IF stored \in WispUrls THEN stored ELSE WispDefault
  BY WordsAreNoAddresses DEF Boxes, Addresses
<1>5. PICK old : old = Closed
  OBVIOUS
<1>6. old \in PanelRecords /\ old.wsproxy = WsDefault /\ old.wisp = WispDefault /\ old.probe = NoProbe
  BY <1>5, ClosedIsAPanel DEF Closed
<1>7. Settings = [old EXCEPT !.view = "settings", !.choice = first, !.leg = leg, !.wsproxy = filled, !.wisp = wisp]
  BY <1>1, <1>2, <1>3, <1>4, <1>5, <1>6 DEF Settings
<1>8. Settings \in PanelRecords /\ Settings.probe = NoProbe /\ Settings.leg = leg
  BY <1>6, <1>7 DEF PanelRecords
<1> QED  BY <1>1, <1>8, ChoiceIsOfStored DEF LegTrue

LEMMA OpenPanelKeeps ==
  ASSUME NetPanelAssumption, NetInv, NEW p \in Panes, OpenPanel(p)
  PROVE  NetInv'
<1>1. pane[p] = "up" /\ panel[p].view = "none" /\ UNCHANGED <<pages, netModes, probes, bridge>>
  BY DEF OpenPanel, In
<1>2. probes[p] = {} /\ probes' = [probes EXCEPT ![p] = {}]
  BY <1>1 DEF NetInv, NetTypeOK, Verified
<1>3. PICK new : /\ panel' = [panel EXCEPT ![p] = new]
                 /\ new = [Closed EXCEPT !.view = "bridge"] \/ new = Settings
  BY DEF OpenPanel
<1>4. new \in PanelRecords /\ new.probe = NoProbe /\ LegTrue(new)
  BY <1>3, BridgeIsAPanel, SettingsAreAPanel DEF LegTrue
<1>5. Verified(new, {})
  BY <1>4, FreshIsVerified DEF NoProbe
<1> QED  BY <1>1, <1>2, <1>3, <1>4, <1>5, PanelMoves

\* A panel that closes, and one that turns to the bridge, forget their probes.
LEMMA ClosePanelKeeps ==
  ASSUME NetPanelAssumption, NetInv, NEW p \in Panes, ClosePanel(p) \/ Manage(p)
  PROVE  NetInv'
<1>1. /\ pane[p] = "up" /\ UNCHANGED <<pages, netModes, bridge>> /\ probes' = [probes EXCEPT ![p] = {}]
      /\ \E new \in {Closed, [Closed EXCEPT !.view = "bridge"]} : panel' = [panel EXCEPT ![p] = new]
  BY DEF ClosePanel, Manage, In
<1>2. PICK new \in {Closed, [Closed EXCEPT !.view = "bridge"]} : panel' = [panel EXCEPT ![p] = new]
  BY <1>1
<1>3. new \in PanelRecords /\ new.probe = NoProbe /\ LegTrue(new)
  BY <1>2, BridgeIsAPanel, ClosedIsAPanel DEF Closed, LegTrue
<1>4. Verified(new, {})
  BY <1>3, FreshIsVerified DEF NoProbe
<1> QED  BY <1>1, <1>2, <1>3, <1>4, PanelMoves

LEMMA ChooseKeeps ==
  ASSUME NetInv, NEW p \in Panes, NEW choice \in {"wsproxy", "wisp", "host", "bridge"}, Choose(p, choice)
  PROVE  NetInv'
<1>1. pane[p] = "up" /\ panel[p].view = "settings" /\ UNCHANGED <<pages, netModes, probes, bridge>>
  BY DEF Choose, In
<1>2. PICK new : new = [panel[p] EXCEPT !.choice = choice]
  OBVIOUS
<1>3. panel[p] \in PanelRecords /\ probes[p] \in SUBSET ProbeRecords /\ probes' = [probes EXCEPT ![p] = probes[p]]
  BY <1>1 DEF NetInv, NetTypeOK
<1>4. /\ new \in PanelRecords /\ new.view = "settings" /\ new.seq = panel[p].seq /\ new.probe = panel[p].probe
      /\ \A sort \in NetKinds : new[sort] = panel[p][sort]
  BY <1>1, <1>2, <1>3 DEF PanelRecords, NetKinds
<1>5. Verified(new, probes[p])
  <2>1. panel[p].probe.kind \in NetKinds \cup {"none"} /\ \A q \in probes[p] : q.kind \in NetKinds
    BY <1>3 DEF PanelRecords, ProbeRecords
  <2>2. Verified(panel[p], probes[p])
    BY DEF NetInv
  <2> QED  BY <1>1, <1>4, <2>1, <2>2 DEF Verified
<1>6. Rendered(p, new)
  BY <1>2 DEF Choose
<1> QED  BY <1>1, <1>3, <1>4, <1>5, <1>6, RenderedMoves

\* What is typed invalidates the probe that is out: its number is passed.
LEMMA EditBoxKeeps ==
  ASSUME NetInv, NEW p \in Panes, NEW text \in WsUrls \cup WispUrls \cup {"typo"}, EditBox(p, text)
  PROVE  NetInv'
<1>1. /\ pane[p] = "up" /\ panel[p].view = "settings" /\ panel[p].choice \in NetKinds
      /\ UNCHANGED <<pages, netModes, probes, bridge>>
  BY DEF EditBox, In, IsRelay, NetKinds
<1>2. PICK new : new = ResetProbe([panel[p] EXCEPT ![panel[p].choice] = text])
  OBVIOUS
<1>3. panel[p] \in PanelRecords /\ probes[p] \in SUBSET ProbeRecords /\ probes' = [probes EXCEPT ![p] = probes[p]]
  BY <1>1 DEF NetInv, NetTypeOK
<1>4. new \in PanelRecords /\ new.view = "settings" /\ new.seq = panel[p].seq + 1 /\ new.probe = NoProbe
  <2>1. PICK old : old = [panel[p] EXCEPT ![panel[p].choice] = text]
    OBVIOUS
  <2>2. old \in PanelRecords /\ old.view = "settings" /\ old.seq = panel[p].seq
    <3>1. CASE panel[p].choice = "wsproxy"
      BY <1>1, <1>3, <2>1, <3>1 DEF PanelRecords, Boxes, Addresses
    <3>2. CASE panel[p].choice = "wisp"
      BY <1>1, <1>3, <2>1, <3>2 DEF PanelRecords, Boxes, Addresses
    <3> QED  BY <1>1, <3>1, <3>2 DEF NetKinds
  <2>3. new = [old EXCEPT !.seq = old.seq + 1, !.probe = NoProbe]
    BY <1>2, <2>1 DEF ResetProbe
  <2>4. PICK none \in [kind : NetKinds \cup {"none"}, status : Statuses, of : Addresses \cup {"none"}] : none = NoProbe
    BY DEF NoProbe, Statuses
  <2>5. PICK seq \in Nat : seq = old.seq + 1
    BY <2>2 DEF PanelRecords
  <2>6. new = [old EXCEPT !.seq = seq, !.probe = none]
    BY <2>3, <2>4, <2>5
  <2>7. new \in PanelRecords /\ new.view = old.view /\ new.seq = seq /\ new.probe = none
    BY <2>2, <2>6 DEF PanelRecords
  <2> QED  BY <2>2, <2>4, <2>5, <2>7
<1>5. Verified(new, probes[p])
  <2>1. \A q \in probes[p] : q.seq \in Nat /\ q.seq <= panel[p].seq
    BY <1>3 DEF NetInv, Verified, ProbeRecords
  <2>2. panel[p].seq \in Nat
    BY <1>3 DEF PanelRecords
  <2> QED  BY <1>4, <2>1, <2>2 DEF Verified, NoProbe
<1>6. Rendered(p, new)
  BY <1>2 DEF EditBox
<1> QED  BY <1>1, <1>3, <1>4, <1>5, <1>6, RenderedMoves

\* Verdicts and boxes as they were.
LEMMA StaysVerified ==
  ASSUME NEW old \in PanelRecords, NEW out \in SUBSET ProbeRecords, Verified(old, out), NEW new,
         new.view = old.view, new.seq = old.seq, new.probe = old.probe,
         new.wsproxy = old.wsproxy, new.wisp = old.wisp
  PROVE  Verified(new, out)
<1>1. \A sort \in NetKinds : new[sort] = old[sort]
  BY DEF NetKinds
<1>2. old.probe.kind \in NetKinds \cup {"none"} /\ \A q \in out : q.kind \in NetKinds
  BY DEF PanelRecords, ProbeRecords
<1> QED  BY <1>1, <1>2 DEF Verified

LEMMA RunProbeKeeps ==
  ASSUME NetPanelAssumption, NetInv, NEW p \in Panes, RunProbe(p)
  PROVE  NetInv'
<1>1. /\ pane[p] = "up" /\ panel[p].view = "settings" /\ UNCHANGED <<pages, netModes, bridge>>
      /\ panel[p] \in PanelRecords /\ probes[p] \in SUBSET ProbeRecords /\ Verified(panel[p], probes[p])
  BY DEF RunProbe, In, NetInv, NetTypeOK
<1>2. PICK sort \in NetKinds : sort = panel[p].choice
  BY DEF RunProbe, IsRelay, NetKinds
<1>3. PICK url \in Addresses : url = panel[p][sort]
  BY <1>1, <1>2 DEF RunProbe, PanelRecords, NetKinds, Boxes
<1>4. PICK seq \in Nat : seq = panel[p].seq + 1
  BY <1>1 DEF PanelRecords
<1>5. PICK verdict \in Statuses : verdict = (IF url \in Mixed THEN "mixed" ELSE "testing")
  BY DEF Statuses
<1>6. PICK probe : probe = [kind |-> sort, of |-> url, status |-> verdict]
  OBVIOUS
<1>7. PICK new : new = [panel[p] EXCEPT !.seq = seq, !.probe = probe]
  OBVIOUS
<1>8. Rendered(p, new)
  BY <1>2, <1>3, <1>4, <1>5, <1>6, <1>7 DEF RunProbe
<1>9. PICK query : query = [seq |-> seq, kind |-> sort, url |-> url, at |-> IF url \in Local THEN "gate" ELSE "socket"]
  OBVIOUS
<1>10. PICK out : out = (IF url \in Mixed THEN probes[p] ELSE probes[p] \cup {query})
  OBVIOUS
<1>11. probes' = [probes EXCEPT ![p] = out]
  <2>1. probes' = IF url \in Mixed THEN probes ELSE [probes EXCEPT ![p] = @ \cup {query}]
    BY <1>2, <1>3, <1>4, <1>9 DEF RunProbe
  <2> QED  BY <2>1, <1>10 DEF NetInv, NetTypeOK
<1>12. query \in ProbeRecords /\ query.seq = seq /\ query.kind = sort /\ query.url = url
  BY <1>9 DEF ProbeRecords
<1>13. probe \in [kind : NetKinds \cup {"none"}, status : Statuses, of : Addresses \cup {"none"}]
  BY <1>6
<1>14. /\ new \in PanelRecords /\ new.view = "settings" /\ new.seq = seq /\ new.probe = probe
       /\ \A k \in NetKinds : new[k] = panel[p][k]
  BY <1>1, <1>7, <1>13 DEF PanelRecords, NetKinds
<1>15. Verified(new, out)
  <2>1. \A q \in probes[p] : q.seq \in Nat /\ q.seq < seq
    <3>1. ASSUME NEW q \in probes[p]  PROVE q.seq \in Nat /\ q.seq < seq
      <4>1. q.seq \in Nat /\ panel[p].seq \in Nat /\ q.seq <= panel[p].seq
        BY <1>1 DEF ProbeRecords, PanelRecords, Verified
      <4> QED  BY <4>1, <1>4
    <3> QED  BY <3>1
  <2>2. \A q \in out : q \in probes[p] \/ (q = query /\ url \notin Mixed)
    BY <1>10
  <2>3. ASSUME NEW q \in out  PROVE q.seq <= new.seq /\ (q.seq = new.seq => new[q.kind] = q.url)
    BY <2>1, <2>2, <1>3, <1>12, <1>14
  <2>4. new.probe.status = "testing" => \E q \in out : q.seq = new.seq
    BY <1>5, <1>6, <1>10, <1>12, <1>14
  <2>5. new[new.probe.kind] = new.probe.of
    BY <1>3, <1>6, <1>14
  <2> QED  BY <1>14, <2>3, <2>4, <2>5 DEF Verified
<1>16. out \in SUBSET ProbeRecords
  BY <1>1, <1>10, <1>12
<1> QED  BY <1>1, <1>8, <1>11, <1>14, <1>15, <1>16, RenderedMoves

\* Who waits for a probe has its panel open.
LEMMA WaitsInAPanel ==
  ASSUME NetInv, NEW p \in Panes, NEW q \in probes[p]
  PROVE  /\ pane[p] = "up" /\ panel[p].view # "none" /\ panel[p] \in PanelRecords /\ probes[p] \in SUBSET ProbeRecords
         /\ Verified(panel[p], probes[p]) /\ LegTrue(panel[p]) /\ q \in ProbeRecords
         /\ panel = [panel EXCEPT ![p] = panel[p]]
  BY DEF NetInv, NetTypeOK, Verified

LEMMA GateOpenKeeps ==
  ASSUME NetInv, NEW p \in Panes, NEW q \in probes[p], GateOpen(p, q)
  PROVE  NetInv'
<1>1. PICK old \in PanelRecords : old = panel[p]
  BY WaitsInAPanel
<1>2. PICK on : on = [q EXCEPT !.at = "socket"]
  OBVIOUS
<1>3. PICK out : out = (probes[p] \ {q}) \cup {on}
  OBVIOUS
<1>4. probes' = [probes EXCEPT ![p] = out] /\ panel' = [panel EXCEPT ![p] = old]
  BY <1>1, <1>2, <1>3, WaitsInAPanel DEF GateOpen
<1>5. on \in ProbeRecords /\ on.seq = q.seq /\ on.kind = q.kind /\ on.url = q.url
  BY <1>2, WaitsInAPanel DEF ProbeRecords
<1>6. out \in SUBSET ProbeRecords
  BY <1>3, <1>5, WaitsInAPanel
<1>7. Verified(old, out)
  <2>1. \A x \in out : \E y \in probes[p] : x.seq = y.seq /\ x.kind = y.kind /\ x.url = y.url
    BY <1>3, <1>5
  <2>2. \A y \in probes[p] : \E x \in out : x.seq = y.seq
    BY <1>3, <1>5
  <2>3. Verified(old, probes[p]) /\ old.view # "none"
    BY <1>1, WaitsInAPanel
  <2> QED  BY <2>1, <2>2, <2>3 DEF Verified
<1>8. LegTrue(old) /\ pane[p] = "up" /\ UNCHANGED <<pages, netModes, bridge>>
  BY <1>1, WaitsInAPanel DEF GateOpen
<1> QED  BY <1>4, <1>6, <1>7, <1>8, PanelMoves

\* A verdict is taken only under the number it was asked with.
LEMMA ProbeSettlesKeeps ==
  ASSUME NetInv, NEW p \in Panes, NEW q \in probes[p], NEW verdict \in Verdicts[q.at], ProbeSettles(p, q, verdict)
  PROVE  NetInv'
<1>1. PICK old \in PanelRecords : old = panel[p]
  BY WaitsInAPanel
<1>2. PICK out : out = probes[p] \ {q}
  OBVIOUS
<1>3. probes' = [probes EXCEPT ![p] = out] /\ out \in SUBSET ProbeRecords
  BY <1>2, WaitsInAPanel DEF ProbeSettles
<1>4. /\ Verified(old, probes[p]) /\ old.view # "none" /\ LegTrue(old) /\ pane[p] = "up"
      /\ UNCHANGED <<pages, netModes, bridge>> /\ q \in ProbeRecords
  BY <1>1, WaitsInAPanel DEF ProbeSettles
<1>5. CASE q.seq # old.seq
  <2>1. panel' = [panel EXCEPT ![p] = old]
    BY <1>1, <1>5, WaitsInAPanel DEF ProbeSettles
  <2>2. Verified(old, out)
    BY <1>2, <1>4, <1>5 DEF Verified
  <2> QED  BY <1>3, <1>4, <2>1, <2>2, PanelMoves
<1>6. CASE q.seq = old.seq
  <2>1. verdict \in Statuses \ {"testing"}
    <3>1. q.at = "gate" \/ q.at = "socket"
      BY <1>4 DEF ProbeRecords
    <3> QED  BY <3>1 DEF Verdicts, Statuses
  <2>2. PICK probe : probe = [kind |-> q.kind, status |-> verdict, of |-> q.url]
    OBVIOUS
  <2>3. PICK new : new = [old EXCEPT !.probe = probe]
    OBVIOUS
  <2>4. panel' = [panel EXCEPT ![p] = new]
    BY <1>1, <1>6, <2>2, <2>3 DEF ProbeSettles
  <2>5. probe \in [kind : NetKinds \cup {"none"}, status : Statuses, of : Addresses \cup {"none"}] /\ q.kind \in NetKinds
    BY <1>4, <2>1, <2>2 DEF ProbeRecords
  <2>6. /\ new \in PanelRecords /\ new.view = old.view /\ new.leg = old.leg /\ new.seq = old.seq /\ new.probe = probe
        /\ \A sort \in NetKinds : new[sort] = old[sort]
    BY <2>3, <2>5 DEF PanelRecords, NetKinds
  <2>7. LegTrue(new)
    BY <1>4, <2>6 DEF LegTrue
  <2>8. Verified(new, out)
    <3>1. \A x \in out : x \in probes[p] /\ x.kind \in NetKinds
      BY <1>2, WaitsInAPanel DEF ProbeRecords
    <3>2. old[q.kind] = q.url
      BY <1>4, <1>6 DEF Verified
    <3>3. new.probe.kind = q.kind /\ new.probe.of = q.url /\ new.probe.status # "testing"
      BY <2>1, <2>2, <2>6
    <3> QED  BY <1>4, <2>5, <2>6, <3>1, <3>2, <3>3 DEF Verified
  <2> QED  BY <1>3, <1>4, <2>4, <2>6, <2>7, <2>8, PanelMoves
<1> QED  BY <1>5, <1>6

\* Saved without a restart: neither what was stored nor what is, is a relay.
LEMMA SaveQuietlyKeeps ==
  ASSUME NetPanelAssumption, NetInv, NEW p \in Panes, Save(p), ~NeedsReload(p)
  PROVE  NetInv'
<1>1. PICK old \in PanelRecords : old = panel[p] /\ old.view = "settings" /\ LegTrue(old) /\ pane[p] = "up"
  BY DEF Save, In, NetInv, NetTypeOK
<1>2. old.choice \in {"host", "bridge"} /\ ~old.leg
  BY <1>1 DEF NeedsReload, IsRelay, PanelRecords, NetKinds
<1>3. /\ stored' \in {"host", "bridge"} /\ stored' = wanted' /\ UNCHANGED <<pages, bridge, restarts>>
      /\ panel' = [panel EXCEPT ![p] = Closed] /\ probes' = [probes EXCEPT ![p] = {}]
  BY <1>1, <1>2 DEF Save, IsRelay, pages
<1>4. stored' \notin Addresses /\ (restarts = 0 => stored \notin Addresses)
  BY <1>1, <1>2, <1>3, WordsAreNoAddresses DEF LegTrue
<1> USE DEF NetInv, NetTypeOK
<1>5. NetTypeOK'
  BY <1>3, ClosedIsAPanel DEF pages, bridge
<1>6. ASSUME NEW q \in Panes
      PROVE  ((pane[q] # "up" => panel[q].view = "none") /\ Verified(panel[q], probes[q]) /\ LegTrue(panel[q]) /\ WiredTrue(q))'
  <2>1. WiredTrue(q)'
    <3>1. restarts = 0 => Backend(stored) = "inbrowser" /\ Backend(stored') = "inbrowser"
      BY <1>3, <1>4 DEF Backend
    <3>2. WiredTrue(q) /\ restarts \in Nat
      OBVIOUS
    <3> QED  BY <1>3, <3>1, <3>2 DEF WiredTrue, BridgeLive, pages, bridge
  <2>2. LegTrue(panel[q])'
    BY <1>4 DEF LegTrue
  <2>3. Verified(panel[q], probes[q])'
    <3>1. PICK shown, out : /\ panel'[q] = shown /\ probes'[q] = out
                            /\ (shown = Closed /\ out = {}) \/ (shown = panel[q] /\ out = probes[q])
      BY <1>3
    <3>2. Verified(shown, out)
      BY <3>1, ClosedIsAPanel, FreshIsVerified
    <3> QED  BY <3>1, <3>2 DEF Verified
  <2>4. (pane[q] # "up" => panel[q].view = "none")'
    BY <1>3, ClosedIsAPanel DEF pages
  <2> QED  BY <2>1, <2>2, <2>3, <2>4
<1> QED  BY <1>5, <1>6

LEMMA SaveKeeps ==
  ASSUME NetPanelAssumption, NetInv, NEW p \in Panes, Save(p)
  PROVE  NetInv'
<1>1. CASE ~NeedsReload(p)
  BY <1>1, SaveQuietlyKeeps
<1>2. CASE NeedsReload(p)
  <2>1. PICK old \in PanelRecords : old = panel[p] /\ pane[p] = "up"
    BY DEF Save, In, NetInv, NetTypeOK
  <2>2. stored' \in {"host", "bridge"} \cup Addresses /\ stored' = wanted' /\ UNCHANGED <<framed, backend>>
    <3>1. CASE old.choice \in NetKinds
      <4>1. old[old.choice] \in Boxes
        BY <2>1, <3>1 DEF PanelRecords, NetKinds
      <4> QED  BY <2>1, <3>1, <4>1 DEF Save, IsRelay, NetKinds, Boxes
    <3>2. CASE old.choice \notin NetKinds
      BY <2>1, <3>2 DEF Save, IsRelay, NetKinds, PanelRecords
    <3> QED  BY <3>1, <3>2
  <2>3. CASE framed
    <3>1. restarts' = restarts + 1 /\ restarts \in Nat /\ UNCHANGED <<framed, pane, backend, panel, probes, bridge>>
      BY <1>2, <2>3 DEF Save, NetInv, NetTypeOK
    <3> USE DEF NetInv, NetTypeOK
    <3>2. NetTypeOK'
      BY <2>2, <3>1 DEF bridge
    <3>3. ASSUME NEW q \in Panes
          PROVE  ((pane[q] # "up" => panel[q].view = "none") /\ Verified(panel[q], probes[q]) /\ LegTrue(panel[q]) /\ WiredTrue(q))'
      BY <3>1 DEF Verified, LegTrue, WiredTrue, BridgeLive, bridge
    <3> QED  BY <3>2, <3>3
  <2>4. CASE ~framed
    <3>1. Reload({p}) /\ UNCHANGED restarts
      BY <1>2, <2>4 DEF Save
    <3>2. p = First /\ \A q \in Panes \ {p} : pane[q] = "closed"
      BY <2>1, <2>4 DEF NetInv, NetTypeOK
    <3>3. /\ pane' \in [Panes -> {"closed", "loading", "up"}] /\ restarts' \in Nat /\ Gone({p})
          /\ \A q \in Panes : IF q \in {p} THEN pane'[q] # "up" ELSE pane'[q] = pane[q]
      BY <2>1, <3>1 DEF Reload, NetInv, NetTypeOK
    <3>4. \A q \in Panes \ {First} : pane[q] = "closed" => pane'[q] = "closed"
      BY <3>2, <3>3
    <3>5. \A q \in Panes \ {p} : pane[q] # "up"
      BY <3>2
    <3> QED  BY <2>2, <3>3, <3>4, <3>5, GoneKeeps
  <2> QED  BY <2>3, <2>4
<1> QED  BY <1>1, <1>2

----------------------------------------------------------------------------
\* A document that has loaded runs what is stored.
LEMMA LoadedKeeps ==
  ASSUME NetInv, Query = "none", NEW p \in Panes, Loaded(p)
  PROVE  NetInv'
<1>1. /\ pane[p] = "loading" /\ pane' = [pane EXCEPT ![p] = "up"] /\ backend' = [backend EXCEPT ![p] = Backend(stored)]
      /\ UNCHANGED <<framed, stored, wanted, panel, probes, bridge, restarts>>
  BY DEF Loaded
<1> USE DEF NetInv, NetTypeOK
<1>2. NetTypeOK'
  <2>1. Backend(stored) \in {"none", "inbrowser"} \cup Addresses
    BY DEF Backend
  <2>2. framed \/ p = First
    BY <1>1
  <2> QED  BY <1>1, <2>1, <2>2 DEF bridge
<1>3. ASSUME NEW q \in Panes
      PROVE  ((pane[q] # "up" => panel[q].view = "none") /\ Verified(panel[q], probes[q]) /\ LegTrue(panel[q]) /\ WiredTrue(q))'
  <2>1. WiredTrue(q)'
    <3>1. CASE q = p
      <4>1. pane[p] # "up" /\ backend'[p] = Backend(stored')
        BY <1>1
      <4> QED  BY <1>1, <3>1, <4>1 DEF WiredTrue, BridgeLive, bridge
    <3>2. CASE q # p
      BY <1>1, <3>2 DEF WiredTrue, BridgeLive, bridge
    <3> QED  BY <3>1, <3>2
  <2> QED  BY <1>1, <2>1 DEF Verified, LegTrue
<1> QED  BY <1>2, <1>3

LEMMA SplitKeeps ==
  ASSUME NetInv, NEW p \in Panes, Split(p)
  PROVE  NetInv'
<1>1. /\ framed /\ pane[p] = "closed" /\ pane' = [pane EXCEPT ![p] = "loading"]
      /\ UNCHANGED <<framed, stored, wanted, restarts, backend, panel, probes, room, naming, health>>
  BY DEF Split, netModes, bridge
<1> USE DEF NetInv, NetTypeOK
<1>2. NetTypeOK'
  BY <1>1
<1>3. ASSUME NEW q \in Panes
      PROVE  ((pane[q] # "up" => panel[q].view = "none") /\ Verified(panel[q], probes[q]) /\ LegTrue(panel[q]) /\ WiredTrue(q))'
  BY <1>1 DEF Verified, LegTrue, WiredTrue, BridgeLive
<1> QED  BY <1>2, <1>3

LEMMA ClosePaneKeeps ==
  ASSUME NetPanelAssumption, NetInv, NEW p \in Panes, ClosePane(p)
  PROVE  NetInv'
<1>1. /\ framed /\ pane' = [pane EXCEPT ![p] = "closed"] /\ Gone({p})
      /\ UNCHANGED <<framed, stored, wanted, restarts, backend>>
  BY DEF ClosePane, netModes
<1>2. /\ pane' \in [Panes -> {"closed", "loading", "up"}] /\ restarts' \in Nat
      /\ stored' \in {"host", "bridge"} \cup Addresses /\ stored' = wanted'
      /\ \A q \in Panes : IF q \in {p} THEN pane'[q] # "up" ELSE pane'[q] = pane[q]
  BY <1>1 DEF NetInv, NetTypeOK
<1> QED  BY <1>1, <1>2, GoneKeeps

\* Every pane starts over.
LEMMA AllStartOver ==
  ASSUME NetPanelAssumption, NetInv, Reload(Panes), UNCHANGED <<framed, backend>>,
         stored' \in {"host", "bridge"} \cup Addresses, stored' = wanted', restarts' \in Nat
  PROVE  NetInv'
<1>1. /\ Gone(Panes) /\ pane' \in [Panes -> {"closed", "loading", "up"}]
      /\ \A q \in Panes : pane'[q] # "up" /\ (pane[q] = "closed" => pane'[q] = "closed")
  BY DEF Reload, NetInv, NetTypeOK
<1> QED  BY <1>1, GoneKeeps

LEMMA RelayChangedKeeps ==
  ASSUME NetPanelAssumption, NetInv, RelayChanged \/ PromptGo
  PROVE  NetInv'
<1>1. /\ Reload(Panes) /\ UNCHANGED <<framed, backend>> /\ stored' = wanted' /\ restarts' \in Nat
      /\ stored' \in {"host", "bridge"} \cup Addresses
  BY WordsAreNoAddresses DEF RelayChanged, PromptGo, NetInv, NetTypeOK
<1> QED  BY <1>1, AllStartOver

LEMMA NothingMoves ==
  ASSUME NetInv, UNCHANGED <<framed, stored, wanted, pane, backend, panel, probes, room, health, naming, restarts>>
  PROVE  NetInv'
BY DEF NetInv, NetTypeOK, Verified, LegTrue, WiredTrue, BridgeLive

----------------------------------------------------------------------------
\* The bridge panel's forms.
LEMMA FormMoves ==
  ASSUME NetInv, NEW p \in Panes, pane[p] = "up", NEW sig \in {"room", "manual"},
         NEW form \in {"idle", "joining", "manual-join"}
  PROVE  LET new == [panel[p] EXCEPT !.sig = sig, !.form = form]
         IN  /\ new \in PanelRecords /\ new.view = panel[p].view
             /\ Verified(new, probes[p]) /\ LegTrue(new)
<1>1. PICK old \in PanelRecords : /\ old = panel[p] /\ Verified(old, probes[p]) /\ LegTrue(old)
                                  /\ probes[p] \in SUBSET ProbeRecords
  BY DEF NetInv, NetTypeOK
<1>2. PICK new : new = [old EXCEPT !.sig = sig, !.form = form]
  OBVIOUS
<1>3. /\ new \in PanelRecords /\ new.view = old.view /\ new.leg = old.leg /\ new.seq = old.seq /\ new.probe = old.probe
      /\ new.wsproxy = old.wsproxy /\ new.wisp = old.wisp
  BY <1>2 DEF PanelRecords
<1>4. Verified(new, probes[p]) /\ LegTrue(new)
  <2>1. LegTrue(new)
    BY <1>1, <1>3 DEF LegTrue
  <2>2. Verified(new, probes[p])
    BY <1>1, <1>3, StaysVerified
  <2> QED  BY <2>1, <2>2
<1> QED  BY <1>1, <1>2, <1>3, <1>4

LEMMA CardKeeps ==
  ASSUME NetInv, NEW p \in Panes, NEW sig \in {"room", "manual"}, NEW form \in {"idle", "joining", "manual-join"},
         Card(p, sig, form)
  PROVE  NetInv'
<1>1. PICK new : new = [panel[p] EXCEPT !.sig = sig, !.form = form]
  OBVIOUS
<1>2. /\ pane[p] = "up" /\ UNCHANGED <<pages, netModes, probes, bridge>> /\ panel' = [panel EXCEPT ![p] = new]
      /\ probes[p] \in SUBSET ProbeRecords /\ probes' = [probes EXCEPT ![p] = probes[p]]
  BY <1>1 DEF Card, In, NetInv, NetTypeOK
<1>3. new \in PanelRecords /\ Verified(new, probes[p]) /\ LegTrue(new)
  BY <1>1, <1>2, FormMoves
<1> QED  BY <1>2, <1>3, PanelMoves

\* A form that moves with the bridge.
LEMMA FormOnly ==
  ASSUME NetInv, NEW p \in Panes, pane[p] = "up", NEW form \in {"idle", "joining", "manual-join"},
         panel' = [panel EXCEPT ![p].form = form], UNCHANGED probes
  PROVE  /\ panel' \in [Panes -> PanelRecords]
         /\ \E new \in PanelRecords :
              /\ panel' = [panel EXCEPT ![p] = new]
              /\ new.view = panel[p].view /\ Verified(new, probes[p]) /\ LegTrue(new)
<1>1. PICK old \in PanelRecords : old = panel[p]
  BY DEF NetInv, NetTypeOK
<1>2. PICK sig \in {"room", "manual"} : sig = old.sig
  BY DEF PanelRecords
<1>3. PICK new : new = [panel[p] EXCEPT !.sig = sig, !.form = form]
  OBVIOUS
<1>4. new = [old EXCEPT !.form = form]
  BY <1>1, <1>2, <1>3 DEF PanelRecords
<1>5. panel' = [panel EXCEPT ![p] = new]
  BY <1>1, <1>4
<1>6. new \in PanelRecords /\ new.view = panel[p].view /\ Verified(new, probes[p]) /\ LegTrue(new)
  BY <1>3, FormMoves
<1>7. panel' \in [Panes -> PanelRecords]
  BY <1>5, <1>6 DEF NetInv, NetTypeOK
<1> QED  BY <1>5, <1>6, <1>7

\* A call of the panel asks the guest its name where the hub is in the browser.
LEMMA PressButtonKeeps ==
  ASSUME NetInv, NEW p \in Panes, PressButton(p)
  PROVE  NetInv'
<1>1. /\ pane[p] = "up" /\ backend[p] = "inbrowser" /\ UNCHANGED <<pages, netModes, probes, room, health>>
      /\ naming' = [naming EXCEPT ![p] = @ \cup {Button(p)}]
  BY DEF PressButton, In, HubBacked
<1>2. PICK form \in {"idle", "joining", "manual-join"} : panel' = [panel EXCEPT ![p].form = form]
  <2>1. panel[p].form \in {"idle", "joining", "manual-join"}
    BY DEF NetInv, NetTypeOK, PanelRecords
  <2> QED  BY <2>1 DEF PressButton
<1>3. Button(p) \in {"host", "join", "invite", "answer"}
  BY DEF Button
<1>4. /\ panel' \in [Panes -> PanelRecords]
      /\ \E new \in PanelRecords : /\ panel' = [panel EXCEPT ![p] = new]
           /\ new.view = panel[p].view /\ Verified(new, probes[p]) /\ LegTrue(new)
  BY <1>1, <1>2, FormOnly
<1>5. NetTypeOK'
  BY <1>1, <1>3, <1>4 DEF NetInv, NetTypeOK, pages, netModes
<1>6. WiredTrue(p)' /\ \A q \in Panes \ {p} : room'[q] = room[q] /\ naming'[q] = naming[q] /\ health'[q] = health[q]
  BY <1>1 DEF NetInv, NetTypeOK, WiredTrue, BridgeLive, pages, netModes
<1> QED  BY <1>1, <1>4, <1>5, <1>6, BridgeMoves

LEMMA IdentifiedKeeps ==
  ASSUME NetInv, NEW p \in Panes, NEW what \in {"host", "join", "invite", "answer"}, Identified(p, what)
  PROVE  NetInv'
<1>1. /\ naming[p] # {} /\ UNCHANGED <<pages, netModes, probes, health>> /\ naming' = [naming EXCEPT ![p] = @ \ {what}]
  BY DEF Identified
<1>2. pane[p] = "up" /\ backend[p] = "inbrowser"
  BY <1>1 DEF NetInv, WiredTrue
<1>3. /\ room' = room \/ \E now \in {"inviting", "answering", "signalling"} : room' = [room EXCEPT ![p] = now]
      /\ panel' = panel \/ \E form \in {"idle", "joining", "manual-join"} : panel' = [panel EXCEPT ![p].form = form]
  <2>1. CASE BridgeLive(p)
    BY <2>1 DEF Identified
  <2>2. CASE ~BridgeLive(p)
    <3>1. panel[p].form \in {"idle", "joining", "manual-join"}
      BY DEF NetInv, NetTypeOK, PanelRecords
    <3>2. CASE what = "invite"
      BY <2>2, <3>1, <3>2 DEF Identified
    <3>3. CASE what = "answer"
      BY <2>2, <3>1, <3>3 DEF Identified
    <3>4. CASE what \in {"host", "join"}
      BY <2>2, <3>1, <3>4 DEF Identified
    <3> QED  BY <3>2, <3>3, <3>4
  <2> QED  BY <2>1, <2>2
<1>4. /\ panel' \in [Panes -> PanelRecords]
      /\ panel' = panel \/ \E new \in PanelRecords : /\ panel' = [panel EXCEPT ![p] = new]
           /\ new.view = panel[p].view /\ Verified(new, probes[p]) /\ LegTrue(new)
  <2>1. CASE panel' = panel
    BY <2>1 DEF NetInv, NetTypeOK
  <2>2. CASE panel' # panel
    <3>1. PICK form \in {"idle", "joining", "manual-join"} : panel' = [panel EXCEPT ![p].form = form]
      BY <1>3, <2>2
    <3> QED  BY <1>1, <1>2, <3>1, FormOnly
  <2> QED  BY <2>1, <2>2
<1>5. NetTypeOK'
  <2>1. room' \in [Panes -> {"none", "inviting", "answering", "signalling", "on", "over"}]
    BY <1>3 DEF NetInv, NetTypeOK
  <2>2. naming' \in [Panes -> SUBSET {"host", "join", "invite", "answer"}]
    BY <1>1 DEF NetInv, NetTypeOK
  <2> QED  BY <1>1, <1>4, <2>1, <2>2 DEF NetInv, NetTypeOK, pages, netModes
<1>6. WiredTrue(p)' /\ \A q \in Panes \ {p} : room'[q] = room[q] /\ naming'[q] = naming[q] /\ health'[q] = health[q]
  BY <1>1, <1>2, <1>3 DEF NetInv, NetTypeOK, WiredTrue, BridgeLive, pages, netModes
<1> QED  BY <1>1, <1>2, <1>4, <1>5, <1>6, BridgeMoves

LEMMA RoomKeeps ==
  ASSUME NetInv, NEW p \in Panes,
         PasteAnswer(p) \/ RoomMoves(p) \/ RoomEnds(p) \/ StopBridge(p)
  PROVE  NetInv'
<1>1. /\ BridgeLive(p) /\ UNCHANGED <<pages, netModes, panel, probes, naming, health>>
      /\ \E now \in {"on", "over", "none"} : room' = [room EXCEPT ![p] = now]
  BY DEF PasteAnswer, RoomMoves, RoomEnds, StopBridge, BridgeLive
<1>2. pane[p] = "up" /\ backend[p] = "inbrowser"
  BY <1>1 DEF NetInv, WiredTrue, BridgeLive
<1>3. NetTypeOK'
  BY <1>1 DEF NetInv, NetTypeOK, pages, netModes
<1>4. WiredTrue(p)' /\ \A q \in Panes \ {p} : room'[q] = room[q] /\ naming'[q] = naming[q] /\ health'[q] = health[q]
  BY <1>1, <1>2 DEF NetInv, NetTypeOK, WiredTrue, BridgeLive, pages, netModes
<1> QED  BY <1>1, <1>2, <1>3, <1>4, BridgeMoves

LEMMA ResetKeeps ==
  ASSUME NetInv, NEW p \in Panes, Reset(p)
  PROVE  NetInv'
<1>1. /\ pane[p] = "up" /\ UNCHANGED <<pages, netModes, probes, naming, health>> /\ room' = [room EXCEPT ![p] = "none"]
      /\ panel' = [panel EXCEPT ![p].form = "idle"]
  BY DEF Reset, In
<1>2. /\ panel' \in [Panes -> PanelRecords]
      /\ \E new \in PanelRecords : /\ panel' = [panel EXCEPT ![p] = new]
           /\ new.view = panel[p].view /\ Verified(new, probes[p]) /\ LegTrue(new)
  <2>1. PICK form \in {"idle", "joining", "manual-join"} : form = "idle"
    OBVIOUS
  <2> QED  BY <1>1, <2>1, FormOnly
<1>3. NetTypeOK'
  BY <1>1, <1>2 DEF NetInv, NetTypeOK, pages, netModes
<1>4. WiredTrue(p)' /\ \A q \in Panes \ {p} : room'[q] = room[q] /\ naming'[q] = naming[q] /\ health'[q] = health[q]
  BY <1>1 DEF NetInv, NetTypeOK, WiredTrue, BridgeLive, pages, netModes
<1> QED  BY <1>1, <1>2, <1>3, <1>4, BridgeMoves

\* A chip that says more than "connecting" has asked a machine that has a relay.
LEMMA ReadHealthKeeps ==
  ASSUME NetPanelAssumption, NetInv, NEW p \in Panes, NEW socket \in {"ok", "connecting", "down"}, ReadHealth(p, socket)
  PROVE  NetInv'
<1>1. PICK now : /\ pane[p] = "up" /\ UNCHANGED <<pages, netModes, panel, probes, room, naming>>
                 /\ health' = [health EXCEPT ![p] = now]
                 /\ now = IF stored \notin Addresses THEN "null"
                          ELSE IF RelayHealth(p, socket) = "null" THEN "connecting" ELSE RelayHealth(p, socket)
  BY DEF ReadHealth
<1>2. now \in {"null", "ok", "connecting", "down"} /\ (now \in {"ok", "down"} => backend[p] \in Addresses)
  BY <1>1 DEF RelayHealth
<1>3. NetTypeOK'
  BY <1>1, <1>2 DEF NetInv, NetTypeOK, pages, netModes
<1>4. WiredTrue(p)' /\ \A q \in Panes \ {p} : room'[q] = room[q] /\ naming'[q] = naming[q] /\ health'[q] = health[q]
  BY <1>1, <1>2 DEF NetInv, NetTypeOK, WiredTrue, BridgeLive, pages, netModes
<1> QED  BY <1>1, <1>3, <1>4, BridgeMoves

----------------------------------------------------------------------------
LEMMA PaneKeeps ==
  ASSUME NetPanelAssumption, Query = "none", NetInv, NEW p \in Panes,
         \/ Loaded(p) \/ Split(p) \/ ClosePane(p) \/ OpenPanel(p) \/ ClosePanel(p) \/ RunProbe(p) \/ Save(p)
         \/ Manage(p) \/ PressButton(p) \/ PasteAnswer(p) \/ RoomMoves(p) \/ RoomEnds(p) \/ Reset(p) \/ StopBridge(p)
         \/ \E choice \in {"wsproxy", "wisp", "host", "bridge"} : Choose(p, choice)
         \/ \E text \in WsUrls \cup WispUrls \cup {"typo"} : EditBox(p, text)
         \/ \E q \in probes[p] : GateOpen(p, q) \/ \E verdict \in Verdicts[q.at] : ProbeSettles(p, q, verdict)
         \/ \E sig \in {"room", "manual"}, form \in {"idle", "joining", "manual-join"} : Card(p, sig, form)
         \/ \E socket \in {"ok", "connecting", "down"} : ReadHealth(p, socket)
         \/ \E what \in {"host", "join", "invite", "answer"} : Identified(p, what)
  PROVE  NetInv'
<1>1. CASE Loaded(p) \/ Split(p) \/ ClosePane(p)
  BY <1>1, LoadedKeeps, SplitKeeps, ClosePaneKeeps
<1>2. CASE OpenPanel(p) \/ ClosePanel(p) \/ Manage(p) \/ RunProbe(p) \/ Save(p)
  BY <1>2, OpenPanelKeeps, ClosePanelKeeps, RunProbeKeeps, SaveKeeps
<1>3. CASE PressButton(p) \/ Reset(p)
  BY <1>3, PressButtonKeeps, ResetKeeps
<1>4. CASE PasteAnswer(p) \/ RoomMoves(p) \/ RoomEnds(p) \/ StopBridge(p)
  BY <1>4, RoomKeeps
<1>5. CASE \E choice \in {"wsproxy", "wisp", "host", "bridge"} : Choose(p, choice)
  BY <1>5, ChooseKeeps
<1>6. CASE \E text \in WsUrls \cup WispUrls \cup {"typo"} : EditBox(p, text)
  BY <1>6, EditBoxKeeps
<1>7. CASE \E q \in probes[p] : GateOpen(p, q) \/ \E verdict \in Verdicts[q.at] : ProbeSettles(p, q, verdict)
  BY <1>7, GateOpenKeeps, ProbeSettlesKeeps
<1>8. CASE \E sig \in {"room", "manual"}, form \in {"idle", "joining", "manual-join"} : Card(p, sig, form)
  BY <1>8, CardKeeps
<1>9. CASE \E socket \in {"ok", "connecting", "down"} : ReadHealth(p, socket)
  BY <1>9, ReadHealthKeeps
<1>10. CASE \E what \in {"host", "join", "invite", "answer"} : Identified(p, what)
  BY <1>10, IdentifiedKeeps
<1> QED  BY <1>1, <1>2, <1>3, <1>4, <1>5, <1>6, <1>7, <1>8, <1>9, <1>10

\* The panel of the network keeps its word (NetTrue), where the page's address
\* names no relay and the mode of an older page is not stored.
THEOREM NetKeepsItsWord ==
  ASSUME NetPanelAssumption, ~Legacy, Query = "none"
  PROVE  NetSpec => []NetTrue
<1>1. NetInit => NetInv
  BY NetInitInv
<1>2. NetInv /\ [NetNext]_netVars => NetInv'
  <2> SUFFICES ASSUME NetInv, [NetNext]_netVars PROVE NetInv'  OBVIOUS
  <2>1. CASE RelayChanged \/ PromptGo
    BY <2>1, RelayChangedKeeps
  <2>2. CASE PromptStay \/ UNCHANGED netVars
    BY <2>2, NothingMoves DEF PromptStay, netVars, netModes, bridge
  <2>3. CASE NetNext /\ ~RelayChanged /\ ~PromptGo /\ ~PromptStay
    <3>1. PICK p \in Panes :
         \/ Loaded(p) \/ Split(p) \/ ClosePane(p) \/ OpenPanel(p) \/ ClosePanel(p) \/ RunProbe(p) \/ Save(p)
         \/ Manage(p) \/ PressButton(p) \/ PasteAnswer(p) \/ RoomMoves(p) \/ RoomEnds(p) \/ Reset(p) \/ StopBridge(p)
         \/ \E choice \in {"wsproxy", "wisp", "host", "bridge"} : Choose(p, choice)
         \/ \E text \in WsUrls \cup WispUrls \cup {"typo"} : EditBox(p, text)
         \/ \E q \in probes[p] : GateOpen(p, q) \/ \E verdict \in Verdicts[q.at] : ProbeSettles(p, q, verdict)
         \/ \E sig \in {"room", "manual"}, form \in {"idle", "joining", "manual-join"} : Card(p, sig, form)
         \/ \E socket \in {"ok", "connecting", "down"} : ReadHealth(p, socket)
         \/ \E what \in {"host", "join", "invite", "answer"} : Identified(p, what)
      BY <2>3 DEF NetNext
    <3> QED  BY <3>1, PaneKeeps
  <2> QED  BY <2>1, <2>2, <2>3
<1>3. NetInv => NetTrue
  <2> SUFFICES ASSUME NetInv PROVE NetTrue  OBVIOUS
  <2>1. ASSUME NEW p \in Panes
        PROVE  /\ LET shown == panel[p].probe IN
                  /\ (shown.kind # "none" => panel[p][shown.kind] = shown.of)
                  /\ (shown.status = "testing" => \E q \in probes[p] : q.seq = panel[p].seq)
               /\ (pane[p] = "up" => backend[p] = Backend(wanted) \/ restarts > 0)
               /\ (BridgeLive(p) => backend[p] = "inbrowser")
               /\ (health[p] \in {"ok", "down"} => backend[p] \in Addresses)
    <3>1. Verified(panel[p], probes[p]) /\ WiredTrue(p) /\ stored = wanted
      BY DEF NetInv, NetTypeOK
    <3>2. pane[p] = "up" => backend[p] = Backend(wanted) \/ restarts > 0
      BY <3>1 DEF WiredTrue
    <3> QED  BY <3>1, <3>2 DEF Verified, WiredTrue
  <2> QED  BY <2>1 DEF NetTrue
<1> QED  BY <1>1, <1>2, <1>3, PTL DEF NetSpec
=============================================================================
