----------------------------- MODULE BridgeHost ------------------------------
(***************************************************************************)
(* What the host of a bridge room keeps: the switch between its own hub    *)
(* and the members' lan channels, and the roster and chat of the control   *)
(* channels.                                                               *)
(***************************************************************************)
EXTENDS Integers, Sequences, FiniteSets

----------------------------------------------------------------------------
(* The host as a learning switch.                                          *)
(*                                                                         *)
(* A port is the hub of the host's own origin, "local", or a joined peer.  *)
(* A machine may join again, under a new peer id, before the host has      *)
(* noticed that its first connection is gone.  The channels reorder and    *)
(* lose: a frame need never arrive, and one sent to a member that left is  *)
(* nowhere.                                                                *)

CONSTANTS
  Stations,   \* the machines, by MAC
  Attached,   \* those on the host's own hub
  Peers,      \* signalling peer ids
  Home,       \* the machine behind each peer id
  MaxFrame    \* bound: frames sent

\* What the constants are taken to be.
SwitchAssumption ==
  Attached \subseteq Stations /\ Home \in [Peers -> Stations \ Attached] /\ MaxFrame \in Nat

VARIABLES
  ports,     \* each peer's link: "none", "answered", "open"
  parted,    \* peers whose connection is gone; the host may not know yet
  macs,      \* the port each learned MAC sits behind
  frame,     \* the frames sent: [src, dst]
  air,       \* frames on their way: <<frame, place>>
  caught     \* history: how often each machine heard each frame

switchVars == <<ports, parted, macs, frame, air, caught>>

Everyone == "all"
Frames   == 1 .. Len(frame)
OpenPorts == {p \in Peers : ports[p] = "open"}
\* The peer a machine speaks through: the last it joined by.
Through(s) == {p \in OpenPorts \ parted : Home[p] = s}
Hear(fs) == caught' = [k \in DOMAIN caught |-> IF k \in fs THEN caught[k] + 1 ELSE caught[k]]

SwitchInit ==
  /\ ports = [p \in Peers |-> "none"] /\ parted = {} /\ macs = [s \in {} |-> "local"]
  /\ frame = <<>> /\ air = {} /\ caught = [k \in (1 .. MaxFrame) \X Stations |-> 0]

----------------------------------------------------------------------------
(* Joining and leaving.                                                    *)

\* accept: a joiner's offer is answered, once for each peer id.  Joining takes
\* seconds: what the machine sent by its last connection is in, or lost.
Accept(p) ==
  /\ ports[p] = "none" /\ p \notin parted
  /\ \A q \in Peers : Home[q] = Home[p] /\ ports[q] # "none" => q \in parted
  /\ ports' = [ports EXCEPT ![p] = "answered"]
  /\ air' = {a \in air : \A q \in parted : Home[q] = Home[p] => a[2] # <<"up", q>>}
  /\ UNCHANGED <<parted, macs, frame, caught>>

\* The joiner's lan channel arrives.
AttachPeerLan(p) ==
  /\ ports[p] = "answered" /\ p \notin parted
  /\ ports' = [ports EXCEPT ![p] = "open"]
  /\ UNCHANGED <<parted, macs, frame, air, caught>>

\* The member leaves, or its network does.
Part(p) ==
  /\ ports[p] # "none" /\ p \notin parted
  /\ parted' = parted \cup {p}
  /\ air' = air \ {<<f, <<"down", p>>>> : f \in Frames}
  /\ UNCHANGED <<ports, macs, frame, caught>>

\* dropPeer: the host notices.  A closed connection delivers nothing more.
DropPeer(p) ==
  /\ p \in parted /\ ports[p] # "none"
  /\ ports' = [ports EXCEPT ![p] = "none"]
  /\ macs' = [s \in {t \in DOMAIN macs : macs[t] # p} |-> macs[s]]
  /\ air' = {a \in air : a[2] # <<"up", p>>}
  /\ UNCHANGED <<parted, frame, caught>>

----------------------------------------------------------------------------
(* Frames.                                                                 *)

\* A machine sends: the machines of its own hub hear it, the bridge with them.
Send(s, d) ==
  LET f == Len(frame) + 1 IN
  /\ f <= MaxFrame /\ s # d
  /\ frame' = Append(frame, [src |-> s, dst |-> d])
  /\ IF s \in Attached
     THEN air' = air \cup {<<f, <<"hub">>>>} /\ Hear({f} \X (Attached \cap (IF d = Everyone THEN Attached \ {s} ELSE {d})))
     ELSE air' = air \cup {<<f, <<"up", p>>>> : p \in Through(s)} /\ UNCHANGED caught
  /\ UNCHANGED <<ports, parted, macs>>

Owner(f) == IF frame[f].dst \in DOMAIN macs THEN macs[frame[f].dst] ELSE Everyone
Learn(f, port) == macs' = [s \in DOMAIN macs \cup {frame[f].src} |-> IF s = frame[f].src THEN port ELSE macs[s]]

\* sendTo: what is sent to a connection that is gone is nowhere.
SendTo(f, ps) == {<<f, <<"down", p>>>> : p \in ps \ parted}

\* Mutant: a flood goes out of the port it came in by.
FloodBack(f, from) == SendTo(f, OpenPorts)

\* flood: every other member.
Flood(f, from) == SendTo(f, OpenPorts \ {from})

\* The hub hears a frame: those it is for.
OnHub(f) == {f} \X (IF frame[f].dst = Everyone THEN Attached ELSE Attached \cap {frame[f].dst})

\* openLan's listener: from this hub to one member, or to all.
SwitchHub(f) ==
  LET left == air \ {<<f, <<"hub">>>>} IN
  /\ <<f, <<"hub">>>> \in air
  /\ \/ Owner(f) \in Peers /\ air' = left \cup SendTo(f, OpenPorts \cap {Owner(f)})
     \/ Owner(f) \in {Everyone, "local"} /\ air' = left \cup Flood(f, "local")
  /\ Learn(f, "local")
  /\ UNCHANGED <<ports, parted, frame, caught>>

\* attachPeerLan's listener: to the one port known, or to all but its own.
SwitchUp(f, p) ==
  LET left == air \ {<<f, <<"up", p>>>>} IN
  /\ <<f, <<"up", p>>>> \in air /\ ports[p] = "open"
  /\ \/ Owner(f) \in Peers \ {p} /\ air' = left \cup SendTo(f, OpenPorts \cap {Owner(f)}) /\ UNCHANGED caught
     \/ Owner(f) = "local" /\ air' = left /\ Hear(OnHub(f))
     \/ Owner(f) \in {Everyone, p} /\ air' = left \cup Flood(f, p) /\ Hear(OnHub(f))
  /\ Learn(f, p)
  /\ UNCHANGED <<ports, parted, frame>>

\* A member's lan listener puts it on the member's hub.
Arrive(f, p) ==
  /\ <<f, <<"down", p>>>> \in air /\ p \notin parted
  /\ air' = air \ {<<f, <<"down", p>>>>}
  /\ Hear(IF frame[f].dst \in {Everyone, Home[p]} THEN {<<f, Home[p]>>} ELSE {})
  /\ UNCHANGED <<ports, parted, macs, frame>>

SwitchNext ==
  \/ \E p \in Peers : Accept(p) \/ AttachPeerLan(p) \/ Part(p) \/ DropPeer(p)
  \/ \E s \in Stations, d \in Stations \cup {Everyone} : Send(s, d)
  \/ \E f \in Frames : SwitchHub(f) \/ \E p \in Peers : SwitchUp(f, p) \/ Arrive(f, p)

SwitchSpec == SwitchInit /\ [][SwitchNext]_switchVars

----------------------------------------------------------------------------
\* No machine hears a frame twice, nor its own come back: the switch makes no
\* loop of a machine that joins again before its first connection is dropped.
HeardOnce ==
  \A f \in Frames, s \in Stations : caught[<<f, s>>] <= IF s = frame[f].src THEN 0 ELSE 1

\* No MAC is learned behind a peer that was dropped: frames for it would be
\* lost without a trace until the machine speaks again.
TableTrue == \A s \in DOMAIN macs : macs[s] = "local" \/ ports[macs[s]] = "open"

----------------------------------------------------------------------------
(* The control channels: who is in the room, and its chat.  The host keeps *)
(* the roster and passes each line on; a channel is ordered and loses      *)
(* nothing until it closes.                                                *)

CONSTANTS
  Members,   \* the machines that join, each under its name
  Keeper,    \* the host's name
  MaxJoin,   \* bound: joins of each machine
  MaxChat    \* bound: lines said

\* What the constants are taken to be.
RosterAssumption == Keeper \notin Members /\ {MaxJoin, MaxChat} \subseteq Nat

VARIABLES
  wires,     \* each member at the host: "none", "open", "named", "broken"
  joins,     \* how often it joined
  members,   \* the roster as the host has it
  ctl,       \* each member's channel, host to member
  up,        \* the channel from member to host
  roster,    \* the roster as each member shows it
  said,      \* lines said: who, and to whom
  shows      \* history: how often each screen showed each line

rosterVars == <<wires, joins, members, ctl, up, roster, said, shows>>

ToAll == "all"
\* Members whose channel takes what is sent.
Reach == {m \in Members : wires[m] \in {"open", "named"}}
Show(ks) == shows' = [k \in DOMAIN shows |-> IF k \in ks THEN shows[k] + 1 ELSE shows[k]]
Post(ms, note) == [m \in Members |-> IF m \in ms THEN Append(ctl[m], note) ELSE ctl[m]]

RosterInit ==
  /\ wires = [m \in Members |-> "none"] /\ joins = [m \in Members |-> 0] /\ members = {}
  /\ ctl = [m \in Members |-> <<>>] /\ up = [m \in Members |-> <<>>]
  /\ roster = [m \in Members |-> {}]
  /\ said = <<>> /\ shows = [k \in (1 .. MaxChat) \X (Members \cup {Keeper}) |-> 0]

----------------------------------------------------------------------------
\* Mutant: the page is told and the members are not.
UpdateRosterHere(now) ==
  members' = {m \in Members : now[m] = "named"} /\ ctl' = [m \in Members |-> IF now[m] \in {"none", "broken"} THEN <<>> ELSE ctl[m]]

\* updateRoster, once the links are as `now`: those that said hello are in it,
\* all that are open are told.
UpdateRoster(now) ==
  LET in == {m \in Members : now[m] = "named"} IN
  /\ members' = in
  /\ ctl' = [m \in Members |-> IF now[m] \in {"none", "broken"} THEN <<>>
                               ELSE Append(ctl[m], [kind |-> "roster", what |-> in])]

\* attachPeerCtl: the channel opens and the member says hello.
AttachPeerCtl(m) ==
  /\ wires[m] = "none" /\ joins[m] < MaxJoin
  /\ wires' = [wires EXCEPT ![m] = "open"] /\ joins' = [joins EXCEPT ![m] = @ + 1]
  /\ up' = [up EXCEPT ![m] = <<0>>]
  /\ UNCHANGED <<members, ctl, roster, said, shows>>

\* Mutant: a hello is noted and the roster left as it is.
HelloUnheard(m) ==
  /\ wires[m] \in {"open", "broken"} /\ up[m] # <<>> /\ Head(up[m]) = 0
  /\ up' = [up EXCEPT ![m] = Tail(@)]
  /\ wires' = [wires EXCEPT ![m] = IF @ = "open" THEN "named" ELSE @]
  /\ UNCHANGED <<joins, members, ctl, roster, said, shows>>

\* The hello arrives; that of a channel that has closed finds no one to name.
HelloArrives(m) ==
  /\ wires[m] \in {"open", "broken"} /\ up[m] # <<>> /\ Head(up[m]) = 0
  /\ up' = [up EXCEPT ![m] = Tail(@)]
  /\ wires' = [wires EXCEPT ![m] = IF @ = "open" THEN "named" ELSE @]
  /\ UpdateRoster(wires')
  /\ UNCHANGED <<joins, roster, said, shows>>

\* The member leaves, or its network does.
MemberLeaves(m) ==
  /\ m \in Reach
  /\ wires' = [wires EXCEPT ![m] = "broken"]
  /\ ctl' = [ctl EXCEPT ![m] = <<>>] /\ roster' = [roster EXCEPT ![m] = {}]
  /\ UNCHANGED <<joins, members, up, said, shows>>

\* dropPeer: the host notices.
DropMember(m) ==
  /\ wires[m] = "broken"
  /\ wires' = [wires EXCEPT ![m] = "none"] /\ up' = [up EXCEPT ![m] = <<>>]
  /\ UpdateRoster(wires')
  /\ UNCHANGED <<joins, roster, said, shows>>

\* The member's page takes what the channel brings.
Take(m) ==
  /\ ctl[m] # <<>> /\ ctl' = [ctl EXCEPT ![m] = Tail(@)]
  /\ LET note == Head(ctl[m]) IN
     \/ note.kind = "roster" /\ roster' = [roster EXCEPT ![m] = note.what] /\ UNCHANGED shows
     \/ note.kind = "chat" /\ Show({note.what} \X {m}) /\ UNCHANGED roster
  /\ UNCHANGED <<wires, joins, members, up, said>>

----------------------------------------------------------------------------
\* Mutant: the sender is told with the rest.
FanoutChatToAll(c, except) ==
  Post({m \in Reach : said[c].to = ToAll \/ (wires[m] = "named" /\ said[c].to = m)}, [kind |-> "chat", what |-> c])

\* fanoutChat: the members it is for, but who said it.
FanoutChat(c, except) ==
  Post({m \in Reach \ {except} : said[c].to = ToAll \/ (wires[m] = "named" /\ said[c].to = m)},
       [kind |-> "chat", what |-> c])

\* say(), which the sender's own screen shows too; the host's is a fan-out ...
SayHere(to) ==
  LET c == Len(said) + 1 IN
  /\ c <= MaxChat
  /\ said' = Append(said, [from |-> Keeper, to |-> to])
  /\ ctl' = Post({m \in Reach : to = ToAll \/ (wires[m] = "named" /\ to = m)}, [kind |-> "chat", what |-> c])
  /\ Show({<<c, Keeper>>})
  /\ UNCHANGED <<wires, joins, members, up, roster>>

\* ... a member's goes to the host.
SayThere(s, to) ==
  LET c == Len(said) + 1 IN
  /\ c <= MaxChat /\ s \in Reach
  /\ said' = Append(said, [from |-> s, to |-> to])
  /\ up' = [up EXCEPT ![s] = Append(@, c)]
  /\ Show({<<c, s>>})
  /\ UNCHANGED <<wires, joins, members, ctl, roster>>

\* A member's line reaches the host.
Relay(m) ==
  /\ up[m] # <<>> /\ Head(up[m]) # 0
  /\ LET c == Head(up[m]) IN
     /\ ctl' = FanoutChat(c, m)
     /\ Show({c} \X {h \in {Keeper} : said[c].to \in {ToAll, h}})
  /\ up' = [up EXCEPT ![m] = Tail(@)]
  /\ UNCHANGED <<wires, joins, members, roster, said>>

RosterNext ==
  \/ \E m \in Members :
       AttachPeerCtl(m) \/ HelloArrives(m) \/ MemberLeaves(m) \/ DropMember(m) \/ Take(m) \/ Relay(m)
  \/ \E to \in Members \cup {Keeper, ToAll} : SayHere(to) \/ \E s \in Members : SayThere(s, to)

RosterSpec == RosterInit /\ [][RosterNext]_rosterVars

----------------------------------------------------------------------------
\* A member that took all its channel brought shows the roster the host has,
\* whoever came and went meanwhile.
RostersAgree == \A m \in Members : wires[m] = "named" /\ ctl[m] = <<>> => roster[m] = members

\* A line is on each screen once at most, the sender's own among them, and one
\* for a single machine is on no third screen.
ChatOnce ==
  \A c \in 1 .. Len(said), s \in Members \cup {Keeper} :
    /\ shows[<<c, s>>] <= 1
    /\ shows[<<c, s>>] = 1 => s = said[c].from \/ said[c].to \in {ToAll, s}
=============================================================================
