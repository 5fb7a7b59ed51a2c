---------------------------- MODULE Agent_proofs ----------------------------
(***************************************************************************)
(* The agent's runtime, for any number of scripts, power events, messages,  *)
(* sub-agents, views, tool calls and calls of the guest: the console that   *)
(* overlapping scripts share, the toolbox that follows the machine's power, *)
(* the messages of a session, the approvals of a turn's calls, the streams  *)
(* of the worker, the file tools, and what the guest asks of the page.      *)
(***************************************************************************)
EXTENDS PageScripts, ToolFollow, TurnQueue, Confirms, AgentWorker, DeviceTools, HostCalls, FiniteSetTheorems,
        SequenceTheorems, TLAPS

----------------------------------------------------------------------------
(* Scripts that share the page's console.                                  *)

\* The sinks are those of the scripts in flight, and what was put aside is the
\* page's own console exactly while one of them is open.
ConsoleInv ==
  /\ sinks = Live
  /\ script \in [Scripts -> {"idle", "live"}]
  /\ output \in [Scripts -> Int] /\ said \in [Scripts -> Int]
  /\ IF Live = {} THEN console = "page" /\ hijacked = "null" ELSE console = "capture" /\ hijacked = "page"
  /\ \A s \in Live : output[s] = said[s]

\* A script leaves, by its end or by its timer (closeSink).
LEMMA LeavesQuietly ==
  ASSUME ConsoleInv, NEW s \in Scripts, script[s] = "live", CloseSink(s),
         script' = [script EXCEPT ![s] = "idle"], UNCHANGED <<output, said>>
  PROVE  ConsoleInv'
<1>1. Live' = Live \ {s}
  BY DEF ConsoleInv, Live
<1>2. sinks' = Live' /\ script' \in [Scripts -> {"idle", "live"}]
  BY <1>1 DEF ConsoleInv, CloseSink
<1>3. s \in Live /\ console = "capture" /\ hijacked = "page"
  BY DEF ConsoleInv, Live
<1>4. IF Live' = {} THEN console' = "page" /\ hijacked' = "null" ELSE console' = "capture" /\ hijacked' = "page"
  BY <1>2, <1>3 DEF CloseSink
<1> QED BY <1>1, <1>2, <1>4 DEF ConsoleInv

\* However runs overlap and time out, each hears every line said while it runs,
\* and the page has its console back after the last one (hostcall.ts).
THEOREM ScriptsHearEveryLine == Spec => []EveryLineHeard
<1>1. Init => ConsoleInv
  BY DEF Init, ConsoleInv, Live
<1>2. ConsoleInv /\ [Next]_vars => ConsoleInv'
  <2> SUFFICES ASSUME ConsoleInv, [Next]_vars PROVE ConsoleInv'
    OBVIOUS
  <2>1. ASSUME NEW s \in Scripts, Run(s) PROVE ConsoleInv'
    <3>1. Live' = Live \cup {s} /\ s \notin Live
      BY <2>1 DEF Run, ConsoleInv, Live
    <3>2. sinks' = Live' /\ script' \in [Scripts -> {"idle", "live"}]
      BY <2>1, <3>1 DEF Run, OpenSink, ConsoleInv
    <3>3. output' \in [Scripts -> Int] /\ said' \in [Scripts -> Int]
      BY <2>1 DEF Run, OpenSink, ConsoleInv
    <3>4. console' = "capture" /\ hijacked' = "page"
      BY <2>1 DEF Run, OpenSink, ConsoleInv
    <3>5. \A t \in Live' : output'[t] = said'[t]
      BY <2>1, <3>1 DEF Run, OpenSink, ConsoleInv, Live
    <3> QED BY <3>1, <3>2, <3>3, <3>4, <3>5 DEF ConsoleInv
  <2>2. ASSUME NEW s \in Scripts, Settle(s) \/ TimeOut(s) PROVE ConsoleInv'
    BY <2>2, LeavesQuietly DEF Settle, TimeOut
  <2>3. CASE StrayEnds \/ UNCHANGED vars
    BY <2>3 DEF StrayEnds, vars, ConsoleInv, Live
  <2>4. CASE Log
    <3>1. Live' = Live
      BY <2>4 DEF Log, Live
    <3>2. output' \in [Scripts -> Int] /\ said' \in [Scripts -> Int]
      BY <2>4 DEF Log, ConsoleInv
    <3>3. \A s \in Live : output'[s] = said'[s]
      BY <2>4 DEF Log, ConsoleInv, Live
    <3> QED BY <2>4, <3>1, <3>2, <3>3 DEF Log, ConsoleInv
  <2> QED BY <2>1, <2>2, <2>3, <2>4 DEF Next
<1>3. ConsoleInv => EveryLineHeard
  BY DEF ConsoleInv, EveryLineHeard
<1> QED BY <1>1, <1>2, <1>3, PTL DEF Spec

----------------------------------------------------------------------------
(* The toolbox and the power, with an engine that refuses nothing.          *)

\* What an append and a tail do to a sequence.
LEMMA Appended ==
  ASSUME NEW S, NEW s \in Seq(S), NEW x \in S
  PROVE  /\ Append(s, x) \in Seq(S) /\ Append(s, x) # <<>>
         /\ Len(Append(s, x)) = Len(s) + 1 /\ Append(s, x)[Len(s) + 1] = x
OBVIOUS

LEMMA TailOf ==
  ASSUME NEW S, NEW s \in Seq(S), s # <<>>
  PROVE  /\ Tail(s) \in Seq(S) /\ Len(Tail(s)) = Len(s) - 1 /\ Head(s) \in S /\ Head(s) = s[1]
         /\ Len(s) \in Nat /\ Len(s) > 0
         /\ IF Tail(s) = <<>> THEN Head(s) = s[Len(s)] ELSE Tail(s)[Len(s) - 1] = s[Len(s)]
<1>1. /\ Tail(s) \in Seq(S) /\ Len(Tail(s)) = Len(s) - 1 /\ Head(s) \in S /\ Head(s) = s[1]
      /\ Len(s) \in Nat /\ Len(s) > 0
  OBVIOUS
<1>2. ASSUME Tail(s) = <<>> PROVE Len(s) = 1
  <2>1. Len(<<>>) = 0
    OBVIOUS
  <2>2. Len(Tail(s)) = 0
    BY <1>2, <2>1, Zenon
  <2>3. Len(Tail(s)) = Len(s) - 1 /\ Len(s) \in Nat
    BY <1>1
  <2> HIDE <1>2
  <2> QED BY <2>2, <2>3
<1>3. ASSUME Tail(s) # <<>> PROVE Tail(s)[Len(s) - 1] = s[Len(s)]
  <2>1. Len(s) - 1 \in 1 .. Len(Tail(s))
    BY <1>1, <1>3
  <2> QED BY <2>1
<1> QED BY <1>1, <1>2, <1>3

\* Types of what is Boolean, and of the rest.
FollowTypeOK ==
  /\ power \in BOOLEAN /\ links \in Seq(BOOLEAN)
  /\ installed \in BOOLEAN /\ briefed \in BOOLEAN /\ toolbox \in BOOLEAN /\ mounted \in BOOLEAN
StagesOK ==
  /\ stage \in {"idle", "install", "uninstall", "brief"}
  /\ briefing \in {"none", "machine", "no machine"}

\* What followPower believes, and what the engine has while a link is at a stage.
Believed ==
  /\ stage = "idle" => /\ (toolbox <=> installed) /\ (briefing = "machine" <=> installed)
                       /\ (briefing = "no machine" <=> briefed)
  /\ stage = "install" => installed /\ ~briefed
  /\ stage = "uninstall" => ~installed /\ ~briefed
  /\ stage = "brief" => ~installed /\ briefed /\ ~toolbox

\* What is said last is the power there is.
LastIsPower == IF links = <<>> THEN installed = power ELSE links[Len(links)] = power

\* The first link was told to the engine before any is counted as done.
Busy == IF stage = "idle" THEN 0 ELSE 1
Briefed == briefing # "none" \/ stage = "brief"
Counted ==
  /\ flips \in Nat /\ Len(links) \in Nat /\ Len(links) + Busy <= flips
  /\ Len(links) + Busy < flips => Briefed

FollowInv == FollowTypeOK /\ StagesOK /\ Believed /\ ~poisoned /\ LastIsPower /\ Counted /\ (mounted => Briefed)

LEMMA FollowStep == ASSUME ~Fails, FollowInv, [FollowNext]_followVars PROVE FollowInv'
<1>1. CASE Flip \/ Again
  <2>1. (~power) \in BOOLEAN
    OBVIOUS
  <2>2. PICK p \in BOOLEAN : links' = Append(links, p) /\ power' = p
    BY <1>1, <2>1, Zenon DEF Flip, Again, FollowInv, FollowTypeOK
  <2>3. UNCHANGED <<poisoned, stage, installed, briefed, toolbox, briefing, mounted>> /\ flips' = flips + 1
    BY <1>1 DEF Flip, Again, belief, engine
  <2>4. links' \in Seq(BOOLEAN) /\ Len(links') = Len(links) + 1 /\ links'[Len(links) + 1] = p /\ links' # <<>>
    <3>1. links \in Seq(BOOLEAN)
      BY DEF FollowInv, FollowTypeOK
    <3> QED BY <2>2, <3>1, Appended, Zenon
  <2>5. LastIsPower'
    BY <2>2, <2>4, Zenon DEF LastIsPower
  <2>6. FollowTypeOK' /\ StagesOK' /\ Believed' /\ ~poisoned' /\ (mounted' => Briefed')
    BY <2>2, <2>3, <2>4, Zenon DEF FollowInv, FollowTypeOK, StagesOK, Believed, Briefed
  <2>7. Counted'
    <3>1. Counted /\ stage' = stage /\ briefing' = briefing /\ flips' = flips + 1 /\ Len(links') = Len(links) + 1
      BY <2>3, <2>4 DEF FollowInv
    <3> QED BY <3>1 DEF Counted, Busy, Briefed
  <2> QED BY <2>5, <2>6, <2>7 DEF FollowInv
<1>2. CASE Link
  <2>1. stage = "idle" /\ links # <<>> /\ links' = Tail(links) /\ UNCHANGED <<power, flips, poisoned, toolbox, briefing, mounted>>
    BY <1>2 DEF Link, engine
  <2>2. links' \in Seq(BOOLEAN) /\ Len(links') = Len(links) - 1 /\ Len(links) \in Nat /\ Len(links) > 0 /\ Head(links) \in BOOLEAN
        /\ IF links' = <<>> THEN Head(links) = links[Len(links)] ELSE links'[Len(links')] = links[Len(links)]
    BY <2>1, TailOf, Zenon DEF FollowInv, FollowTypeOK
  <2>3. \/ /\ Head(links) /\ installed /\ UNCHANGED <<stage, installed, briefed>>
        \/ /\ Head(links) /\ ~installed /\ stage' = "install" /\ installed' = TRUE /\ briefed' = FALSE
        \/ /\ ~Head(links) /\ briefed /\ UNCHANGED <<stage, installed, briefed>>
        \/ /\ ~Head(links) /\ ~briefed /\ installed /\ stage' = "uninstall" /\ installed' = FALSE /\ briefed' = FALSE
        \/ /\ ~Head(links) /\ ~briefed /\ ~installed /\ stage' = "brief" /\ installed' = FALSE /\ briefed' = TRUE
    BY <1>2, Zenon DEF Link, belief, FollowInv, FollowTypeOK
  <2>4. installed' = Head(links)
    BY <2>1, <2>2, <2>3, Zenon DEF FollowInv, FollowTypeOK, Believed
  <2>5. LastIsPower'
    BY <2>1, <2>2, <2>4, Zenon DEF FollowInv, LastIsPower
  <2>6. FollowTypeOK' /\ StagesOK' /\ Believed' /\ ~poisoned'
    <3>1. power' = power /\ toolbox' = toolbox /\ mounted' = mounted /\ poisoned' = poisoned /\ briefing' = briefing
      BY <2>1
    <3>2. FollowTypeOK'
      BY <2>2, <2>3, <3>1, Zenon DEF FollowInv, FollowTypeOK
    <3>3. StagesOK'
      BY <2>3, <3>1, Zenon DEF FollowInv, StagesOK
    <3>4. Believed'
      <4>1. /\ (toolbox <=> installed) /\ (briefing = "machine" <=> installed) /\ (briefing = "no machine" <=> briefed)
        BY <2>1 DEF FollowInv, Believed
      <4>2. CASE UNCHANGED <<stage, installed, briefed>>
        <5>1. stage' = stage /\ installed' = installed /\ briefed' = briefed
          BY <4>2
        <5> QED BY <3>1, <5>1, Zenon DEF FollowInv, Believed
      <4>3. CASE stage' = "install" /\ installed' = TRUE /\ briefed' = FALSE
        BY <4>3, Zenon DEF Believed
      <4>4. CASE ~installed' /\ ~briefed' /\ stage' = "uninstall"
        BY <4>4, Zenon DEF Believed
      <4>5. CASE ~installed /\ stage' = "brief" /\ installed' = FALSE /\ briefed' = TRUE
        BY <3>1, <4>1, <4>5, Zenon DEF Believed
      <4> QED BY <2>3, <4>2, <4>3, <4>4, <4>5, Zenon
    <3> QED BY <3>1, <3>2, <3>3, <3>4 DEF FollowInv
  <2>7. (mounted' => Briefed')
    BY <2>1, <2>3, Zenon DEF FollowInv, Briefed
  <2>8. Counted'
    <3>1. stage' # "idle" \/ Briefed'
      BY <2>1, <2>3, Zenon DEF FollowInv, Believed, Briefed
    <3>2. Counted /\ flips' = flips /\ briefing' = briefing
      BY <2>1 DEF FollowInv
    <3> QED BY <2>1, <2>2, <3>1, <3>2 DEF Counted, Busy, Briefed
  <2> QED BY <2>5, <2>6, <2>7, <2>8 DEF FollowInv
<1>3. CASE Install \/ Uninstall \/ Brief \/ Mount \/ UNCHANGED followVars
  <2>1. UNCHANGED <<power, flips, links, poisoned, installed>>
    BY <1>3 DEF Install, Uninstall, Brief, Mount, followVars, belief
  <2>2. FollowTypeOK' /\ StagesOK' /\ Believed' /\ ~poisoned' /\ LastIsPower'
    <3>0. power' = power /\ links' = links /\ poisoned' = poisoned /\ installed' = installed
      BY <2>1
    <3>1. LastIsPower' /\ ~poisoned'
      BY <3>0, Zenon DEF FollowInv, LastIsPower
    <3>2. CASE Install
      <4>1. toolbox' = TRUE /\ briefing' = "machine" /\ stage = "install" /\ stage' = "idle" /\ briefed' = briefed /\ mounted' = mounted
        BY <3>2 DEF Install, belief
      <4> QED BY <3>0, <3>1, <4>1, Zenon DEF FollowInv, FollowTypeOK, StagesOK, Believed
    <3>3. CASE Uninstall
      <4>1. toolbox' = FALSE /\ briefing' = "none" /\ stage = "uninstall" /\ stage' = "brief" /\ briefed' = TRUE /\ mounted' = mounted
        BY <3>3 DEF Uninstall
      <4> QED BY <3>0, <3>1, <4>1, Zenon DEF FollowInv, FollowTypeOK, StagesOK, Believed
    <3>4. CASE Brief
      <4>1. toolbox' = toolbox /\ briefing' = "no machine" /\ stage = "brief" /\ stage' = "idle" /\ briefed' = briefed /\ mounted' = mounted
        BY <3>4 DEF Brief, belief
      <4> QED BY <3>0, <3>1, <4>1, Zenon DEF FollowInv, FollowTypeOK, StagesOK, Believed
    <3>5. CASE Mount \/ UNCHANGED followVars
      <4>1. toolbox' = toolbox /\ briefing' = briefing /\ stage' = stage /\ briefed' = briefed /\ mounted' \in {mounted, TRUE}
        BY <3>5 DEF Mount, followVars, belief, engine
      <4> QED BY <3>0, <3>1, <4>1, Zenon DEF FollowInv, FollowTypeOK, StagesOK, Believed
    <3> QED BY <1>3, <3>2, <3>3, <3>4, <3>5
  <2>3. Counted'
    <3>1. Counted /\ UNCHANGED <<flips, links>>
      BY <2>1 DEF FollowInv
    <3>2. \/ stage' \in {"idle", "brief"} /\ stage # "idle" /\ Briefed'
          \/ UNCHANGED <<stage, briefing>>
      <4>1. CASE Install \/ Uninstall \/ Brief
        BY <4>1, Zenon DEF Install, Uninstall, Brief, Briefed
      <4>2. CASE Mount \/ UNCHANGED followVars
        BY <4>2 DEF Mount, followVars, engine
      <4> QED BY <1>3, <4>1, <4>2
    <3> QED BY <3>1, <3>2 DEF Counted, Busy, Briefed
  <2>4. mounted' => Briefed'
    <3>1. CASE Mount
      <4>1. Len(links) + Busy < flips /\ UNCHANGED <<stage, briefing>>
        BY <3>1 DEF Mount, Busy, engine
      <4>2. Counted
        BY DEF FollowInv
      <4> QED BY <4>1, <4>2 DEF Counted, Briefed
    <3>2. CASE Install \/ Uninstall \/ Brief \/ UNCHANGED followVars
      BY <3>2, Zenon DEF Install, Uninstall, Brief, followVars, FollowInv, Briefed
    <3> QED BY <1>3, <3>1, <3>2
  <2> QED BY <2>2, <2>3, <2>4 DEF FollowInv
<1> QED BY <1>1, <1>2, <1>3 DEF FollowNext, Refuse

\* However the power flips and whenever the engine answers: with nothing under way the
\* machine's tools and text are there exactly while the machine is up, and a page that
\* is shown has an engine that was told (followPower and mount of runtime/src/index.ts).
\* It takes an engine that refuses nothing: a refusal breaks the chain.
THEOREM ToolboxFollowsPower == ASSUME ~Fails PROVE FollowSpec => []LastEventWins
<1>1. FollowInit => FollowInv
  <2> SUFFICES ASSUME FollowInit PROVE FollowInv
    OBVIOUS
  <2>1. links \in Seq(BOOLEAN) /\ Len(links) = 1 /\ links[1] = power /\ links # <<>>
    <3>1. \A p \in BOOLEAN : <<p>> \in Seq(BOOLEAN) /\ Len(<<p>>) = 1 /\ <<p>>[1] = p /\ <<p>> # <<>>
      OBVIOUS
    <3> QED BY <3>1, Zenon DEF FollowInit
  <2>2. FollowTypeOK /\ StagesOK /\ Believed /\ ~poisoned /\ (mounted => Briefed) /\ LastIsPower
    BY <2>1, Zenon DEF FollowInit, FollowTypeOK, StagesOK, Believed, LastIsPower
  <2>3. Counted
    BY <2>1 DEF FollowInit, Counted, Busy
  <2> QED BY <2>2, <2>3 DEF FollowInv
<1>2. FollowInv /\ [FollowNext]_followVars => FollowInv'
  BY FollowStep
<1>3. FollowInv => LastEventWins
  BY Zenon DEF FollowInv, FollowTypeOK, Believed, LastIsPower, LastEventWins, Settled, Briefed
<1> QED BY <1>1, <1>2, <1>3, PTL DEF FollowSpec

----------------------------------------------------------------------------
(* The messages of a session.                                              *)

\* What concatenation, a first element, a reversal and a removal do to the elements
\* of a sequence, and whether they are there once.
LEMMA Joined ==
  ASSUME NEW S, NEW s \in Seq(S), NEW t \in Seq(S)
  PROVE  /\ s \o t \in Seq(S) /\ Range(s \o t) = Range(s) \cup Range(t)
         /\ IsInjective(s \o t) <=> (IsInjective(s) /\ IsInjective(t) /\ Range(s) \cap Range(t) = {})
<1> DEFINE u == s \o t
<1>1. /\ u \in Seq(S) /\ Len(s) \in Nat /\ Len(t) \in Nat /\ Len(u) = Len(s) + Len(t)
      /\ \A i \in 1 .. Len(s) : u[i] = s[i]
      /\ \A i \in 1 .. Len(t) : u[Len(s) + i] = t[i]
      /\ DOMAIN s = 1 .. Len(s) /\ DOMAIN t = 1 .. Len(t) /\ DOMAIN u = 1 .. Len(u)
  OBVIOUS
<1> HIDE DEF u
<1>2. ASSUME NEW i \in DOMAIN u
      PROVE  i \in DOMAIN s \/ \E j \in DOMAIN t : i = Len(s) + j
  <2>1. CASE i <= Len(s)
    BY <1>1, <2>1
  <2>2. CASE i > Len(s)
    <3>1. i - Len(s) \in DOMAIN t /\ i = Len(s) + (i - Len(s))
      BY <1>1, <2>2
    <3> QED BY <3>1
  <2> QED BY <1>1, <2>1, <2>2
<1>3. Range(u) = Range(s) \cup Range(t)
  <2>1. Range(u) \subseteq Range(s) \cup Range(t)
    BY <1>1, <1>2 DEF Range
  <2>2. Range(s) \subseteq Range(u)
    BY <1>1 DEF Range
  <2>3. Range(t) \subseteq Range(u)
    <3> SUFFICES ASSUME NEW j \in DOMAIN t PROVE t[j] \in Range(u)
      BY DEF Range
    <3>1. Len(s) + j \in DOMAIN u
      BY <1>1
    <3> QED BY <1>1, <3>1 DEF Range
  <2> QED BY <2>1, <2>2, <2>3
<1>4. ASSUME IsInjective(u) PROVE IsInjective(s) /\ IsInjective(t) /\ Range(s) \cap Range(t) = {}
  <2>1. IsInjective(s)
    BY <1>1, <1>4 DEF IsInjective
  <2>2. ASSUME NEW i \in DOMAIN t, NEW j \in DOMAIN t, t[i] = t[j] PROVE i = j
    <3>1. Len(s) + i \in DOMAIN u /\ Len(s) + j \in DOMAIN u /\ u[Len(s) + i] = u[Len(s) + j]
      BY <1>1, <2>2
    <3>2. Len(s) + i = Len(s) + j
      BY <1>4, <3>1 DEF IsInjective
    <3> QED BY <1>1, <3>2
  <2>3. ASSUME NEW i \in DOMAIN s, NEW j \in DOMAIN t, s[i] = t[j] PROVE FALSE
    <3>1. i \in DOMAIN u /\ Len(s) + j \in DOMAIN u /\ u[i] = u[Len(s) + j]
      BY <1>1, <2>3
    <3>2. i = Len(s) + j
      BY <1>4, <3>1 DEF IsInjective
    <3> QED BY <1>1, <3>2
  <2> QED BY <2>1, <2>2, <2>3 DEF IsInjective, Range
<1>5. ASSUME IsInjective(s), IsInjective(t), Range(s) \cap Range(t) = {} PROVE IsInjective(u)
  <2> SUFFICES ASSUME NEW a \in DOMAIN u, NEW b \in DOMAIN u, u[a] = u[b] PROVE a = b
    BY DEF IsInjective
  <2>1. CASE a \in DOMAIN s /\ b \in DOMAIN s
    BY <1>1, <1>5, <2>1 DEF IsInjective
  <2>2. ASSUME NEW i \in DOMAIN s, NEW j \in DOMAIN t, u[i] = u[Len(s) + j] PROVE FALSE
    BY <1>1, <1>5, <2>2 DEF Range
  <2>3. ASSUME NEW i \in DOMAIN t, NEW j \in DOMAIN t, a = Len(s) + i, b = Len(s) + j PROVE a = b
    BY <1>1, <1>5, <2>3 DEF IsInjective
  <2> QED BY <1>2, <2>1, <2>2, <2>3
<1> QED BY <1>1, <1>3, <1>4, <1>5 DEF u

\* One message, none; an append and a head as joins.
LEMMA Single ==
  ASSUME NEW S, NEW x \in S
  PROVE  <<x>> \in Seq(S) /\ Range(<<x>>) = {x} /\ IsInjective(<<x>>)
BY DEF Range, IsInjective

LEMMA Nothing == ASSUME NEW S PROVE <<>> \in Seq(S) /\ Range(<<>>) = {} /\ IsInjective(<<>>)
BY DEF Range, IsInjective

LEMMA AppendIsJoin == ASSUME NEW S, NEW s \in Seq(S), NEW x \in S PROVE Append(s, x) = s \o <<x>>
OBVIOUS

LEMMA HeadAndTail == ASSUME NEW S, NEW s \in Seq(S), s # <<>> PROVE Head(s) \in S /\ Tail(s) \in Seq(S) /\ s = <<Head(s)>> \o Tail(s)
OBVIOUS

\* One more message, at the end or at the front: u holds x besides what s holds.
OneMore(S, u, s, x) ==
  /\ u \in Seq(S) /\ Range(u) = Range(s) \cup {x}
  /\ IsInjective(u) <=> (IsInjective(s) /\ x \notin Range(s))

LEMMA Added ==
  ASSUME NEW S, NEW s \in Seq(S), NEW x \in S
  PROVE  OneMore(S, s \o <<x>>, s, x) /\ OneMore(S, <<x>> \o s, s, x)
<1> DEFINE t == <<x>>
<1>1. t \in Seq(S) /\ Range(t) = {x} /\ IsInjective(t)
  BY Single
<1> HIDE DEF t
<1>2. /\ s \o t \in Seq(S) /\ Range(s \o t) = Range(s) \cup Range(t)
      /\ IsInjective(s \o t) <=> (IsInjective(s) /\ IsInjective(t) /\ Range(s) \cap Range(t) = {})
  BY <1>1, Joined, Zenon
<1>3. /\ t \o s \in Seq(S) /\ Range(t \o s) = Range(t) \cup Range(s)
      /\ IsInjective(t \o s) <=> (IsInjective(t) /\ IsInjective(s) /\ Range(t) \cap Range(s) = {})
  BY <1>1, Joined, Zenon
<1>4. OneMore(S, s \o t, s, x) /\ OneMore(S, t \o s, s, x)
  BY <1>1, <1>2, <1>3 DEF OneMore
<1> QED BY <1>4, Zenon DEF t

\* steers handed back, and a message taken out of the queue.
LEMMA Reversed ==
  ASSUME NEW S, NEW s \in Seq(S)
  PROVE  Reverse(s) \in Seq(S) /\ Range(Reverse(s)) = Range(s) /\ (IsInjective(s) => IsInjective(Reverse(s)))
<1>1. Len(s) \in Nat /\ DOMAIN s = 1 .. Len(s) /\ \A i \in 1 .. Len(s) : s[i] \in S /\ Len(s) - i + 1 \in 1 .. Len(s)
  OBVIOUS
<1>2. Reverse(s) \in Seq(S) /\ DOMAIN Reverse(s) = 1 .. Len(s) /\ \A i \in 1 .. Len(s) : Reverse(s)[i] = s[Len(s) - i + 1]
  BY <1>1 DEF Reverse
<1>3. Range(Reverse(s)) \subseteq Range(s)
  BY <1>1, <1>2 DEF Range
<1>4. Range(s) \subseteq Range(Reverse(s))
  <2> SUFFICES ASSUME NEW i \in 1 .. Len(s) PROVE s[i] \in Range(Reverse(s))
    BY <1>1 DEF Range
  <2> DEFINE j == Len(s) - i + 1
  <2>1. j \in 1 .. Len(s) /\ Len(s) - j + 1 = i
    BY <1>1
  <2> HIDE DEF j
  <2>2. Reverse(s)[j] = s[i]
    BY <1>2, <2>1
  <2> QED BY <1>2, <2>1, <2>2 DEF Range
<1>5. IsInjective(s) => IsInjective(Reverse(s))
  BY <1>1, <1>2 DEF IsInjective
<1> QED BY <1>2, <1>3, <1>4, <1>5

LEMMA Removed ==
  ASSUME NEW S, NEW s \in Seq(S), IsInjective(s), NEW m \in Range(s)
  PROVE  Without(s, m) \in Seq(S) /\ IsInjective(Without(s, m)) /\ Range(Without(s, m)) = Range(s) \ {m}
<1> DEFINE k == CHOOSE i \in DOMAIN s : s[i] = m
           a == SubSeq(s, 1, k - 1)
           b == SubSeq(s, k + 1, Len(s))
<1>1. Len(s) \in Nat /\ DOMAIN s = 1 .. Len(s) /\ \A i \in 1 .. Len(s) : s[i] \in S
  OBVIOUS
<1>2. k \in 1 .. Len(s) /\ s[k] = m
  BY <1>1 DEF Range
<1>3. Without(s, m) = a \o b
  BY DEF Without, RemoveAt
<1> HIDE DEF k
<1>4. a \in Seq(S) /\ Len(a) = k - 1 /\ \A i \in 1 .. k - 1 : a[i] = s[i]
  BY <1>1, <1>2
<1>5. /\ b \in Seq(S) /\ Len(b) = Len(s) - k
      /\ \A i \in 1 .. Len(s) - k : b[i] = s[k + i] /\ k + i \in DOMAIN s /\ k + i # k
  <2>1. k + 1 \in Int /\ Len(s) \in Int /\ \A i \in (k + 1) .. Len(s) : s[i] \in S
    BY <1>1, <1>2
  <2>2. /\ b \in Seq(S) /\ Len(b) = IF k + 1 <= Len(s) THEN Len(s) - (k + 1) + 1 ELSE 0
        /\ \A i \in 1 .. Len(s) - (k + 1) + 1 : b[i] = s[k + 1 + i - 1]
    BY <2>1, SubSeqProperties
  <2> HIDE DEF b
  <2>3. Len(s) - (k + 1) + 1 = Len(s) - k /\ (~(k + 1 <= Len(s)) => Len(s) - k = 0)
    <3>1. \A l \in Nat : \A i \in 1 .. l : l - (i + 1) + 1 = l - i /\ (~(i + 1 <= l) => l - i = 0)
      OBVIOUS
    <3> QED BY <1>1, <1>2, <3>1
  <2>4. ASSUME NEW i \in 1 .. Len(s) - k PROVE b[i] = s[k + i] /\ k + i \in DOMAIN s /\ k + i # k
    <3>1. k + 1 + i - 1 = k + i /\ k + i \in 1 .. Len(s) /\ k + i # k
      BY <1>1, <1>2
    <3>2. b[i] = s[k + 1 + i - 1]
      BY <2>2, <2>3
    <3> QED BY <1>1, <3>1, <3>2
  <2>5. Len(b) = Len(s) - k
    BY <2>2, <2>3
  <2> QED BY <2>2, <2>4, <2>5
<1> HIDE DEF a, b
<1>6. DOMAIN a = 1 .. k - 1 /\ DOMAIN b = 1 .. Len(s) - k
  BY <1>4, <1>5
<1>7. IsInjective(a) /\ IsInjective(b) /\ Range(a) \cap Range(b) = {}
  <2>1. IsInjective(a)
    BY <1>1, <1>2, <1>4, <1>6 DEF IsInjective
  <2>2. IsInjective(b)
    <3> SUFFICES ASSUME NEW i \in 1 .. Len(s) - k, NEW j \in 1 .. Len(s) - k, b[i] = b[j] PROVE i = j
      BY <1>6 DEF IsInjective
    <3>1. k + i \in DOMAIN s /\ k + j \in DOMAIN s /\ s[k + i] = s[k + j]
      BY <1>5
    <3>2. k + i = k + j
      BY <3>1 DEF IsInjective
    <3> QED BY <1>2, <3>2
  <2>3. ASSUME NEW i \in 1 .. k - 1, NEW j \in 1 .. Len(s) - k, a[i] = b[j] PROVE FALSE
    <3>1. i \in DOMAIN s /\ k + j \in DOMAIN s /\ s[i] = s[k + j]
      BY <1>1, <1>2, <1>4, <1>5, <2>3
    <3>2. i = k + j
      BY <3>1 DEF IsInjective
    <3> QED BY <1>1, <1>2, <3>2
  <2> QED BY <1>6, <2>1, <2>2, <2>3 DEF Range
<1>8. Range(a) \cup Range(b) = Range(s) \ {m}
  <2>1. ASSUME NEW i \in 1 .. Len(s), s[i] # m PROVE s[i] \in Range(a) \cup Range(b)
    <3>1. CASE i < k
      BY <1>2, <1>4, <1>6, <3>1 DEF Range
    <3>2. CASE i > k
      <4>1. i - k \in DOMAIN b /\ b[i - k] = s[i]
        BY <1>1, <1>2, <1>5, <1>6, <3>2
      <4> QED BY <4>1 DEF Range
    <3> QED BY <1>1, <1>2, <2>1, <3>1, <3>2
  <2>2. Range(a) \subseteq Range(s) \ {m}
    BY <1>1, <1>2, <1>4, <1>6 DEF Range, IsInjective
  <2>3. Range(b) \subseteq Range(s) \ {m}
    <3> SUFFICES ASSUME NEW i \in 1 .. Len(s) - k PROVE b[i] \in Range(s) \ {m}
      BY <1>6 DEF Range
    <3>1. k + i \in DOMAIN s /\ k + i # k /\ b[i] = s[k + i] /\ k \in DOMAIN s
      BY <1>1, <1>2, <1>5
    <3>2. s[k + i] # s[k]
      BY <3>1 DEF IsInjective
    <3> QED BY <1>2, <3>1, <3>2 DEF Range
  <2> QED BY <1>1, <2>1, <2>2, <2>3 DEF Range
<1> QED BY <1>3, <1>4, <1>5, <1>7, <1>8, Joined

\* Where the messages are, by place: each place has a message once, no two have one,
\* and what was accepted is in one of them.
QueueInv ==
  /\ queue \in Seq(Messages) /\ steers \in Seq(Messages) /\ answered \in Seq(Messages)
  /\ IsInjective(queue) /\ IsInjective(steers) /\ IsInjective(answered)
  /\ Range(queue) \cap Range(steers) = {} /\ (Range(queue) \cup Range(steers)) \cap Range(answered) = {}
  /\ (Range(queue) \cup Range(steers) \cup Range(answered)) \cap dropped = {}
  /\ Range(queue) \cup Range(steers) \cup Range(answered) \cup dropped = typed

\* The turn is over; q, of what waited, goes on waiting and `gone` is given up.
LEMMA DrainKeeps ==
  ASSUME QueueInv, NEW q \in Seq(Messages), NEW gone, IsInjective(q), Drain(q),
         Range(q) \cap Range(answered) = {}, dropped' = dropped \cup gone,
         Range(q) \cup gone = Range(queue) \cup Range(steers), Range(q) \cap gone = {}
  PROVE  QueueInv'
<1>1. steers' = <<>> /\ typed' = typed
  BY DEF Drain
<1>2. CASE q = <<>>
  <2>1. queue' = <<>> /\ answered' = answered
    BY <1>2 DEF Drain
  <2>2. Range(q) = {} /\ Range(queue') = {} /\ Range(steers') = {} /\ queue' \in Seq(Messages) /\ steers' \in Seq(Messages)
        /\ IsInjective(queue') /\ IsInjective(steers')
    BY <1>1, <1>2, <2>1, Nothing
  <2> QED BY <1>1, <2>1, <2>2 DEF QueueInv
<1>3. CASE q # <<>>
  <2>1. queue' = Tail(q) /\ answered' = Append(answered, Head(q))
    BY <1>3 DEF Drain, Begin
  <2>2. Head(q) \in Messages /\ Tail(q) \in Seq(Messages) /\ q = <<Head(q)>> \o Tail(q)
    BY <1>3, HeadAndTail
  <2>3. OneMore(Messages, q, Tail(q), Head(q))
    BY <2>2, Added, Zenon
  <2>4. IsInjective(Tail(q)) /\ Range(q) = {Head(q)} \cup Range(Tail(q)) /\ Head(q) \notin Range(Tail(q))
    BY <2>3 DEF OneMore
  <2>5. answered' = answered \o <<Head(q)>>
    BY <2>1, <2>2, AppendIsJoin DEF QueueInv
  <2>6. answered' \in Seq(Messages) /\ IsInjective(answered') /\ Range(answered') = Range(answered) \cup {Head(q)}
    <3>1. answered \in Seq(Messages) /\ IsInjective(answered) /\ Head(q) \notin Range(answered)
      BY <2>4 DEF QueueInv
    <3>2. OneMore(Messages, answered', answered, Head(q))
      BY <2>2, <2>5, <3>1, Added, Zenon
    <3> QED BY <3>1, <3>2 DEF OneMore
  <2>7. Range(steers') = {} /\ steers' \in Seq(Messages) /\ IsInjective(steers')
    BY <1>1, Nothing
  <2> QED BY <1>1, <2>1, <2>2, <2>4, <2>6, <2>7 DEF QueueInv
<1> QED BY <1>2, <1>3

\* One step per action.
LEMMA QueueStep == ASSUME QueueInv, [TurnsNext]_turnsVars PROVE QueueInv'
<1>1. ASSUME NEW m \in Messages, StartTurn(m) PROVE QueueInv'
  <2>1. m \notin typed /\ answered' = answered \o <<m>> /\ typed' = typed \cup {m} /\ UNCHANGED <<queue, steers, dropped>>
    BY <1>1, AppendIsJoin DEF StartTurn, Fresh, Begin, QueueInv
  <2>2. answered' \in Seq(Messages) /\ IsInjective(answered') /\ Range(answered') = Range(answered) \cup {m}
    <3>1. answered \in Seq(Messages) /\ IsInjective(answered) /\ m \notin Range(answered)
      BY <2>1 DEF QueueInv
    <3>2. OneMore(Messages, answered', answered, m)
      BY <2>1, <3>1, Added, Zenon
    <3> QED BY <3>1, <3>2 DEF OneMore
  <2> QED BY <2>1, <2>2 DEF QueueInv
<1>2. ASSUME NEW m \in Messages, Park(m) \/ Interrupt(m) PROVE QueueInv'
  <2>1. m \notin typed /\ typed' = typed \cup {m} /\ UNCHANGED <<answered, steers, dropped>>
        /\ queue' \in {queue \o <<m>>, <<m>> \o queue}
    BY <1>2, AppendIsJoin DEF Park, Interrupt, Fresh, QueueInv
  <2>2. queue' \in Seq(Messages) /\ IsInjective(queue') /\ Range(queue') = Range(queue) \cup {m}
    <3>1. queue \in Seq(Messages) /\ IsInjective(queue) /\ m \notin Range(queue)
      BY <2>1 DEF QueueInv
    <3>2. ASSUME queue' = queue \o <<m>> PROVE OneMore(Messages, queue', queue, m)
      BY <3>1, <3>2, Added, Zenon
    <3>3. ASSUME queue' = <<m>> \o queue PROVE OneMore(Messages, queue', queue, m)
      BY <3>1, <3>3, Added, Zenon
    <3>4. OneMore(Messages, queue', queue, m)
      BY <2>1, <3>2, <3>3
    <3> QED BY <3>1, <3>4 DEF OneMore
  <2> QED BY <2>1, <2>2 DEF QueueInv
<1>3. ASSUME NEW m \in Messages, Steer(m) PROVE QueueInv'
  <2>1. m \notin typed /\ steers' = steers \o <<m>> /\ typed' = typed \cup {m} /\ UNCHANGED <<queue, answered, dropped>>
    BY <1>3, AppendIsJoin DEF Steer, Fresh, QueueInv
  <2>2. steers' \in Seq(Messages) /\ IsInjective(steers') /\ Range(steers') = Range(steers) \cup {m}
    <3>1. steers \in Seq(Messages) /\ IsInjective(steers) /\ m \notin Range(steers)
      BY <2>1 DEF QueueInv
    <3>2. OneMore(Messages, steers', steers, m)
      BY <2>1, <3>1, Added, Zenon
    <3> QED BY <3>1, <3>2 DEF OneMore
  <2> QED BY <2>1, <2>2 DEF QueueInv
<1>4. ASSUME NEW m \in Messages, QueueRemove(m) PROVE QueueInv'
  <2>1. m \in Range(queue) /\ queue' = Without(queue, m) /\ dropped' = dropped \cup {m} /\ UNCHANGED <<steers, answered, typed>>
    BY <1>4 DEF QueueRemove
  <2>2. queue' \in Seq(Messages) /\ IsInjective(queue') /\ Range(queue') = Range(queue) \ {m}
    BY <2>1, Removed DEF QueueInv
  <2> QED BY <2>1, <2>2 DEF QueueInv
<1>5. ASSUME NEW m \in Messages, QueuePromote(m) PROVE QueueInv'
  <2>1. m \in Range(queue) /\ queue' = <<m>> \o Without(queue, m) /\ UNCHANGED <<steers, answered, typed, dropped>>
    BY <1>5 DEF QueuePromote
  <2>2. Without(queue, m) \in Seq(Messages) /\ IsInjective(Without(queue, m)) /\ Range(Without(queue, m)) = Range(queue) \ {m}
    BY <2>1, Removed DEF QueueInv
  <2>3. queue' \in Seq(Messages) /\ IsInjective(queue') /\ Range(queue') = Range(queue)
    <3>2. m \notin Range(Without(queue, m))
      BY <2>2
    <3>3. OneMore(Messages, queue', Without(queue, m), m)
      BY <2>1, <2>2, Added, Zenon
    <3> QED BY <2>1, <2>2, <3>2, <3>3 DEF OneMore
  <2> QED BY <2>1, <2>3 DEF QueueInv
<1>6. CASE Cancel
  <2>1. queue' = <<>> /\ dropped' = dropped \cup Range(queue) /\ UNCHANGED <<steers, answered, typed>>
    BY <1>6 DEF Cancel
  <2>2. queue' \in Seq(Messages) /\ IsInjective(queue') /\ Range(queue') = {}
    BY <2>1, Nothing
  <2> QED BY <2>1, <2>2 DEF QueueInv
<1>7. CASE Inject
  <2>1. answered' = answered \o steers /\ steers' = <<>> /\ UNCHANGED <<queue, dropped, typed>>
    BY <1>7 DEF Inject
  <2>2. answered' \in Seq(Messages) /\ IsInjective(answered') /\ Range(answered') = Range(answered) \cup Range(steers)
    BY <2>1, Joined DEF QueueInv
  <2>3. steers' \in Seq(Messages) /\ IsInjective(steers') /\ Range(steers') = {}
    BY <2>1, Nothing
  <2> QED BY <2>1, <2>2, <2>3 DEF QueueInv
<1>8. CASE Finish
  <2>1. steers = <<>> /\ Drain(queue) /\ dropped' = dropped \cup {}
    BY <1>8 DEF Finish
  <2>2. Range(steers) = {}
    BY <2>1, Nothing
  <2> QED BY <2>1, <2>2, DrainKeeps DEF QueueInv
<1>9. CASE Stopped
  BY <1>9, DrainKeeps DEF Stopped, QueueInv
<1>10. CASE Fail
  <2> DEFINE q == Reverse(steers) \o queue
  <2>1. Drain(q) /\ dropped' = dropped \cup {}
    BY <1>10 DEF Fail
  <2>2. Reverse(steers) \in Seq(Messages) /\ Range(Reverse(steers)) = Range(steers) /\ IsInjective(Reverse(steers))
    BY Reversed DEF QueueInv
  <2>3. q \in Seq(Messages) /\ IsInjective(q) /\ Range(q) = Range(steers) \cup Range(queue)
    BY <2>2, Joined DEF QueueInv
  <2> HIDE DEF q
  <2> QED BY <2>1, <2>3, DrainKeeps DEF QueueInv
<1>11. CASE UNCHANGED turnsVars
  BY <1>11 DEF turnsVars, QueueInv
<1> QED BY <1>1, <1>2, <1>3, <1>4, <1>5, <1>6, <1>7, <1>8, <1>9, <1>10, <1>11 DEF TurnsNext

\* However turns end and whatever is parked, steered, removed, promoted or stopped
\* meanwhile (host.rs), a message the engine accepted is in one place, once.
THEOREM MessagesAreKept == TurnsSpec => []EachOnce
<1>1. TurnsInit => QueueInv
  BY Nothing DEF TurnsInit, QueueInv
<1>2. QueueInv /\ [TurnsNext]_turnsVars => QueueInv'
  BY QueueStep
<1>3. QueueInv => EachOnce
  <2> SUFFICES ASSUME QueueInv PROVE EachOnce
    OBVIOUS
  <2>1. queue \o steers \in Seq(Messages) /\ IsInjective(queue \o steers) /\ Range(queue \o steers) = Range(queue) \cup Range(steers)
    BY Joined DEF QueueInv
  <2>2. IsInjective(Accepted) /\ Range(Accepted) = Range(queue) \cup Range(steers) \cup Range(answered)
    <3>1. answered \in Seq(Messages) /\ IsInjective(answered) /\ Range(queue \o steers) \cap Range(answered) = {}
      BY <2>1 DEF QueueInv
    <3> HIDE DEF QueueInv
    <3>2. /\ Range((queue \o steers) \o answered) = Range(queue \o steers) \cup Range(answered)
          /\ IsInjective((queue \o steers) \o answered)
      BY <2>1, <3>1, Joined, Zenon
    <3>3. Accepted = (queue \o steers) \o answered
      BY DEF Accepted
    <3> QED BY <2>1, <3>2, <3>3, Zenon
  <2> QED BY <2>2 DEF QueueInv, EachOnce
<1> QED BY <1>1, <1>2, <1>3, PTL DEF TurnsSpec

----------------------------------------------------------------------------
(* Asking before a call runs.                                              *)

CallNames == Nat \X Agents \X Nat
Folders == Dirs \cup {"none"}
FrameSet == [of : CallNames, kind : {"confirm", "result"}, dir : Folders]
AnswerSet == [of : CallNames \cup {<<>>}, kind : {"deny", "yes", "all"}, dir : Folders, late : BOOLEAN]
Replying == [op : {"confirm", "allowDir"}, answer : AnswerSet]
MessageSet ==
  Replying \cup [op : {"setAuto"}, on : BOOLEAN] \cup [op : {"cancelTask"}, kid : Kids]
           \cup [op : {"cancel", "forgetDirs", "attach"}]

ConsentTypes ==
  /\ current \in [n : Nat, on : BOOLEAN] /\ cancel \in BOOLEAN
  /\ at \in [Agents -> {"off", "free", "gate", "asking", "ahead", "busy", "batch"}]
  /\ made \in [Agents -> Nat] /\ dir \in [Agents -> Folders]
  /\ chan \in [Agents -> Seq(AnswerSet)] /\ gate \in Kids \cup {"none"}
  /\ auto \in BOOLEAN /\ following \in BOOLEAN
  /\ tail \in Seq(FrameSet) /\ toPage \in Seq(FrameSet) /\ bar \in FrameSet \cup {NoBar}
  /\ toEngine \in Seq(MessageSet) /\ saving \in Seq(AnswerSet) /\ clicked \subseteq CallNames

\* Where the agents are: sub-agents live in the parent's batch, and the one that
\* asks has the permit.
AgentsTrue ==
  /\ at["parent"] \in {"off", "free", "asking", "busy", "batch"}
  /\ \A k \in Kids :
       /\ at[k] # "batch"
       /\ at[k] # "off" => at["parent"] = "batch"
       /\ at[k] = "asking" => gate = k
  /\ at["parent"] # "off" => current.on

\* What waits in a channel is a denial or was read too late.
AnswersTrue ==
  /\ \A s \in strays : s[2].late
  /\ \A a \in Agents : \A i \in DOMAIN chan[a] : chan[a][i].kind = "deny" \/ chan[a][i].late

\* A call the page has been asked about.
Old(id) ==
  \/ id[1] < current.n
  \/ id[1] = current.n /\ ~current.on
  \/ id[1] = current.n /\ id[3] < made[id[2]]
  \/ id[1] = current.n /\ id[3] = made[id[2]] /\ at[id[2]] \notin {"gate", "ahead"}

Tells(m) == m.op \in {"confirm", "allowDir"}

\* Nothing speaks of a call that is still to be presented.
IdsTrue ==
  /\ bar # NoBar => Old(bar.of)
  /\ \A i \in DOMAIN toPage : Old(toPage[i].of)
  /\ \A i \in DOMAIN tail : Old(tail[i].of)
  /\ \A i \in DOMAIN saving : saving[i].of \in CallNames /\ Old(saving[i].of)
  /\ \A i \in DOMAIN toEngine : Tells(toEngine[i]) =>
       toEngine[i].answer.of \in CallNames /\ Old(toEngine[i].answer.of)
  /\ \A id \in clicked : Old(id)

\* These frames leave the page with a bar for this call.
LastBar(frames, id) ==
  \E i \in DOMAIN frames :
    /\ frames[i].kind = "confirm" /\ frames[i].of = id
    /\ \A j \in DOMAIN frames : j > i => frames[j].kind = "result" /\ frames[j].of # id

Keeps(frames, id) == \A j \in DOMAIN frames : frames[j].kind = "result" /\ frames[j].of # id
Showing(id) == (bar.of = id /\ Keeps(toPage, id)) \/ LastBar(toPage, id)
AnswerComes(id) ==
  \/ \E i \in DOMAIN saving : saving[i].of = id
  \/ \E i \in DOMAIN toEngine : Tells(toEngine[i]) /\ toEngine[i].answer.of = id

\* A call that waits has the last bar of the turn; the page shows it, or will,
\* or an answer to it is on the way.
AskTrue ==
  \A a \in Agents : at[a] = "asking" =>
    /\ LastBar(tail, Id(a))
    /\ IF Id(a) \in clicked THEN AnswerComes(Id(a)) ELSE following => Showing(Id(a))

ConsentInv == ConsentTypes /\ AgentsTrue /\ AnswersTrue /\ IdsTrue /\ AskTrue

\* The name of the call an agent makes tells whose it is, and is no one's else.
LEMMA NameOf ==
  ASSUME ConsentTypes, NEW a \in Agents
  PROVE /\ Id(a) \in CallNames /\ Id(a)[1] = current.n /\ Id(a)[2] = a /\ Id(a)[3] = made[a] /\ Id(a) # <<>>
<1>1. current.n \in Nat /\ made[a] \in Nat
  BY DEF ConsentTypes
<1>2. Id(a) \in CallNames /\ Id(a)[1] = current.n /\ Id(a)[2] = a /\ Id(a)[3] = made[a]
  BY <1>1 DEF Id, CallNames
<1>3. Len(Id(a)) = 3
  BY DEF Id
<1>4. Len(<<>>) = 0
  OBVIOUS
<1> QED BY <1>2, <1>3, <1>4

LEMMA NameIsNotEmpty == ASSUME NEW id \in CallNames PROVE id # <<>>
<1>1. Len(id) = 3
  BY DEF CallNames
<1>2. Len(<<>>) = 0
  OBVIOUS
<1> QED BY <1>1, <1>2

LEMMA NewBar ==
  ASSUME NEW frames \in Seq(FrameSet), NEW f \in FrameSet, NEW id, f.kind = "confirm", f.of = id
  PROVE LastBar(frames \o <<f>>, id)
<1>1. frames \o <<f>> = Append(frames, f)
  OBVIOUS
<1>2. Len(frames) + 1 \in DOMAIN Append(frames, f) /\ Append(frames, f)[Len(frames) + 1] = f
  OBVIOUS
<1>3. \A j \in DOMAIN Append(frames, f) : ~(j > Len(frames) + 1)
  OBVIOUS
<1> QED BY <1>1, <1>2, <1>3 DEF LastBar

LEMMA OtherResult ==
  ASSUME NEW frames \in Seq(FrameSet), NEW f \in FrameSet, NEW id, f.kind = "result", f.of # id
  PROVE /\ LastBar(frames, id) => LastBar(frames \o <<f>>, id)
        /\ Keeps(frames, id) => Keeps(frames \o <<f>>, id)
<1>1. frames \o <<f>> = Append(frames, f) /\ DOMAIN Append(frames, f) = 1 .. Len(frames) + 1
  OBVIOUS
<1>2. \A j \in DOMAIN Append(frames, f) : IF j = Len(frames) + 1 THEN Append(frames, f)[j] = f
                                          ELSE j \in DOMAIN frames /\ Append(frames, f)[j] = frames[j]
  OBVIOUS
<1>3. DOMAIN frames \subseteq DOMAIN Append(frames, f) /\ Len(frames) + 1 \notin DOMAIN frames
  OBVIOUS
<1> QED BY <1>1, <1>2, <1>3 DEF LastBar, Keeps

LEMMA BarAfter ==
  ASSUME NEW p \in Seq(FrameSet), NEW t \in Seq(FrameSet), NEW id, LastBar(t, id)
  PROVE LastBar(p \o t, id)
<1>1. PICK i \in DOMAIN t : /\ t[i].kind = "confirm" /\ t[i].of = id
                            /\ \A j \in DOMAIN t : j > i => t[j].kind = "result" /\ t[j].of # id
  BY DEF LastBar
<1>2. DOMAIN (p \o t) = 1 .. Len(p) + Len(t) /\ DOMAIN t = 1 .. Len(t) /\ Len(p) \in Nat /\ Len(t) \in Nat
  OBVIOUS
<1>3. \A j \in DOMAIN (p \o t) : j > Len(p) => j - Len(p) \in DOMAIN t /\ (p \o t)[j] = t[j - Len(p)]
  BY <1>2
<1>4. Len(p) + i \in DOMAIN (p \o t) /\ (p \o t)[Len(p) + i] = t[i]
  BY <1>2, <1>3
<1>5. \A j \in DOMAIN (p \o t) : j > Len(p) + i => (p \o t)[j].kind = "result" /\ (p \o t)[j].of # id
  BY <1>1, <1>2, <1>3
<1> QED BY <1>1, <1>4, <1>5 DEF LastBar

LEMMA FirstTaken ==
  ASSUME NEW frames \in Seq(FrameSet), frames # <<>>, NEW id
  PROVE /\ Keeps(frames, id) => Head(frames).kind = "result" /\ Head(frames).of # id /\ Keeps(Tail(frames), id)
        /\ LastBar(frames, id) =>
             LastBar(Tail(frames), id) \/ (Head(frames).kind = "confirm" /\ Head(frames).of = id /\ Keeps(Tail(frames), id))
<1>1. Head(frames) = frames[1] /\ DOMAIN frames = 1 .. Len(frames) /\ 1 \in DOMAIN frames /\ Len(frames) \in Nat
  OBVIOUS
<1>2. DOMAIN Tail(frames) = 1 .. Len(frames) - 1 /\ \A j \in DOMAIN Tail(frames) : Tail(frames)[j] = frames[j + 1]
  OBVIOUS
<1>3. \A j \in DOMAIN Tail(frames) : j + 1 \in DOMAIN frames /\ j + 1 > 1
  BY <1>1, <1>2
<1>4. Keeps(frames, id) => Head(frames).kind = "result" /\ Head(frames).of # id /\ Keeps(Tail(frames), id)
  BY <1>1, <1>2, <1>3 DEF Keeps
<1>5. ASSUME LastBar(frames, id) PROVE LastBar(Tail(frames), id) \/ (Head(frames).kind = "confirm" /\ Head(frames).of = id /\ Keeps(Tail(frames), id))
  <2>1. PICK i \in DOMAIN frames : /\ frames[i].kind = "confirm" /\ frames[i].of = id
                                   /\ \A j \in DOMAIN frames : j > i => frames[j].kind = "result" /\ frames[j].of # id
    BY <1>5 DEF LastBar
  <2>2. CASE i = 1
    BY <1>1, <1>2, <1>3, <2>1, <2>2 DEF Keeps
  <2>3. CASE i # 1
    <3>1. i - 1 \in DOMAIN Tail(frames) /\ Tail(frames)[i - 1] = frames[i]
      BY <1>1, <1>2, <2>3
    <3>2. \A j \in DOMAIN Tail(frames) : j > i - 1 => Tail(frames)[j].kind = "result" /\ Tail(frames)[j].of # id
      BY <1>1, <1>2, <1>3, <2>1
    <3> QED BY <2>1, <3>1, <3>2 DEF LastBar
  <2> QED BY <2>2, <2>3
<1> QED BY <1>4, <1>5

LEMMA Posted ==
  ASSUME NEW S, NEW q \in Seq(S), NEW m \in S
  PROVE /\ Append(q, m) \in Seq(S) /\ DOMAIN q \subseteq DOMAIN Append(q, m)
        /\ \A i \in DOMAIN q : Append(q, m)[i] = q[i]
        /\ Len(q) + 1 \in DOMAIN Append(q, m) /\ Append(q, m)[Len(q) + 1] = m
        /\ \A i \in DOMAIN Append(q, m) : i \in DOMAIN q \/ Append(q, m)[i] = m
OBVIOUS

LEMMA Taken ==
  ASSUME NEW S, NEW q \in Seq(S), q # <<>>
  PROVE /\ Tail(q) \in Seq(S) /\ 1 \in DOMAIN q /\ Head(q) = q[1] /\ Head(q) \in S
        /\ \A i \in DOMAIN Tail(q) : \E j \in DOMAIN q : Tail(q)[i] = q[j]
        /\ \A i \in DOMAIN q : q[i] = Head(q) \/ \E j \in DOMAIN Tail(q) : Tail(q)[j] = q[i]
<1>1. Tail(q) \in Seq(S) /\ 1 \in DOMAIN q /\ Head(q) = q[1] /\ Head(q) \in S
  OBVIOUS
<1>2. \A i \in DOMAIN Tail(q) : i + 1 \in DOMAIN q /\ Tail(q)[i] = q[i + 1]
  OBVIOUS
<1>3. \A i \in DOMAIN q : i = 1 \/ (i - 1 \in DOMAIN Tail(q) /\ Tail(q)[i - 1] = q[i])
  OBVIOUS
<1> QED BY <1>1, <1>2, <1>3

LEMMA Published ==
  ASSUME NEW S, NEW p \in Seq(S), NEW t \in Seq(S)
  PROVE /\ p \o t \in Seq(S)
        /\ \A i \in DOMAIN (p \o t) :
             (\E j \in DOMAIN p : (p \o t)[i] = p[j]) \/ (\E j \in DOMAIN t : (p \o t)[i] = t[j])
<1>1. p \o t \in Seq(S)
  OBVIOUS
<1>2. \A i \in DOMAIN (p \o t) : IF i <= Len(p) THEN i \in DOMAIN p /\ (p \o t)[i] = p[i]
                                 ELSE i - Len(p) \in DOMAIN t /\ (p \o t)[i] = t[i - Len(p)]
  OBVIOUS
<1> QED BY <1>1, <1>2

\* What was asked stays asked, whatever the agents do.
LEMMA NamesAge ==
  ASSUME ConsentTypes, ConsentTypes',
         \/ current'.n > current.n
         \/ current'.n = current.n /\ ~current'.on
         \/ /\ current' = current
            /\ \A a \in Agents :
                 \/ made'[a] > made[a]
                 \/ made'[a] = made[a] /\ (at[a] \notin {"gate", "ahead"} => at'[a] \notin {"gate", "ahead"}),
         NEW id \in CallNames, Old(id)
  PROVE Old(id)'
<1>1. id[1] \in Nat /\ id[2] \in Agents /\ id[3] \in Nat
  BY DEF CallNames
<1>2. /\ current.n \in Nat /\ current'.n \in Nat /\ made[id[2]] \in Nat /\ made'[id[2]] \in Nat
      /\ current.on \in BOOLEAN /\ current'.on \in BOOLEAN
  BY <1>1 DEF ConsentTypes
<1>3. id[1] <= current.n
  BY <1>1, <1>2 DEF Old
<1>4. CASE current'.n > current.n
  BY <1>1, <1>2, <1>3, <1>4 DEF Old
<1>5. CASE current'.n = current.n /\ ~current'.on
  BY <1>1, <1>2, <1>3, <1>5 DEF Old
<1>6. CASE current' = current /\ made'[id[2]] > made[id[2]]
  BY <1>1, <1>2, <1>3, <1>6 DEF Old
<1>7. CASE current' = current /\ made'[id[2]] = made[id[2]] /\ (at[id[2]] \notin {"gate", "ahead"} => at'[id[2]] \notin {"gate", "ahead"})
  BY <1>1, <1>2, <1>3, <1>7 DEF Old
<1> QED BY <1>1, <1>4, <1>5, <1>6, <1>7

\* What frames and messages say is of calls with a name.
LEMMA NamesThere ==
  ASSUME ConsentTypes
  PROVE /\ bar # NoBar => bar.of \in CallNames
        /\ \A i \in DOMAIN toPage : toPage[i] \in FrameSet /\ toPage[i].of \in CallNames
        /\ \A i \in DOMAIN tail : tail[i] \in FrameSet /\ tail[i].of \in CallNames
        /\ \A i \in DOMAIN saving : saving[i] \in AnswerSet
        /\ \A i \in DOMAIN toEngine : toEngine[i] \in MessageSet /\ (Tells(toEngine[i]) => toEngine[i].answer \in AnswerSet)
<1>1. /\ toPage \in Seq(FrameSet) /\ tail \in Seq(FrameSet) /\ bar \in FrameSet \cup {NoBar}
      /\ toEngine \in Seq(MessageSet) /\ saving \in Seq(AnswerSet)
  BY DEF ConsentTypes
<1>2. \A f \in FrameSet : f.of \in CallNames
  BY DEF FrameSet
<1>3. \A m \in MessageSet : Tells(m) => m.answer \in AnswerSet
  BY DEF MessageSet, Replying, Tells
<1>4. /\ \A i \in DOMAIN toPage : toPage[i] \in FrameSet
      /\ \A i \in DOMAIN tail : tail[i] \in FrameSet
      /\ \A i \in DOMAIN saving : saving[i] \in AnswerSet
      /\ \A i \in DOMAIN toEngine : toEngine[i] \in MessageSet
  BY <1>1
<1> QED BY <1>1, <1>2, <1>3, <1>4, Zenon

\* A step that leaves the agents alone.
LEMMA Aside ==
  ASSUME ConsentInv, UNCHANGED <<current, at, made, chan, gate, strays>>
  PROVE /\ AgentsTrue' /\ AnswersTrue'
        /\ \A id : Old(id) => Old(id)'
        /\ \A a \in Agents : Id(a)' = Id(a)
<1>1. AgentsTrue'
  BY DEF ConsentInv, AgentsTrue
<1>2. AnswersTrue'
  BY DEF ConsentInv, AnswersTrue
<1>3. \A id : Old(id) => Old(id)'
  BY DEF Old
<1>4. \A a \in Agents : Id(a)' = Id(a)
  BY DEF Id
<1> QED BY <1>1, <1>2, <1>3, <1>4

\* A step that asks nothing new and leaves the page alone.
LEMMA AskStays ==
  ASSUME AskTrue, UNCHANGED <<current, tail, saving, toEngine, clicked, following, toPage, bar>>,
         \A a \in Agents : at'[a] = "asking" => at[a] = "asking" /\ made'[a] = made[a]
  PROVE AskTrue'
<1> SUFFICES ASSUME NEW a \in Agents, at'[a] = "asking"
             PROVE (LastBar(tail, Id(a)) /\ IF Id(a) \in clicked THEN AnswerComes(Id(a)) ELSE following => Showing(Id(a)))'
  BY DEF AskTrue
<1>1. Id(a)' = Id(a)
  BY DEF Id
<1>2. LastBar(tail, Id(a)) /\ IF Id(a) \in clicked THEN AnswerComes(Id(a)) ELSE following => Showing(Id(a))
  BY DEF AskTrue
<1> QED BY <1>1, <1>2 DEF LastBar, AnswerComes, Showing, Keeps, Tells

\* ... and says nothing new either.
LEMMA IdsStay ==
  ASSUME ConsentTypes, IdsTrue, UNCHANGED <<bar, toPage, tail, saving, toEngine, clicked>>,
         \A id \in CallNames : Old(id) => Old(id)'
  PROVE IdsTrue'
<1>1. clicked \subseteq CallNames
  BY DEF ConsentTypes
<1> QED BY <1>1, NamesThere DEF IdsTrue, Tells

\* The engine is told which directories are written without asking, or forgets
\* them, or is asked to stop one of its tasks.
LEMMA AllowDirStep == ASSUME ConsentInv, OnAllowDir PROVE ConsentInv'
<1> DEFINE m == Head(toEngine)
<1>0. ConsentTypes /\ IdsTrue /\ AskTrue
  BY DEF ConsentInv
<1>1. /\ toEngine # <<>> /\ m.op = "allowDir" /\ toEngine' = Tail(toEngine) /\ saving' = Append(saving, m.answer)
      /\ UNCHANGED <<current, cancel, stopped, at, made, dir, chan, gate, auto, strays, tail, following, toPage, bar, clicked>>
  BY DEF OnAllowDir, Read, session, calls, stream
<1>2. toEngine \in Seq(MessageSet) /\ saving \in Seq(AnswerSet)
  BY <1>0 DEF ConsentTypes
<1>3. /\ Tail(toEngine) \in Seq(MessageSet) /\ 1 \in DOMAIN toEngine /\ m = toEngine[1] /\ Tells(m)
      /\ \A i \in DOMAIN Tail(toEngine) : \E j \in DOMAIN toEngine : Tail(toEngine)[i] = toEngine[j]
      /\ \A i \in DOMAIN toEngine : toEngine[i] = m \/ \E j \in DOMAIN Tail(toEngine) : Tail(toEngine)[j] = toEngine[i]
  BY <1>1, <1>2, Taken DEF Tells
<1>4. m.answer \in AnswerSet /\ m.answer.of \in CallNames /\ Old(m.answer.of)
  BY <1>0, <1>3, NamesThere DEF IdsTrue
<1> HIDE DEF m
<1>5. /\ Append(saving, m.answer) \in Seq(AnswerSet) /\ DOMAIN saving \subseteq DOMAIN Append(saving, m.answer)
      /\ \A i \in DOMAIN saving : Append(saving, m.answer)[i] = saving[i]
      /\ Len(saving) + 1 \in DOMAIN Append(saving, m.answer) /\ Append(saving, m.answer)[Len(saving) + 1] = m.answer
      /\ \A i \in DOMAIN Append(saving, m.answer) : i \in DOMAIN saving \/ Append(saving, m.answer)[i] = m.answer
  BY <1>2, <1>4, Posted, Zenon
<1>6. ConsentTypes'
  BY <1>0, <1>1, <1>3, <1>5 DEF ConsentTypes
<1>7. AgentsTrue' /\ AnswersTrue' /\ (\A id : Old(id) => Old(id)') /\ \A a \in Agents : Id(a)' = Id(a)
  BY <1>1, Aside
<1>8. IdsTrue'
  <2>1. (\A i \in DOMAIN saving : saving[i].of \in CallNames /\ Old(saving[i].of))'
    BY <1>0, <1>1, <1>4, <1>5, <1>7 DEF IdsTrue
  <2>2. (\A i \in DOMAIN toEngine : Tells(toEngine[i]) => toEngine[i].answer.of \in CallNames /\ Old(toEngine[i].answer.of))'
    BY <1>0, <1>1, <1>3, <1>7 DEF IdsTrue, Tells
  <2>3. /\ (bar # NoBar => Old(bar.of))' /\ (\A i \in DOMAIN toPage : Old(toPage[i].of))'
        /\ (\A i \in DOMAIN tail : Old(tail[i].of))' /\ (\A id \in clicked : Old(id))'
    BY <1>0, <1>1, <1>7 DEF IdsTrue, NoBar
  <2> QED BY <2>1, <2>2, <2>3 DEF IdsTrue
<1>9. \A id : AnswerComes(id) => AnswerComes(id)'
  <2> SUFFICES ASSUME NEW id, AnswerComes(id) PROVE AnswerComes(id)'
    OBVIOUS
  <2>1. ASSUME NEW i \in DOMAIN saving, saving[i].of = id PROVE \E j \in DOMAIN saving' : saving'[j].of = id
    BY <1>1, <1>5, <2>1
  <2>2. ASSUME NEW i \in DOMAIN toEngine, Tells(toEngine[i]), toEngine[i].answer.of = id, toEngine[i] = m
        PROVE \E j \in DOMAIN saving' : saving'[j].of = id
    BY <1>1, <1>5, <2>2
  <2>3. ASSUME NEW i \in DOMAIN toEngine, Tells(toEngine[i]), toEngine[i].answer.of = id, toEngine[i] # m
        PROVE (\E j \in DOMAIN toEngine : Tells(toEngine[j]) /\ toEngine[j].answer.of = id)'
    BY <1>1, <1>3, <2>3 DEF Tells
  <2> QED BY <2>1, <2>2, <2>3 DEF AnswerComes
<1>10. AskTrue'
  BY <1>0, <1>1, <1>7, <1>9 DEF AskTrue, LastBar, Showing, Keeps
<1> QED BY <1>6, <1>7, <1>8, <1>10 DEF ConsentInv

\* A message that says nothing of a call is read.
LEMMA ReadStep ==
  ASSUME ConsentInv, ConsentTypes', toEngine # <<>>, toEngine' = Tail(toEngine), ~Tells(Head(toEngine)),
         UNCHANGED <<current, made, tail, bar, saving, clicked>>,
         \A a \in Agents : at'[a] = "asking" => at[a] = "asking",
         UNCHANGED <<following, toPage>> \/ (following' = TRUE /\ toPage' = IF current.on THEN toPage \o tail ELSE toPage)
  PROVE AskTrue'
<1>0. ConsentTypes /\ IdsTrue /\ AskTrue /\ AgentsTrue
  BY DEF ConsentInv
<1> SUFFICES ASSUME NEW a \in Agents, at'[a] = "asking"
             PROVE (LastBar(tail, Id(a)) /\ IF Id(a) \in clicked THEN AnswerComes(Id(a)) ELSE following => Showing(Id(a)))'
  BY DEF AskTrue
<1>1. Id(a)' = Id(a)
  BY DEF Id
<1>2. at[a] = "asking" /\ LastBar(tail, Id(a)) /\ IF Id(a) \in clicked THEN AnswerComes(Id(a)) ELSE following => Showing(Id(a))
  BY <1>0 DEF AskTrue
<1>3. current.on
  BY <1>0, <1>2 DEF AgentsTrue, Agents
<1>4. /\ toEngine \in Seq(MessageSet) /\ toPage \in Seq(FrameSet) /\ tail \in Seq(FrameSet)
  BY <1>0 DEF ConsentTypes
<1>5. AnswerComes(Id(a)) => AnswerComes(Id(a))'
  <2>1. \A i \in DOMAIN toEngine : toEngine[i] = Head(toEngine) \/ \E j \in DOMAIN Tail(toEngine) : Tail(toEngine)[j] = toEngine[i]
    BY <1>4, Taken
  <2> QED BY <1>1, <2>1 DEF AnswerComes, Tells
<1>6. LastBar(tail, Id(a))'
  BY <1>1, <1>2 DEF LastBar
<1>7. CASE UNCHANGED <<following, toPage>>
  BY <1>1, <1>2, <1>5, <1>6, <1>7 DEF Showing, LastBar, Keeps
<1>8. CASE following' = TRUE /\ toPage' = IF current.on THEN toPage \o tail ELSE toPage
  <2>1. LastBar(toPage \o tail, Id(a))
    BY <1>2, <1>4, BarAfter
  <2>2. LastBar(toPage, Id(a))'
    BY <1>1, <1>3, <1>8, <2>1 DEF LastBar
  <2> QED BY <1>1, <1>2, <1>5, <1>6, <2>2 DEF Showing
<1> QED BY <1>7, <1>8

\* Nothing new is said when a message is taken off, and frames are those there were.
LEMMA IdsRead ==
  ASSUME ConsentTypes, IdsTrue, \A id \in CallNames : Old(id) => Old(id)',
         toEngine' = toEngine \/ (toEngine # <<>> /\ toEngine' = Tail(toEngine)),
         toPage' = toPage \/ toPage' = toPage \o tail, UNCHANGED <<tail, bar, saving, clicked>>
  PROVE IdsTrue'
<1>1. /\ toEngine \in Seq(MessageSet) /\ toPage \in Seq(FrameSet) /\ tail \in Seq(FrameSet) /\ clicked \subseteq CallNames
  BY DEF ConsentTypes
<1>2. \A i \in DOMAIN toEngine' : \E j \in DOMAIN toEngine : toEngine'[i] = toEngine[j]
  BY <1>1, Taken, SMTT(30)
<1>3. \A i \in DOMAIN toPage' : (\E j \in DOMAIN toPage : toPage'[i] = toPage[j]) \/ (\E j \in DOMAIN tail : toPage'[i] = tail[j])
  <2>1. CASE toPage' = toPage
    BY <2>1
  <2>2. \A i \in DOMAIN (toPage \o tail) :
          (\E j \in DOMAIN toPage : (toPage \o tail)[i] = toPage[j]) \/ (\E j \in DOMAIN tail : (toPage \o tail)[i] = tail[j])
    BY <1>1, Published
  <2>3. CASE toPage' = toPage \o tail
    BY <2>2, <2>3
  <2> QED BY <2>1, <2>3
<1>4. (\A i \in DOMAIN toEngine : Tells(toEngine[i]) => toEngine[i].answer.of \in CallNames /\ Old(toEngine[i].answer.of))'
  BY <1>2 DEF IdsTrue, Tells
<1>5. (\A i \in DOMAIN toPage : Old(toPage[i].of))'
  BY <1>3, NamesThere DEF IdsTrue
<1>6. /\ (bar # NoBar => Old(bar.of))'
      /\ (\A i \in DOMAIN tail : Old(tail[i].of))' /\ (\A id \in clicked : Old(id))'
      /\ (\A i \in DOMAIN saving : saving[i].of \in CallNames /\ Old(saving[i].of))'
  BY <1>1, NamesThere DEF IdsTrue, NoBar
<1> QED BY <1>4, <1>5, <1>6 DEF IdsTrue

LEMMA PlainReads ==
  ASSUME ConsentInv, OnForgetDirs \/ OnSetAuto \/ OnCancelTask \/ OnAttach
  PROVE ConsentInv'
<1>0. ConsentTypes /\ IdsTrue
  BY DEF ConsentInv
<1>1. toEngine \in Seq(MessageSet) /\ toPage \in Seq(FrameSet) /\ tail \in Seq(FrameSet)
  BY <1>0 DEF ConsentTypes
<1>2. toEngine # <<>> /\ toEngine' = Tail(toEngine) /\ ~Tells(Head(toEngine)) /\ UNCHANGED <<current, at, made, chan, gate, strays>>
  BY DEF OnForgetDirs, OnSetAuto, OnCancelTask, OnAttach, Read, Tells, session, calls
<1>3. UNCHANGED <<tail, bar, saving, clicked, dir, cancel>>
  BY DEF OnForgetDirs, OnSetAuto, OnCancelTask, OnAttach, session, calls, stream, page
<1>4. UNCHANGED <<following, toPage>> \/ (following' = TRUE /\ toPage' = IF current.on THEN toPage \o tail ELSE toPage)
  BY DEF OnForgetDirs, OnSetAuto, OnCancelTask, OnAttach, stream
<1>5. Head(toEngine) \in MessageSet /\ Tail(toEngine) \in Seq(MessageSet) /\ toPage \o tail \in Seq(FrameSet)
  BY <1>1, <1>2, Taken, Published
<1>6. auto' \in BOOLEAN
  <2>1. CASE UNCHANGED auto
    BY <1>0, <2>1 DEF ConsentTypes
  <2>2. CASE OnSetAuto
    <3>1. auto' = Head(toEngine).on /\ Head(toEngine).op = "setAuto"
      BY <2>2 DEF OnSetAuto, Read
    <3>2. Head(toEngine) \in [op : {"setAuto"}, on : BOOLEAN]
      BY <1>5, <3>1 DEF MessageSet, Replying
    <3> QED BY <3>1, <3>2
  <2> QED BY <2>1, <2>2 DEF OnForgetDirs, OnCancelTask, OnAttach, calls
<1>7. ConsentTypes'
  BY <1>0, <1>2, <1>3, <1>4, <1>5, <1>6 DEF ConsentTypes
<1>8. AgentsTrue' /\ AnswersTrue' /\ \A id : Old(id) => Old(id)'
  BY <1>2, Aside
<1>9. IdsTrue'
  BY <1>0, <1>2, <1>3, <1>4, <1>8, IdsRead
<1>10. AskTrue'
  BY <1>2, <1>3, <1>4, <1>7, ReadStep
<1> QED BY <1>7, <1>8, <1>9, <1>10 DEF ConsentInv

\* The page takes a frame.
LEMMA FrameStep == ASSUME ConsentInv, OnFrame PROVE ConsentInv'
<1> DEFINE f == Head(toPage)
<1>0. ConsentTypes /\ IdsTrue /\ AskTrue
  BY DEF ConsentInv
<1>1. /\ toPage # <<>> /\ toPage' = Tail(toPage)
      /\ bar' = IF f.kind = "confirm" THEN f ELSE IF bar.of = f.of THEN NoBar ELSE bar
      /\ UNCHANGED <<current, cancel, stopped, at, made, dir, chan, gate, auto, strays, learned, tail, following, toEngine,
                     saving, clicked, clicks>>
  BY DEF OnFrame, session, calls
<1>2. toPage \in Seq(FrameSet)
  BY <1>0 DEF ConsentTypes
<1>3. /\ Tail(toPage) \in Seq(FrameSet) /\ 1 \in DOMAIN toPage /\ f = toPage[1] /\ f \in FrameSet
      /\ \A i \in DOMAIN Tail(toPage) : \E j \in DOMAIN toPage : Tail(toPage)[i] = toPage[j]
  BY <1>1, <1>2, Taken
<1>4. Old(f.of) /\ f.of \in CallNames /\ f.of # <<>>
  BY <1>0, <1>3, NamesThere, NameIsNotEmpty DEF IdsTrue
<1> HIDE DEF f
<1>5. ConsentTypes'
  BY <1>0, <1>1, <1>3 DEF ConsentTypes
<1>6. AgentsTrue' /\ AnswersTrue' /\ (\A id : Old(id) => Old(id)') /\ \A a \in Agents : Id(a)' = Id(a)
  BY <1>1, Aside
<1>7. IdsTrue'
  <2>1. (\A i \in DOMAIN toPage : Old(toPage[i].of))'
    BY <1>0, <1>1, <1>3, <1>6 DEF IdsTrue
  <2>2. (bar # NoBar => Old(bar.of))'
    BY <1>0, <1>1, <1>4, <1>6 DEF IdsTrue, NoBar
  <2>3. /\ (\A i \in DOMAIN tail : Old(tail[i].of))' /\ (\A id \in clicked : Old(id))'
        /\ (\A i \in DOMAIN saving : saving[i].of \in CallNames /\ Old(saving[i].of))'
        /\ (\A i \in DOMAIN toEngine : Tells(toEngine[i]) => toEngine[i].answer.of \in CallNames /\ Old(toEngine[i].answer.of))'
    BY <1>0, <1>1, <1>6 DEF IdsTrue, Tells
  <2> QED BY <2>1, <2>2, <2>3 DEF IdsTrue
<1>8. AskTrue'
  <2> SUFFICES ASSUME NEW a \in Agents, at'[a] = "asking"
               PROVE (LastBar(tail, Id(a)) /\ IF Id(a) \in clicked THEN AnswerComes(Id(a)) ELSE following => Showing(Id(a)))'
    BY DEF AskTrue
  <2>1. Id(a)' = Id(a) /\ at[a] = "asking"
    BY <1>1, <1>6
  <2>2. LastBar(tail, Id(a)) /\ IF Id(a) \in clicked THEN AnswerComes(Id(a)) ELSE following => Showing(Id(a))
    BY <1>0, <2>1 DEF AskTrue
  <2>3. LastBar(tail, Id(a))' /\ (AnswerComes(Id(a)) => AnswerComes(Id(a))')
    BY <1>1, <2>1, <2>2 DEF LastBar, AnswerComes, Tells
  <2>4. ASSUME Showing(Id(a)) PROVE Showing(Id(a))'
    <3>1. Keeps(toPage, Id(a)) => f.kind = "result" /\ f.of # Id(a) /\ Keeps(Tail(toPage), Id(a))
      BY <1>1, <1>2, FirstTaken DEF f
    <3>2. LastBar(toPage, Id(a)) =>
            LastBar(Tail(toPage), Id(a)) \/ (f.kind = "confirm" /\ f.of = Id(a) /\ Keeps(Tail(toPage), Id(a)))
      BY <1>1, <1>2, FirstTaken DEF f
    <3>3. CASE bar.of = Id(a) /\ Keeps(toPage, Id(a))
      <4>1. bar'.of = Id(a) /\ Keeps(Tail(toPage), Id(a))
        BY <1>1, <3>1, <3>3
      <4> QED BY <1>1, <2>1, <4>1 DEF Showing, Keeps
    <3>4. CASE LastBar(Tail(toPage), Id(a))
      BY <1>1, <2>1, <3>4 DEF Showing, LastBar
    <3>5. CASE f.kind = "confirm" /\ f.of = Id(a) /\ Keeps(Tail(toPage), Id(a))
      <4>1. bar'.of = Id(a)
        BY <1>1, <3>5
      <4> QED BY <1>1, <2>1, <3>5, <4>1 DEF Showing, Keeps
    <3> QED BY <2>4, <3>2, <3>3, <3>4, <3>5 DEF Showing
  <2> QED BY <1>1, <2>1, <2>2, <2>3, <2>4
<1> QED BY <1>5, <1>6, <1>7, <1>8 DEF ConsentInv

\* The page says something: what it posts names a call it was asked about.
LEMMA PostStep ==
  ASSUME ConsentInv, NEW m \in MessageSet, toEngine' = Append(toEngine, m),
         Tells(m) => m.answer.of \in CallNames /\ Old(m.answer.of),
         UNCHANGED <<current, cancel, at, made, dir, chan, gate, auto, strays, tail>>,
         UNCHANGED <<bar, toPage, following>> \/ (bar' = NoBar /\ UNCHANGED <<toPage, following>>)
           \/ (bar' = NoBar /\ toPage' = <<>> /\ following' = FALSE),
         clicked' \subseteq CallNames, \A id \in clicked' : Old(id),
         UNCHANGED saving \/ (saving # <<>> /\ saving' = Tail(saving))
  PROVE /\ ConsentTypes' /\ AgentsTrue' /\ AnswersTrue' /\ IdsTrue'
        /\ \A i \in DOMAIN toEngine : i \in DOMAIN toEngine' /\ toEngine'[i] = toEngine[i]
        /\ \E i \in DOMAIN toEngine' : toEngine'[i] = m
<1>0. ConsentTypes /\ IdsTrue /\ AskTrue
  BY DEF ConsentInv
<1>1. toEngine \in Seq(MessageSet) /\ saving \in Seq(AnswerSet)
  BY <1>0 DEF ConsentTypes
<1>2. /\ Append(toEngine, m) \in Seq(MessageSet) /\ DOMAIN toEngine \subseteq DOMAIN Append(toEngine, m)
      /\ \A i \in DOMAIN toEngine : Append(toEngine, m)[i] = toEngine[i]
      /\ Len(toEngine) + 1 \in DOMAIN Append(toEngine, m) /\ Append(toEngine, m)[Len(toEngine) + 1] = m
      /\ \A i \in DOMAIN Append(toEngine, m) : i \in DOMAIN toEngine \/ Append(toEngine, m)[i] = m
  BY <1>1, Posted, Zenon
<1>3. saving' \in Seq(AnswerSet) /\ \A i \in DOMAIN saving' : \E j \in DOMAIN saving : saving'[i] = saving[j]
  <2>1. CASE UNCHANGED saving
    BY <1>1, <2>1
  <2>2. CASE saving # <<>> /\ saving' = Tail(saving)
    BY <1>1, <2>2, Taken
  <2> QED BY <2>1, <2>2
<1>4. bar' \in FrameSet \cup {NoBar} /\ toPage' \in Seq(FrameSet) /\ following' \in BOOLEAN
  <2>1. bar \in FrameSet \cup {NoBar} /\ toPage \in Seq(FrameSet) /\ following \in BOOLEAN
    BY <1>0 DEF ConsentTypes
  <2>2. NoBar' = NoBar /\ <<>> \in Seq(FrameSet)
    BY DEF NoBar
  <2>3. bar' = bar \/ bar' = NoBar
    OBVIOUS
  <2>4. toPage' = toPage \/ toPage' = <<>>
    OBVIOUS
  <2>5. following' = following \/ following' = FALSE
    BY Zenon
  <2>6. following' \in BOOLEAN
    BY <2>1, <2>5, Zenon
  <2> QED BY <2>1, <2>2, <2>3, <2>4, <2>6
<1>5. ConsentTypes'
  BY <1>0, <1>2, <1>3, <1>4 DEF ConsentTypes, NoBar
<1>6. AgentsTrue' /\ AnswersTrue' /\ \A id : Old(id) => Old(id)'
  BY Aside
<1>7. IdsTrue'
  <2>1. (\A i \in DOMAIN toEngine : Tells(toEngine[i]) => toEngine[i].answer.of \in CallNames /\ Old(toEngine[i].answer.of))'
    BY <1>0, <1>2, <1>6 DEF IdsTrue, Tells
  <2>2. (\A i \in DOMAIN saving : saving[i].of \in CallNames /\ Old(saving[i].of))'
    BY <1>0, <1>3, <1>6 DEF IdsTrue
  <2>3. (bar # NoBar => Old(bar.of))'
    BY <1>0, <1>6 DEF IdsTrue, NoBar
  <2>4. (\A i \in DOMAIN toPage : Old(toPage[i].of))'
    BY <1>0, <1>6 DEF IdsTrue
  <2>5. (\A i \in DOMAIN tail : Old(tail[i].of))' /\ (\A id \in clicked : Old(id))'
    BY <1>0, <1>6 DEF IdsTrue
  <2> QED BY <2>1, <2>2, <2>3, <2>4, <2>5 DEF IdsTrue
<1> QED BY <1>2, <1>5, <1>6, <1>7

\* An answer: it is on its way to the engine when its bar is gone.
LEMMA AnswerStep ==
  ASSUME ConsentInv, NEW kind \in {"deny", "yes", "all"}, NEW folder \in BOOLEAN, Answer(kind, folder)
  PROVE ConsentInv'
<1> DEFINE verdict == [of |-> bar.of, kind |-> kind, dir |-> IF folder THEN bar.dir ELSE "none", late |-> FALSE]
<1> DEFINE m == [op |-> IF folder THEN "allowDir" ELSE "confirm", answer |-> verdict]
<1>0. ConsentTypes /\ IdsTrue /\ AskTrue
  BY DEF ConsentInv
<1>1. /\ bar # NoBar /\ toEngine' = Append(toEngine, m) /\ clicked' = clicked \cup {bar.of} /\ bar' = NoBar
      /\ UNCHANGED <<current, cancel, stopped, at, made, dir, chan, gate, auto, strays, tail, following, toPage, saving>>
  BY DEF Answer, Post, session, calls, stream
<1>2. bar \in FrameSet /\ bar.of \in CallNames /\ bar.of # <<>> /\ Old(bar.of)
  BY <1>0, <1>1, NamesThere, NameIsNotEmpty DEF IdsTrue, ConsentTypes
<1>3. verdict \in AnswerSet /\ verdict.of = bar.of
  BY <1>2 DEF AnswerSet, FrameSet, Folders
<1>4. m \in MessageSet /\ Tells(m) /\ m.answer.of = bar.of
  BY <1>3 DEF MessageSet, Replying, Tells
<1> HIDE DEF m, verdict
<1>5. clicked' \subseteq CallNames /\ \A id \in clicked' : Old(id)
  BY <1>0, <1>1, <1>2 DEF ConsentTypes, IdsTrue
<1>6. /\ ConsentTypes' /\ AgentsTrue' /\ AnswersTrue' /\ IdsTrue'
      /\ \A i \in DOMAIN toEngine : i \in DOMAIN toEngine' /\ toEngine'[i] = toEngine[i]
      /\ \E i \in DOMAIN toEngine' : toEngine'[i] = m
  BY <1>1, <1>2, <1>4, <1>5, PostStep
<1>7. AskTrue'
  <2> SUFFICES ASSUME NEW a \in Agents, at'[a] = "asking"
               PROVE (LastBar(tail, Id(a)) /\ IF Id(a) \in clicked THEN AnswerComes(Id(a)) ELSE following => Showing(Id(a)))'
    BY DEF AskTrue
  <2>1. Id(a)' = Id(a) /\ at[a] = "asking"
    BY <1>1 DEF Id
  <2>2. LastBar(tail, Id(a)) /\ IF Id(a) \in clicked THEN AnswerComes(Id(a)) ELSE following => Showing(Id(a))
    BY <1>0, <2>1 DEF AskTrue
  <2>3. LastBar(tail, Id(a))' /\ (AnswerComes(Id(a)) => AnswerComes(Id(a))')
    BY <1>1, <1>6, <2>1, <2>2 DEF LastBar, AnswerComes, Tells
  <2>4. CASE Id(a) = bar.of
    <3>1. AnswerComes(Id(a))'
      BY <1>4, <1>6, <2>1, <2>4 DEF AnswerComes, Tells
    <3>2. Id(a)' \in clicked'
      BY <1>1, <2>1, <2>4
    <3> QED BY <2>3, <3>1, <3>2
  <2>5. CASE Id(a) # bar.of
    <3>1. Id(a)' \in clicked' <=> Id(a) \in clicked
      BY <1>1, <2>1, <2>5
    <3>2. Showing(Id(a)) => Showing(Id(a))'
      BY <1>1, <2>1, <2>5 DEF Showing, LastBar
    <3> QED BY <1>1, <2>2, <2>3, <3>1, <3>2
  <2> QED BY <2>4, <2>5
<1> QED BY <1>6, <1>7 DEF ConsentInv

\* The approval goes out once the engine knows the directory.
LEMMA AllowedStep == ASSUME ConsentInv, Allowed PROVE ConsentInv'
<1> DEFINE m == [op |-> "confirm", answer |-> Head(saving)]
<1>0. ConsentTypes /\ IdsTrue /\ AskTrue
  BY DEF ConsentInv
<1>1. /\ saving # <<>> /\ saving' = Tail(saving) /\ toEngine' = Append(toEngine, m)
      /\ UNCHANGED <<current, cancel, stopped, at, made, dir, chan, gate, auto, strays, tail, following, toPage, bar, clicked>>
  BY DEF Allowed, Post, session, calls, stream
<1>2. saving \in Seq(AnswerSet)
  BY <1>0 DEF ConsentTypes
<1>3. /\ 1 \in DOMAIN saving /\ Head(saving) = saving[1] /\ Head(saving) \in AnswerSet
      /\ \A i \in DOMAIN saving : saving[i] = Head(saving) \/ \E j \in DOMAIN Tail(saving) : Tail(saving)[j] = saving[i]
  BY <1>1, <1>2, Taken
<1>4. Head(saving).of \in CallNames /\ Old(Head(saving).of)
  BY <1>0, <1>3 DEF IdsTrue
<1>5. m \in MessageSet /\ Tells(m) /\ m.answer = Head(saving)
  BY <1>3 DEF MessageSet, Replying, Tells
<1> HIDE DEF m
<1>6. clicked' \subseteq CallNames /\ \A id \in clicked' : Old(id)
  BY <1>0, <1>1 DEF ConsentTypes, IdsTrue
<1>7. /\ ConsentTypes' /\ AgentsTrue' /\ AnswersTrue' /\ IdsTrue'
      /\ \A i \in DOMAIN toEngine : i \in DOMAIN toEngine' /\ toEngine'[i] = toEngine[i]
      /\ \E i \in DOMAIN toEngine' : toEngine'[i] = m
  BY <1>1, <1>4, <1>5, <1>6, PostStep
<1>8. \A id : AnswerComes(id) => AnswerComes(id)'
  <2> SUFFICES ASSUME NEW id, AnswerComes(id) PROVE AnswerComes(id)'
    OBVIOUS
  <2>1. ASSUME NEW i \in DOMAIN saving, saving[i].of = id, saving[i] = Head(saving)
        PROVE (\E j \in DOMAIN toEngine : Tells(toEngine[j]) /\ toEngine[j].answer.of = id)'
    BY <1>5, <1>7, <2>1 DEF Tells
  <2>2. ASSUME NEW i \in DOMAIN saving, saving[i].of = id, saving[i] # Head(saving)
        PROVE \E j \in DOMAIN saving' : saving'[j].of = id
    BY <1>1, <1>3, <2>2
  <2>3. ASSUME NEW i \in DOMAIN toEngine, Tells(toEngine[i]), toEngine[i].answer.of = id
        PROVE (\E j \in DOMAIN toEngine : Tells(toEngine[j]) /\ toEngine[j].answer.of = id)'
    BY <1>7, <2>3 DEF Tells
  <2> QED BY <2>1, <2>2, <2>3 DEF AnswerComes
<1>9. \A a \in Agents : Id(a)' = Id(a)
  BY <1>1 DEF Id
<1>10. AskTrue'
  BY <1>0, <1>1, <1>8, <1>9 DEF AskTrue, LastBar, Showing, Keeps
<1> QED BY <1>7, <1>10 DEF ConsentInv

\* The page leaves the session, or tells the engine something that is no answer.
LEMMA SwitchStep == ASSUME ConsentInv, Switch PROVE ConsentInv'
<1> DEFINE m == [op |-> "attach"]
<1>0. ConsentTypes /\ IdsTrue /\ AskTrue
  BY DEF ConsentInv
<1>1. /\ following' = FALSE /\ toPage' = <<>> /\ bar' = NoBar /\ toEngine' = Append(toEngine, m)
      /\ UNCHANGED <<current, cancel, stopped, at, made, dir, chan, gate, auto, strays, tail, saving, clicked>>
  BY DEF Switch, Post, session, calls
<1>2. m \in MessageSet /\ ~Tells(m)
  BY DEF MessageSet, Tells
<1> HIDE DEF m
<1>3. clicked' \subseteq CallNames /\ \A id \in clicked' : Old(id)
  BY <1>0, <1>1 DEF ConsentTypes, IdsTrue
<1>4. /\ ConsentTypes' /\ AgentsTrue' /\ AnswersTrue' /\ IdsTrue'
      /\ \A i \in DOMAIN toEngine : i \in DOMAIN toEngine' /\ toEngine'[i] = toEngine[i]
  BY <1>1, <1>2, <1>3, PostStep
<1>5. \A id : AnswerComes(id) => AnswerComes(id)'
  BY <1>1, <1>4 DEF AnswerComes, Tells
<1>6. \A a \in Agents : Id(a)' = Id(a)
  BY <1>1 DEF Id
<1>7. AskTrue'
  BY <1>0, <1>1, <1>5, <1>6 DEF AskTrue, LastBar
<1> QED BY <1>4, <1>7 DEF ConsentInv

LEMMA PressStep ==
  ASSUME ConsentInv, NEW m \in MessageSet, ~Tells(m), Press(m) PROVE ConsentInv'
<1>0. ConsentTypes /\ IdsTrue /\ AskTrue
  BY DEF ConsentInv
<1>1. /\ toEngine' = Append(toEngine, m)
      /\ UNCHANGED <<current, cancel, stopped, at, made, dir, chan, gate, auto, strays, tail, following, toPage, bar, saving, clicked>>
  BY DEF Press, Post, session, calls, stream
<1>2. clicked' \subseteq CallNames /\ \A id \in clicked' : Old(id)
  BY <1>0, <1>1 DEF ConsentTypes, IdsTrue
<1>3. /\ ConsentTypes' /\ AgentsTrue' /\ AnswersTrue' /\ IdsTrue'
      /\ \A i \in DOMAIN toEngine : i \in DOMAIN toEngine' /\ toEngine'[i] = toEngine[i]
  BY <1>1, <1>2, PostStep
<1>4. \A id : AnswerComes(id) => AnswerComes(id)'
  BY <1>1, <1>3 DEF AnswerComes, Tells
<1>5. \A a \in Agents : Id(a)' = Id(a)
  BY <1>1 DEF Id
<1>6. AskTrue'
  BY <1>0, <1>1, <1>4, <1>5 DEF AskTrue, LastBar, Showing, Keeps
<1> QED BY <1>3, <1>6 DEF ConsentInv

\* A step of agents that publishes nothing and asks nothing new.
LEMMA QuietStep ==
  ASSUME ConsentInv, ConsentTypes', AgentsTrue', AnswersTrue',
         UNCHANGED <<current, tail, saving, toEngine, clicked, following, toPage, bar>>,
         \A a \in Agents :
           \/ made'[a] > made[a] /\ at'[a] # "asking"
           \/ /\ made'[a] = made[a] /\ (at'[a] = "asking" => at[a] = "asking")
              /\ at[a] \notin {"gate", "ahead"} => at'[a] \notin {"gate", "ahead"}
  PROVE ConsentInv'
<1>0. ConsentTypes /\ IdsTrue /\ AskTrue
  BY DEF ConsentInv
<1>1. \A id \in CallNames : Old(id) => Old(id)'
  BY <1>0, NamesAge
<1>2. IdsTrue'
  BY <1>0, <1>1, IdsStay
<1>3. AskTrue'
  BY <1>0, AskStays
<1> QED BY <1>2, <1>3 DEF ConsentInv

\* A step that publishes a frame of a call: a result of one that no longer
\* waits, or the request of the only one that does.
LEMMA PublishStep ==
  ASSUME ConsentInv, ConsentTypes', AgentsTrue', AnswersTrue',
         NEW f \in FrameSet, Publish(<<f>>),
         UNCHANGED <<current, saving, toEngine, clicked, following, bar>>,
         Old(f.of)', f.of \in CallNames,
         \A a \in Agents :
           \/ made'[a] > made[a]
           \/ made'[a] = made[a] /\ (at[a] \notin {"gate", "ahead"} => at'[a] \notin {"gate", "ahead"}),
         \A a \in Agents : at'[a] = "asking" =>
           \/ f.kind = "confirm" /\ Id(a)' = f.of /\ f.of \notin clicked
           \/ f.kind = "result" /\ at[a] = "asking" /\ made'[a] = made[a] /\ f.of # Id(a)
  PROVE ConsentInv'
<1>0. ConsentTypes /\ IdsTrue /\ AskTrue
  BY DEF ConsentInv
<1>1. tail \in Seq(FrameSet) /\ toPage \in Seq(FrameSet) /\ clicked \subseteq CallNames
  BY <1>0 DEF ConsentTypes
<1>2. tail' = tail \o <<f>> /\ toPage' = IF following THEN toPage \o <<f>> ELSE toPage
  BY DEF Publish
<1>3. \A id \in CallNames : Old(id) => Old(id)'
  BY <1>0, NamesAge
<1>4. <<f>> \in Seq(FrameSet) /\ \A i \in DOMAIN <<f>> : <<f>>[i] = f
  OBVIOUS
<1>5. /\ \A i \in DOMAIN tail' : (\E j \in DOMAIN tail : tail'[i] = tail[j]) \/ tail'[i] = f
      /\ \A i \in DOMAIN toPage' : (\E j \in DOMAIN toPage : toPage'[i] = toPage[j]) \/ toPage'[i] = f
  <2>1. \A i \in DOMAIN (tail \o <<f>>) : (\E j \in DOMAIN tail : (tail \o <<f>>)[i] = tail[j]) \/ (\E j \in DOMAIN <<f>> : (tail \o <<f>>)[i] = <<f>>[j])
    BY <1>1, <1>4, Published
  <2>2. \A i \in DOMAIN (toPage \o <<f>>) : (\E j \in DOMAIN toPage : (toPage \o <<f>>)[i] = toPage[j]) \/ (\E j \in DOMAIN <<f>> : (toPage \o <<f>>)[i] = <<f>>[j])
    BY <1>1, <1>4, Published
  <2>3. \A i \in DOMAIN tail' : (\E j \in DOMAIN tail : tail'[i] = tail[j]) \/ tail'[i] = f
    BY <1>2, <1>4, <2>1
  <2>4. CASE following
    BY <1>2, <1>4, <2>2, <2>3, <2>4
  <2>5. CASE ~following
    BY <1>2, <2>3, <2>5
  <2> QED BY <2>4, <2>5
<1>6. IdsTrue'
  <2>1. (\A i \in DOMAIN tail : Old(tail[i].of))'
    BY <1>0, <1>3, <1>5, NamesThere DEF IdsTrue
  <2>2. (\A i \in DOMAIN toPage : Old(toPage[i].of))'
    BY <1>0, <1>3, <1>5, NamesThere DEF IdsTrue
  <2>3. (\A i \in DOMAIN saving : saving[i].of \in CallNames /\ Old(saving[i].of))'
    BY <1>0, <1>3 DEF IdsTrue
  <2>4. (\A i \in DOMAIN toEngine : Tells(toEngine[i]) => toEngine[i].answer.of \in CallNames /\ Old(toEngine[i].answer.of))'
    BY <1>0, <1>3 DEF IdsTrue, Tells
  <2>5. (bar # NoBar => Old(bar.of))'
    BY <1>0, <1>3, NamesThere DEF IdsTrue, NoBar
  <2>6. (\A id \in clicked : Old(id))'
    BY <1>0, <1>1, <1>3 DEF IdsTrue
  <2> QED BY <2>1, <2>2, <2>3, <2>4, <2>5, <2>6 DEF IdsTrue
<1>7. ASSUME NEW a \in Agents, at'[a] = "asking"
      PROVE (LastBar(tail, Id(a)) /\ IF Id(a) \in clicked THEN AnswerComes(Id(a)) ELSE following => Showing(Id(a)))'
  <2>1. CASE f.kind = "confirm" /\ Id(a)' = f.of /\ f.of \notin clicked
    <3>1. LastBar(tail \o <<f>>, f.of) /\ LastBar(toPage \o <<f>>, f.of)
      BY <1>1, <2>1, NewBar
    <3>2. LastBar(tail, Id(a))'
      BY <1>2, <2>1, <3>1 DEF LastBar
    <3>3. following => LastBar(toPage, Id(a))'
      BY <1>2, <2>1, <3>1 DEF LastBar
    <3>4. ~(Id(a) \in clicked)'
      BY <2>1
    <3> QED BY <3>2, <3>3, <3>4 DEF Showing
  <2>2. CASE f.kind = "result" /\ at[a] = "asking" /\ made'[a] = made[a] /\ f.of # Id(a)
    <3>1. Id(a)' = Id(a)
      BY <2>2 DEF Id
    <3>2. LastBar(tail, Id(a)) /\ IF Id(a) \in clicked THEN AnswerComes(Id(a)) ELSE following => Showing(Id(a))
      BY <1>0, <2>2 DEF AskTrue
    <3>3. /\ LastBar(tail \o <<f>>, Id(a)) /\ (LastBar(toPage, Id(a)) => LastBar(toPage \o <<f>>, Id(a)))
          /\ Keeps(toPage, Id(a)) => Keeps(toPage \o <<f>>, Id(a))
      BY <1>1, <2>2, <3>2, OtherResult
    <3>4. LastBar(tail, Id(a))'
      <4>1. LastBar(tail', Id(a))
        BY <1>2, <3>3
      <4> QED BY <3>1, <4>1 DEF LastBar
    <3>5. AnswerComes(Id(a)) => AnswerComes(Id(a))'
      BY <3>1 DEF AnswerComes, Tells
    <3>6. ASSUME following, Showing(Id(a)) PROVE Showing(Id(a))'
      <4>1. toPage' = toPage \o <<f>> /\ bar' = bar
        BY <1>2, <3>6
      <4>2. (bar.of = Id(a) /\ Keeps(toPage \o <<f>>, Id(a))) \/ LastBar(toPage \o <<f>>, Id(a))
        BY <3>3, <3>6 DEF Showing
      <4> QED BY <3>1, <4>1, <4>2 DEF Showing, Keeps, LastBar
    <3> QED BY <3>1, <3>2, <3>4, <3>5, <3>6
  <2> QED BY <1>7, <2>1, <2>2
<1>8. AskTrue'
  BY <1>7 DEF AskTrue
<1> QED BY <1>6, <1>8 DEF ConsentInv

\* A turn starts, and ends.
LEMMA TurnSteps == ASSUME ConfirmsAssumption, ConsentInv, BeginTurn \/ EndTurn PROVE ConsentInv'
<1>0. ConsentTypes /\ IdsTrue /\ AskTrue /\ AgentsTrue /\ AnswersTrue
  BY DEF ConsentInv
<1>1. "parent" \in Agents /\ "parent" \notin Kids /\ "none" \notin Kids /\ Kids \subseteq Agents
  BY DEF ConfirmsAssumption, Agents
<1>2. UNCHANGED <<dir, auto, following, toPage, toEngine, bar, saving, clicked, strays>>
  BY DEF BeginTurn, EndTurn, page, stream
<1>3. CASE BeginTurn
  <2>1. /\ ~current.on /\ current' = [n |-> current.n + 1, on |-> TRUE] /\ at' = [Idle EXCEPT !["parent"] = "free"]
        /\ UNCHANGED <<cancel, stopped, made, chan, gate, tail>>
    BY <1>3 DEF BeginTurn, stream
  <2>2. at' \in [Agents -> {"off", "free"}] /\ at'["parent"] = "free" /\ \A k \in Kids : at'[k] = "off"
    BY <1>1, <2>1 DEF Idle
  <2>3. current' \in [n : Nat, on : BOOLEAN] /\ current'.n > current.n /\ current'.on
    BY <1>0, <2>1 DEF ConsentTypes
  <2>4. ConsentTypes'
    BY <1>0, <1>2, <2>1, <2>2, <2>3 DEF ConsentTypes, NoBar
  <2>5. AgentsTrue' /\ AnswersTrue'
    BY <1>0, <1>2, <2>1, <2>2, <2>3 DEF AgentsTrue, AnswersTrue
  <2>6. \A id \in CallNames : Old(id) => Old(id)'
    BY <1>0, <2>3, <2>4, NamesAge
  <2>7. IdsTrue'
    BY <1>0, <1>2, <2>1, <2>6, IdsStay
  <2>8. AskTrue'
    BY <2>2 DEF AskTrue
  <2> QED BY <2>4, <2>5, <2>7, <2>8 DEF ConsentInv
<1>4. CASE EndTurn
  <2>1. /\ at["parent"] = "free" /\ current' = [current EXCEPT !.on = FALSE] /\ at' = Idle /\ cancel' = FALSE
        /\ gate' = "none" /\ tail' = <<>> /\ made' = [a \in Agents |-> 0] /\ chan' = [a \in Agents |-> <<>>]
    BY <1>4 DEF EndTurn
  <2>2. at' \in [Agents -> {"off"}] /\ \A a \in Agents : at'[a] = "off"
    BY <2>1 DEF Idle
  <2>3. current' \in [n : Nat, on : BOOLEAN] /\ current'.n = current.n /\ ~current'.on
    BY <1>0, <2>1 DEF ConsentTypes
  <2>4. made' \in [Agents -> Nat] /\ chan' \in [Agents -> Seq(AnswerSet)] /\ tail' \in Seq(FrameSet)
    BY <2>1
  <2>5. ConsentTypes'
    BY <1>0, <1>2, <2>1, <2>2, <2>3, <2>4 DEF ConsentTypes, NoBar
  <2>6. AgentsTrue' /\ AnswersTrue'
    <3>1. \A a \in Agents : \A i \in DOMAIN chan'[a] : FALSE
      BY <2>1
    <3> QED BY <1>0, <1>1, <1>2, <2>1, <2>2, <3>1 DEF AgentsTrue, AnswersTrue
  <2>7. \A id \in CallNames : Old(id) => Old(id)'
    BY <1>0, <2>3, <2>5, NamesAge
  <2>8. IdsTrue'
    <3>1. (\A i \in DOMAIN tail : Old(tail[i].of))'
      BY <2>1
    <3>2. (\A i \in DOMAIN toPage : Old(toPage[i].of))' /\ (bar # NoBar => Old(bar.of))'
      BY <1>0, <1>2, <2>7, NamesThere DEF IdsTrue, NoBar
    <3>3. clicked \subseteq CallNames
      BY <1>0 DEF ConsentTypes
    <3>4. (\A i \in DOMAIN saving : saving[i].of \in CallNames /\ Old(saving[i].of))' /\ (\A id \in clicked : Old(id))'
      BY <1>0, <1>2, <2>7, <3>3 DEF IdsTrue
    <3>5. (\A i \in DOMAIN toEngine : Tells(toEngine[i]) => toEngine[i].answer.of \in CallNames /\ Old(toEngine[i].answer.of))'
      BY <1>0, <1>2, <2>7 DEF IdsTrue, Tells
    <3> QED BY <3>1, <3>2, <3>4, <3>5 DEF IdsTrue
  <2>9. AskTrue'
    BY <2>2 DEF AskTrue
  <2> QED BY <2>5, <2>6, <2>8, <2>9 DEF ConsentInv
<1> QED BY <1>3, <1>4

\* Sub-agents are started, end, and are left; their batch ends.
LEMMA BatchSteps ==
  ASSUME ConfirmsAssumption, ConsentInv, Batch \/ BatchDone \/ \E k \in Kids : KidDone(k) \/ Abandon(k)
  PROVE ConsentInv'
<1>0. ConsentTypes /\ IdsTrue /\ AskTrue /\ AgentsTrue /\ AnswersTrue
  BY DEF ConsentInv
<1>1. "parent" \in Agents /\ "parent" \notin Kids /\ "none" \notin Kids /\ Kids \subseteq Agents /\ Agents = {"parent"} \cup Kids
  BY DEF ConfirmsAssumption, Agents
<1>2. /\ at \in [Agents -> {"off", "free", "gate", "asking", "ahead", "busy", "batch"}] /\ made \in [Agents -> Nat]
      /\ gate \in Kids \cup {"none"}
  BY <1>0 DEF ConsentTypes
<1>3. UNCHANGED <<current, cancel, tail, saving, toEngine, clicked, following, toPage, bar, made, dir, chan, auto, strays>>
  BY DEF Batch, BatchDone, KidDone, Abandon, session, stream, page
<1> DEFINE Fine ==
      /\ at' \in [Agents -> {"off", "free", "gate", "asking", "ahead", "busy", "batch"}] /\ gate' \in Kids \cup {"none"}
      /\ \A a \in Agents : (at'[a] = "asking" => at[a] = "asking") /\ (at[a] \notin {"gate", "ahead"} => at'[a] \notin {"gate", "ahead"})
      /\ AgentsTrue'
<1>4. Fine
  <2>1. CASE Batch
    <3>1. at["parent"] = "free" /\ at' = [a \in Agents |-> IF a = "parent" THEN "batch" ELSE "free"] /\ gate' = gate
      BY <2>1 DEF Batch
    <3> QED BY <1>0, <1>1, <1>2, <1>3, <3>1 DEF AgentsTrue
  <2>2. CASE BatchDone
    <3>1. /\ at["parent"] = "batch" /\ (\A k \in Kids : at[k] = "off") /\ at' = [at EXCEPT !["parent"] = "free"]
          /\ gate' = gate
      BY <2>2 DEF BatchDone
    <3> QED BY <1>0, <1>1, <1>2, <1>3, <3>1 DEF AgentsTrue
  <2>3. ASSUME NEW k \in Kids, KidDone(k) \/ Abandon(k) PROVE Fine
    <3>1. /\ at[k] \in {"free", "busy"} /\ at' = [at EXCEPT ![k] = "off"]
          /\ gate' = gate \/ (gate = k /\ gate' = "none")
      BY <2>3 DEF KidDone, Abandon
    <3> QED BY <1>0, <1>1, <1>2, <1>3, <3>1 DEF AgentsTrue
  <2> QED BY <2>1, <2>2, <2>3
<1>5. ConsentTypes'
  BY <1>0, <1>3, <1>4 DEF ConsentTypes, NoBar
<1>6. AnswersTrue'
  BY <1>0, <1>3 DEF AnswersTrue
<1> QED BY <1>3, <1>4, <1>5, <1>6, QuietStep

\* A call that has run tells its result; one that is presented tells its request.
LEMMA ResultStep == ASSUME ConfirmsAssumption, ConsentInv, NEW a \in Agents, Result(a) PROVE ConsentInv'
<1> DEFINE g == [of |-> Id(a), kind |-> "result", dir |-> dir[a]]
<1>0. ConsentTypes /\ AgentsTrue /\ AnswersTrue
  BY DEF ConsentInv
<1>1. /\ at[a] = "busy" /\ at' = [at EXCEPT ![a] = "free"] /\ dir' = [dir EXCEPT ![a] = "none"]
      /\ Publish(<<g>>) /\ gate' = IF gate = a THEN "none" ELSE gate
      /\ UNCHANGED <<current, cancel, stopped, made, chan, auto, strays, following, toEngine, bar, saving, clicked>>
  BY DEF Result, Frame, session, page
<1>2. /\ at \in [Agents -> {"off", "free", "gate", "asking", "ahead", "busy", "batch"}] /\ made \in [Agents -> Nat]
      /\ gate \in Kids \cup {"none"} /\ dir \in [Agents -> Folders] /\ current.n \in Nat
  BY <1>0 DEF ConsentTypes
<1>3. "parent" \notin Kids /\ Agents = {"parent"} \cup Kids /\ "none" \notin Kids
  BY DEF ConfirmsAssumption, Agents
<1>4a. g \in FrameSet /\ g.of = Id(a) /\ g.of \in CallNames /\ Id(a)[1] = current.n /\ Id(a)[2] = a /\ Id(a)[3] = made[a] /\ g.kind = "result"
  BY <1>0, <1>2, NameOf DEF FrameSet
<1> HIDE DEF g
<1>4. PICK f \in FrameSet : /\ f.of = Id(a) /\ f.of \in CallNames /\ f.of[1] = current.n /\ f.of[2] = a /\ f.of[3] = made[a]
                            /\ f.kind = "result" /\ Publish(<<f>>)
  BY <1>1, <1>4a
<1>5. ConsentTypes'
  <2>1. at' \in [Agents -> {"off", "free", "gate", "asking", "ahead", "busy", "batch"}] /\ dir' \in [Agents -> Folders] /\ gate' \in Kids \cup {"none"}
    BY <1>1, <1>2 DEF Folders
  <2>2. tail' \in Seq(FrameSet) /\ toPage' \in Seq(FrameSet)
    BY <1>0, <1>1, <1>4 DEF Publish, ConsentTypes
  <2> QED BY <1>0, <1>1, <2>1, <2>2 DEF ConsentTypes, NoBar
<1>6. AgentsTrue'
  BY <1>0, <1>1, <1>2, <1>3 DEF AgentsTrue
<1>7. AnswersTrue'
  BY <1>0, <1>1 DEF AnswersTrue
<1>8. Old(f.of)'
  BY <1>1, <1>2, <1>4 DEF Old
<1>9. \A b \in Agents : at'[b] = "asking" => f.kind = "result" /\ at[b] = "asking" /\ made'[b] = made[b] /\ f.of # Id(b)
  <2> SUFFICES ASSUME NEW b \in Agents, at'[b] = "asking" PROVE at[b] = "asking" /\ f.of # Id(b)
    BY <1>1, <1>4
  <2>1. b # a /\ at[b] = "asking"
    BY <1>1, <1>2
  <2>2. Id(b)[2] = b
    BY <1>0, NameOf
  <2> QED BY <1>4, <2>1, <2>2
<1>10. \A b \in Agents : made'[b] = made[b] /\ (at[b] \notin {"gate", "ahead"} => at'[b] \notin {"gate", "ahead"})
  BY <1>1, <1>2
<1> QED BY <1>1, <1>4, <1>5, <1>6, <1>7, <1>8, <1>9, <1>10, PublishStep

LEMMA PresentStep == ASSUME ConfirmsAssumption, ConsentInv, NEW k \in Kids, Present(k) PROVE ConsentInv'
<1> DEFINE g == [of |-> Id(k), kind |-> "confirm", dir |-> dir[k]]
<1>0. ConsentTypes /\ AgentsTrue /\ AnswersTrue /\ IdsTrue
  BY DEF ConsentInv
<1>1. /\ at[k] \in {"gate", "ahead"} /\ gate = "none" /\ gate' = k
      /\ at' = [at EXCEPT ![k] = IF at[k] = "gate" THEN "asking" ELSE "busy"]
      /\ Publish(<<g>>)
      /\ UNCHANGED <<current, cancel, stopped, made, dir, chan, auto, strays, following, toEngine, bar, saving, clicked>>
  BY DEF Present, Frame, session, page
<1>2. /\ at \in [Agents -> {"off", "free", "gate", "asking", "ahead", "busy", "batch"}] /\ made \in [Agents -> Nat]
      /\ dir \in [Agents -> Folders] /\ current.n \in Nat
  BY <1>0 DEF ConsentTypes
<1>3. "parent" \notin Kids /\ Agents = {"parent"} \cup Kids /\ "none" \notin Kids /\ k \in Agents
  BY DEF ConfirmsAssumption, Agents
<1>4a. g \in FrameSet /\ g.of = Id(k) /\ g.of \in CallNames /\ Id(k)[1] = current.n /\ Id(k)[2] = k /\ Id(k)[3] = made[k] /\ g.kind = "confirm"
  BY <1>0, <1>2, <1>3, NameOf DEF FrameSet
<1> HIDE DEF g
<1>4. PICK f \in FrameSet : /\ f.of = Id(k) /\ f.of \in CallNames /\ f.of[1] = current.n /\ f.of[2] = k /\ f.of[3] = made[k]
                            /\ f.kind = "confirm" /\ Publish(<<f>>)
  BY <1>1, <1>4a
<1>5. ConsentTypes'
  <2>1. at' \in [Agents -> {"off", "free", "gate", "asking", "ahead", "busy", "batch"}] /\ gate' \in Kids \cup {"none"}
    BY <1>1, <1>2
  <2>2. tail' \in Seq(FrameSet) /\ toPage' \in Seq(FrameSet)
    BY <1>0, <1>1, <1>4 DEF Publish, ConsentTypes
  <2> QED BY <1>0, <1>1, <2>1, <2>2 DEF ConsentTypes, NoBar
<1>6. \A b \in Agents : b # k => at[b] # "asking"
  BY <1>0, <1>1, <1>3 DEF AgentsTrue
<1>7. AgentsTrue'
  BY <1>0, <1>1, <1>2, <1>3, <1>6 DEF AgentsTrue
<1>8. AnswersTrue'
  BY <1>0, <1>1 DEF AnswersTrue
<1>9. Old(f.of)'
  BY <1>1, <1>2, <1>3, <1>4 DEF Old
<1>10. f.of \notin clicked
  <2>1. current.on
    BY <1>0, <1>1 DEF AgentsTrue
  <2>2. ~Old(f.of)
    BY <1>1, <1>2, <1>3, <1>4, <2>1 DEF Old
  <2> QED BY <1>0, <2>2 DEF IdsTrue
<1>11. \A b \in Agents : at'[b] = "asking" => f.kind = "confirm" /\ Id(b)' = f.of /\ f.of \notin clicked
  <2>1. Id(k)' = f.of
    BY <1>1, <1>4 DEF Id
  <2> QED BY <1>1, <1>2, <1>3, <1>4, <1>6, <1>10, <2>1
<1>12. \A b \in Agents : made'[b] = made[b] /\ (at[b] \notin {"gate", "ahead"} => at'[b] \notin {"gate", "ahead"})
  BY <1>1, <1>2
<1> QED BY <1>1, <1>4, <1>5, <1>7, <1>8, <1>9, <1>11, <1>12, PublishStep

\* A call: its name is new, and what its channel holds is a denial or was late.
LEMMA CallStep ==
  ASSUME ConfirmsAssumption, ConsentInv, NEW a \in Agents, NEW d \in Dirs, Call(a, d) PROVE ConsentInv'
<1> DEFINE id == <<current.n, a, made[a] + 1>>
           g == [of |-> id, kind |-> "confirm", dir |-> d]
           Must == NeedsConfirm(d)
<1>0. ConsentTypes /\ AgentsTrue /\ AnswersTrue /\ IdsTrue
  BY DEF ConsentInv
<1>1. /\ at[a] = "free" /\ made' = [made EXCEPT ![a] = @ + 1] /\ dir' = [dir EXCEPT ![a] = d]
      /\ UNCHANGED <<current, cancel, stopped, gate, following, toEngine, bar, saving, clicked>>
  BY DEF Call, session, page
<1>2. /\ at \in [Agents -> {"off", "free", "gate", "asking", "ahead", "busy", "batch"}] /\ made \in [Agents -> Nat]
      /\ dir \in [Agents -> Folders] /\ current.n \in Nat /\ chan \in [Agents -> Seq(AnswerSet)]
  BY <1>0 DEF ConsentTypes
<1>3. "parent" \notin Kids /\ Agents = {"parent"} \cup Kids /\ "none" \notin Kids
  BY DEF ConfirmsAssumption, Agents
<1>4. id \in CallNames /\ id[1] = current.n /\ id[2] = a /\ id[3] = made[a] + 1
  BY <1>2 DEF CallNames
<1>5. g \in FrameSet /\ g.of = id /\ g.kind = "confirm"
  BY <1>4 DEF FrameSet, Folders
<1>6. Must => (a = "parent" => Publish(<<g>>)) /\ (a # "parent" => UNCHANGED <<tail, toPage>>)
  BY DEF Call, Frame
<1>7. Must /\ chan[a] = <<>> =>
        at' = [at EXCEPT ![a] = IF a = "parent" THEN "asking" ELSE "gate"] /\ UNCHANGED <<chan, auto, strays>>
  BY DEF Call
<1>8. Must /\ chan[a] # <<>> =>
        /\ at' = [at EXCEPT ![a] = IF a = "parent" THEN "busy" ELSE "ahead"]
        /\ chan' = [chan EXCEPT ![a] = Tail(@)] /\ Goes(id, Head(chan[a]))
        /\ auto' = (auto \/ Head(chan[a]).kind = "all")
  BY DEF Call
<1>9. ~Must => at' = [at EXCEPT ![a] = "busy"] /\ UNCHANGED <<chan, auto, strays, tail, toPage>>
  BY DEF Call
<1>10. Id(a)' = id
  BY <1>1, <1>2 DEF Id
<1>11. current.on
  BY <1>0, <1>1, <1>3 DEF AgentsTrue
<1> HIDE DEF id, g, Must
<1>12. made' \in [Agents -> Nat] /\ made'[a] > made[a] /\ made'[a] = made[a] + 1 /\ \A b \in Agents : b # a => made'[b] = made[b]
  BY <1>1, <1>2
<1>13. /\ at' \in [Agents -> {"off", "free", "gate", "asking", "ahead", "busy", "batch"}]
       /\ \A b \in Agents : b # a => at'[b] = at[b]
       /\ a = "parent" => at'[a] \in {"asking", "busy"}
       /\ a # "parent" => at'[a] \in {"gate", "ahead", "busy"}
       /\ at'[a] = "asking" => Must
  BY <1>2, <1>7, <1>8, <1>9
<1>14. auto' \in BOOLEAN
  <2>1. auto \in BOOLEAN
    BY <1>0 DEF ConsentTypes
  <2>2. CASE Must /\ chan[a] # <<>>
    <3>1. auto' = (auto \/ Head(chan[a]).kind = "all")
      BY <1>8, <2>2, Zenon
    <3> QED BY <3>1
  <2>3. CASE ~(Must /\ chan[a] # <<>>)
    <3>1. auto' = auto
      BY <1>7, <1>9, <2>3, Zenon
    <3> QED BY <2>1, <3>1, Zenon
  <2> QED BY <2>2, <2>3
<1>15. chan' \in [Agents -> Seq(AnswerSet)] /\ AnswersTrue'
  <2>1. CASE ~(Must /\ chan[a] # <<>>)
    <3>1. chan' = chan /\ strays' = strays
      BY <1>7, <1>9, <2>1
    <3> QED BY <1>0, <1>2, <3>1 DEF AnswersTrue
  <2>2. CASE Must /\ chan[a] # <<>>
    <3>1. chan' = [chan EXCEPT ![a] = Tail(chan[a])] /\ Goes(id, Head(chan[a])) /\ chan[a] \in Seq(AnswerSet)
      BY <1>2, <1>8, <2>2
    <3>2. /\ Tail(chan[a]) \in Seq(AnswerSet) /\ 1 \in DOMAIN chan[a] /\ Head(chan[a]) = chan[a][1]
          /\ \A i \in DOMAIN Tail(chan[a]) : \E j \in DOMAIN chan[a] : Tail(chan[a])[i] = chan[a][j]
      BY <2>2, <3>1, Taken
    <3>3. Head(chan[a]).kind = "deny" \/ Head(chan[a]).late
      BY <1>0, <3>2 DEF AnswersTrue
    <3>4. \A s \in strays' : s[2].late
      BY <1>0, <3>1, <3>3 DEF AnswersTrue, Goes
    <3>5. chan' \in [Agents -> Seq(AnswerSet)]
      BY <1>2, <3>1, <3>2
    <3>6. \A b \in Agents : \A i \in DOMAIN chan'[b] : chan'[b][i].kind = "deny" \/ chan'[b][i].late
      BY <1>0, <1>2, <3>1, <3>2 DEF AnswersTrue
    <3> QED BY <3>4, <3>5, <3>6 DEF AnswersTrue
  <2> QED BY <2>1, <2>2
<1>16. AgentsTrue'
  BY <1>0, <1>1, <1>2, <1>3, <1>13 DEF AgentsTrue
<1>17. dir' \in [Agents -> Folders]
  BY <1>1, <1>2 DEF Folders
<1>18. CASE Must /\ a = "parent"
  <2>1. PICK f \in FrameSet : f.of = id /\ f.kind = "confirm" /\ Publish(<<f>>)
    BY <1>5, <1>6, <1>18
  <2>2. tail' \in Seq(FrameSet) /\ toPage' \in Seq(FrameSet)
    BY <1>0, <2>1 DEF Publish, ConsentTypes
  <2>3. ConsentTypes'
    BY <1>0, <1>1, <1>12, <1>13, <1>14, <1>15, <1>17, <2>2 DEF ConsentTypes, NoBar
  <2>4. Old(f.of)'
    BY <1>1, <1>2, <1>4, <1>12, <1>13, <1>18, <2>1 DEF Old
  <2>5. f.of \notin clicked
    <3>1. ~Old(f.of)
      BY <1>1, <1>2, <1>4, <1>11, <2>1 DEF Old
    <3> QED BY <1>0, <3>1 DEF IdsTrue
  <2>6. \A b \in Agents : b # a => at[b] = "off"
    BY <1>0, <1>1, <1>3, <1>18 DEF AgentsTrue
  <2>7. \A b \in Agents : at'[b] = "asking" => f.kind = "confirm" /\ Id(b)' = f.of /\ f.of \notin clicked
    BY <1>10, <1>13, <2>1, <2>5, <2>6
  <2>8. \A b \in Agents : \/ made'[b] > made[b]
                          \/ made'[b] = made[b] /\ (at[b] \notin {"gate", "ahead"} => at'[b] \notin {"gate", "ahead"})
    BY <1>12, <1>13
  <2> QED BY <1>1, <1>4, <1>15, <1>16, <2>1, <2>3, <2>4, <2>7, <2>8, PublishStep
<1>19. CASE ~(Must /\ a = "parent")
  <2>1. UNCHANGED <<tail, toPage>>
    BY <1>6, <1>9, <1>19
  <2>2. ConsentTypes'
    BY <1>0, <1>1, <1>12, <1>13, <1>14, <1>15, <1>17, <2>1 DEF ConsentTypes, NoBar
  <2>3. \A b \in Agents :
          \/ made'[b] > made[b] /\ at'[b] # "asking"
          \/ /\ made'[b] = made[b] /\ (at'[b] = "asking" => at[b] = "asking")
             /\ at[b] \notin {"gate", "ahead"} => at'[b] \notin {"gate", "ahead"}
    BY <1>12, <1>13, <1>19
  <2> QED BY <1>1, <1>15, <1>16, <2>1, <2>2, <2>3, QuietStep
<1> QED BY <1>18, <1>19

\* An answer reaches an agent: a denial, one that was late, or the one it waits for.
LEMMA PutStep ==
  ASSUME ConfirmsAssumption, ConsentTypes, AgentsTrue, AnswersTrue, NEW a \in Agents, NEW verdict \in AnswerSet, Put(a, verdict),
         verdict.kind = "deny" \/ verdict.late \/ (at[a] = "asking" /\ verdict.of = Id(a)), UNCHANGED <<current, gate>>
  PROVE /\ at' \in [Agents -> {"off", "free", "gate", "asking", "ahead", "busy", "batch"}]
        /\ chan' \in [Agents -> Seq(AnswerSet)] /\ AnswersTrue' /\ AgentsTrue'
        /\ \A b \in Agents : at'[b] = at[b] \/ (at[b] = "asking" /\ at'[b] = "busy")
        /\ at'[a] # "asking"
<1>1. /\ at \in [Agents -> {"off", "free", "gate", "asking", "ahead", "busy", "batch"}] /\ chan \in [Agents -> Seq(AnswerSet)]
  BY DEF ConsentTypes
<1>2. "parent" \notin Kids /\ Agents = {"parent"} \cup Kids /\ "none" \notin Kids
  BY DEF ConfirmsAssumption, Agents
<1>3. CASE at[a] = "asking"
  <2>1. at' = [at EXCEPT ![a] = "busy"] /\ Goes(Id(a), verdict) /\ UNCHANGED chan
    BY <1>3 DEF Put
  <2>2. \A s \in strays' : s[2].late
    BY <1>3, <2>1 DEF AnswersTrue, Goes
  <2>3. AnswersTrue'
    BY <2>1, <2>2 DEF AnswersTrue
  <2>4. AgentsTrue'
    BY <1>1, <1>2, <1>3, <2>1 DEF AgentsTrue
  <2> QED BY <1>1, <1>3, <2>1, <2>3, <2>4
<1>4. CASE at[a] # "asking"
  <2>1. chan' = [chan EXCEPT ![a] = Append(chan[a], verdict)] /\ UNCHANGED <<at, strays>>
    BY <1>4 DEF Put
  <2>2. /\ Append(chan[a], verdict) \in Seq(AnswerSet)
        /\ \A i \in DOMAIN chan[a] : Append(chan[a], verdict)[i] = chan[a][i]
        /\ \A i \in DOMAIN Append(chan[a], verdict) : i \in DOMAIN chan[a] \/ Append(chan[a], verdict)[i] = verdict
    BY <1>1, Posted
  <2>3. chan' \in [Agents -> Seq(AnswerSet)] /\ \A b \in Agents : chan'[b] = IF b = a THEN Append(chan[a], verdict) ELSE chan[b]
    BY <1>1, <2>1, <2>2
  <2>4. \A b \in Agents : \A i \in DOMAIN chan'[b] : chan'[b][i].kind = "deny" \/ chan'[b][i].late
    <3> SUFFICES ASSUME NEW b \in Agents, NEW i \in DOMAIN chan'[b] PROVE chan'[b][i].kind = "deny" \/ chan'[b][i].late
      OBVIOUS
    <3>1. CASE b = a
      BY <1>4, <2>2, <2>3, <3>1 DEF AnswersTrue
    <3>2. CASE b # a
      BY <2>3, <3>2 DEF AnswersTrue
    <3> QED BY <3>1, <3>2
  <2>5. AnswersTrue'
    BY <2>1, <2>4 DEF AnswersTrue
  <2>6. AgentsTrue'
    BY <2>1 DEF AgentsTrue
  <2> QED BY <1>1, <1>4, <2>1, <2>3, <2>5, <2>6
<1> QED BY <1>3, <1>4

LEMMA DenialIsAnswer == Denial \in AnswerSet /\ Denial.kind = "deny"
BY DEF Denial, AnswerSet, Folders

LEMMA WindDownStep == ASSUME ConfirmsAssumption, ConsentInv, NEW k \in Kids, WindDown(k) PROVE ConsentInv'
<1>0. ConsentTypes /\ AgentsTrue /\ AnswersTrue
  BY DEF ConsentInv
<1>1. /\ Put(k, Denial)
      /\ UNCHANGED <<current, cancel, made, dir, gate, auto, tail, following, toPage, toEngine, bar, saving, clicked>>
  BY DEF WindDown, stream
<1>2. k \in Agents
  BY DEF Agents
<1>3. /\ at' \in [Agents -> {"off", "free", "gate", "asking", "ahead", "busy", "batch"}]
      /\ chan' \in [Agents -> Seq(AnswerSet)] /\ AnswersTrue' /\ AgentsTrue'
      /\ \A b \in Agents : at'[b] = at[b] \/ (at[b] = "asking" /\ at'[b] = "busy")
  BY <1>0, <1>1, <1>2, DenialIsAnswer, PutStep
<1>4. ConsentTypes'
  BY <1>0, <1>1, <1>3 DEF ConsentTypes, NoBar
<1>5. \A b \in Agents : /\ made'[b] = made[b] /\ (at'[b] = "asking" => at[b] = "asking")
                        /\ at[b] \notin {"gate", "ahead"} => at'[b] \notin {"gate", "ahead"}
  BY <1>1, <1>3
<1> QED BY <1>1, <1>3, <1>4, <1>5, QuietStep

\* Stop: the sub-agent that is presented is denied.
LEMMA CancelStep == ASSUME ConfirmsAssumption, ConsentInv, OnCancel PROVE ConsentInv'
<1>0. ConsentTypes /\ AgentsTrue /\ AnswersTrue /\ IdsTrue /\ AskTrue
  BY DEF ConsentInv
<1>1. /\ toEngine # <<>> /\ Head(toEngine).op = "cancel" /\ toEngine' = Tail(toEngine) /\ cancel' = current.on
      /\ IF current.on /\ gate # "none" THEN Put(gate, Denial) ELSE UNCHANGED <<at, chan, strays>>
      /\ UNCHANGED <<current, made, dir, gate, auto, tail, following, toPage, bar, saving, clicked>>
  BY DEF OnCancel, Read, stream, page
<1>2. ~Tells(Head(toEngine))
  BY <1>1 DEF Tells
<1>3. /\ at' \in [Agents -> {"off", "free", "gate", "asking", "ahead", "busy", "batch"}]
      /\ chan' \in [Agents -> Seq(AnswerSet)] /\ AnswersTrue' /\ AgentsTrue'
      /\ \A b \in Agents : at'[b] = at[b] \/ (at[b] = "asking" /\ at'[b] = "busy")
  <2>1. CASE current.on /\ gate # "none"
    <3>1. gate \in Agents /\ Put(gate, Denial)
      BY <1>0, <1>1, <2>1 DEF ConsentTypes, Agents
    <3> QED BY <1>0, <1>1, <3>1, DenialIsAnswer, PutStep
  <2>2. CASE ~(current.on /\ gate # "none")
    <3>1. UNCHANGED <<at, chan, strays>>
      BY <1>1, <2>2
    <3> QED BY <1>0, <1>1, <3>1 DEF ConsentTypes, AgentsTrue, AnswersTrue
  <2> QED BY <2>1, <2>2
<1>4. Tail(toEngine) \in Seq(MessageSet) /\ current.on \in BOOLEAN
  BY <1>0, <1>1 DEF ConsentTypes
<1>5. ConsentTypes'
  <2>1. cancel' \in BOOLEAN
    BY <1>1, <1>4, Zenon
  <2> QED BY <1>0, <1>1, <1>3, <1>4, <2>1 DEF ConsentTypes, NoBar
<1>6. \A id \in CallNames : Old(id) => Old(id)'
  BY <1>0, <1>1, <1>3, <1>5, NamesAge
<1>7. IdsTrue'
  BY <1>0, <1>1, <1>6, IdsRead
<1>8. AskTrue'
  BY <1>1, <1>2, <1>3, <1>5, ReadStep
<1> QED BY <1>3, <1>5, <1>7, <1>8 DEF ConsentInv

\* An answer is read: it goes to the agent that waits for it; read too late it
\* is marked so.
LEMMA ConfirmStep == ASSUME ConfirmsAssumption, ConsentInv, OnConfirm PROVE ConsentInv'
<1> DEFINE m == Head(toEngine)
           r == Route(m.answer)
           given == [m.answer EXCEPT !.late = ~Waits(m.answer.of)]
<1>0. ConsentTypes /\ AgentsTrue /\ AnswersTrue /\ IdsTrue /\ AskTrue
  BY DEF ConsentInv
<1>1. /\ toEngine # <<>> /\ m.op = "confirm" /\ toEngine' = Tail(toEngine) /\ auto' = (auto \/ m.answer.kind = "all")
      /\ IF current.on THEN Put(r, given) ELSE UNCHANGED <<at, chan, strays>>
      /\ UNCHANGED <<current, cancel, made, dir, gate, tail, following, toPage, bar, saving, clicked>>
  BY DEF OnConfirm, Read, session, stream, page
<1>2. toEngine \in Seq(MessageSet) /\ gate \in Kids \cup {"none"} /\ auto \in BOOLEAN
  BY <1>0 DEF ConsentTypes
<1>3. /\ Tail(toEngine) \in Seq(MessageSet) /\ 1 \in DOMAIN toEngine /\ m = toEngine[1] /\ Tells(m)
      /\ \A i \in DOMAIN toEngine : toEngine[i] = m \/ \E j \in DOMAIN Tail(toEngine) : Tail(toEngine)[j] = toEngine[i]
  BY <1>1, <1>2, Taken DEF Tells
<1>4. m.answer \in AnswerSet
  BY <1>0, <1>3, NamesThere
<1>5. "parent" \notin Kids /\ Agents = {"parent"} \cup Kids /\ "none" \notin Kids
  BY DEF ConfirmsAssumption, Agents
<1>6. r \in Agents
  BY <1>2, <1>5 DEF Route
<1>7. ASSUME NEW b \in Agents, at[b] = "asking", Id(b) = m.answer.of PROVE r = b
  <2>1. CASE b \in Kids
    BY <1>0, <1>5, <1>7, <2>1 DEF Route, AgentsTrue
  <2>2. CASE b = "parent"
    <3>1. gate # "none" => Id(gate)[2] # "parent" /\ Id(b)[2] = "parent"
      <4>1. ASSUME gate # "none" PROVE gate \in Agents /\ gate # "parent"
        BY <1>2, <1>5, <4>1
      <4> QED BY <1>0, <2>2, <4>1, NameOf
    <3> QED BY <1>7, <2>2, <3>1 DEF Route
  <2> QED BY <1>5, <2>1, <2>2
<1>8. given \in AnswerSet /\ given.of = m.answer.of /\ given.late = ~Waits(m.answer.of)
  <2>1. (~Waits(m.answer.of)) \in BOOLEAN
    BY Zenon
  <2> QED BY <1>4, <2>1 DEF AnswerSet
<1>9. given.late \/ (at[r] = "asking" /\ given.of = Id(r))
  <2>1. CASE Waits(m.answer.of)
    <3>1. PICK b \in Agents : at[b] = "asking" /\ Id(b) = m.answer.of
      BY <2>1 DEF Waits
    <3>2. r = b
      BY <1>7, <3>1
    <3> QED BY <1>8, <3>1, <3>2
  <2>2. CASE ~Waits(m.answer.of)
    BY <1>8, <2>2
  <2> QED BY <2>1, <2>2
<1> HIDE DEF r, given, m
<1>10. /\ at' \in [Agents -> {"off", "free", "gate", "asking", "ahead", "busy", "batch"}]
       /\ chan' \in [Agents -> Seq(AnswerSet)] /\ AnswersTrue' /\ AgentsTrue'
       /\ \A b \in Agents : at'[b] = at[b] \/ (at[b] = "asking" /\ at'[b] = "busy")
       /\ current.on => at'[r] # "asking"
  <2>1. CASE current.on
    BY <1>0, <1>1, <1>6, <1>8, <1>9, <2>1, PutStep
  <2>2. CASE ~current.on
    BY <1>0, <1>1, <2>2 DEF ConsentTypes, AgentsTrue, AnswersTrue
  <2> QED BY <2>1, <2>2
<1>11. ConsentTypes'
  <2>1. auto' = (auto \/ m.answer.kind = "all")
    BY <1>1
  <2>2. auto' \in BOOLEAN
    BY <2>1
  <2> QED BY <1>0, <1>1, <1>3, <1>10, <2>2 DEF ConsentTypes, NoBar
<1>12. \A id \in CallNames : Old(id) => Old(id)'
  BY <1>0, <1>1, <1>10, <1>11, NamesAge
<1>13. IdsTrue'
  BY <1>0, <1>1, <1>12, IdsRead
<1>14. AskTrue'
  <2> SUFFICES ASSUME NEW b \in Agents, at'[b] = "asking"
               PROVE (LastBar(tail, Id(b)) /\ IF Id(b) \in clicked THEN AnswerComes(Id(b)) ELSE following => Showing(Id(b)))'
    BY DEF AskTrue
  <2>1. Id(b)' = Id(b) /\ at[b] = "asking"
    BY <1>1, <1>10 DEF Id
  <2>2. LastBar(tail, Id(b)) /\ IF Id(b) \in clicked THEN AnswerComes(Id(b)) ELSE following => Showing(Id(b))
    BY <1>0, <2>1 DEF AskTrue
  <2>3. current.on
    BY <1>0, <1>5, <2>1 DEF AgentsTrue
  <2>4. Id(b) # m.answer.of
    BY <1>7, <1>10, <2>1, <2>3
  <2>5. AnswerComes(Id(b)) => AnswerComes(Id(b))'
    BY <1>1, <1>3, <2>1, <2>4 DEF AnswerComes, Tells
  <2>6. LastBar(tail, Id(b))' /\ (Showing(Id(b)) => Showing(Id(b))')
    BY <1>1, <2>1, <2>2 DEF Showing, LastBar, Keeps
  <2> QED BY <1>1, <2>1, <2>2, <2>5, <2>6
<1> QED BY <1>10, <1>11, <1>13, <1>14 DEF ConsentInv

\* Every step keeps the bar, the answers and the calls that wait together.
LEMMA ConsentStep ==
  ASSUME ConfirmsAssumption, ConsentInv, [ConfirmsNext]_confirmsVars PROVE ConsentInv'
<1>1. CASE BeginTurn \/ EndTurn
  BY <1>1, TurnSteps
<1>2. CASE Batch \/ BatchDone \/ \E k \in Kids : KidDone(k) \/ Abandon(k)
  BY <1>2, BatchSteps
<1>3. CASE \E a \in Agents : Result(a) \/ \E d \in Dirs : Call(a, d)
  BY <1>3, ResultStep, CallStep
<1>4. CASE \E k \in Kids : Present(k) \/ WindDown(k)
  BY <1>4, PresentStep, WindDownStep
<1>5. CASE OnForgetDirs \/ OnSetAuto \/ OnCancelTask \/ OnAttach
  BY <1>5, PlainReads
<1>6. CASE OnConfirm \/ OnAllowDir \/ OnCancel
  BY <1>6, ConfirmStep, AllowDirStep, CancelStep
<1>7. CASE OnFrame \/ Allowed \/ Switch \/ \E kind \in {"deny", "yes", "all"}, folder \in BOOLEAN : Answer(kind, folder)
  BY <1>7, FrameStep, AllowedStep, SwitchStep, AnswerStep
<1>8. CASE \/ Press([op |-> "setAuto", on |-> ~auto]) \/ Press([op |-> "cancel"]) \/ Press([op |-> "forgetDirs"])
           \/ \E k \in Kids : Press([op |-> "cancelTask", kid |-> k])
  <2>0. (~auto) \in BOOLEAN
    BY Zenon
  <2>1. PICK m : Press(m) /\ m \in {[op |-> "setAuto", on |-> ~auto], [op |-> "cancel"], [op |-> "forgetDirs"]}
                                 \cup {[op |-> "cancelTask", kid |-> k] : k \in Kids}
    BY <1>8
  <2>2. /\ m.op \in {"setAuto", "cancel", "forgetDirs", "cancelTask"}
        /\ \/ m \in [op : {"setAuto"}, on : BOOLEAN]
           \/ m \in [op : {"cancel", "forgetDirs", "attach"}]
           \/ m \in [op : {"cancelTask"}, kid : Kids]
    <3>1. CASE m = [op |-> "setAuto", on |-> ~auto]
      BY <2>0, <3>1
    <3>2. CASE m = [op |-> "cancel"] \/ m = [op |-> "forgetDirs"]
      BY <3>2
    <3>3. CASE \E k \in Kids : m = [op |-> "cancelTask", kid |-> k]
      BY <3>3
    <3> QED BY <2>1, <3>1, <3>2, <3>3
  <2>3. m \in MessageSet /\ ~Tells(m)
    BY <2>2 DEF MessageSet, Tells
  <2> QED BY <2>1, <2>3, PressStep
<1>9. CASE UNCHANGED confirmsVars
  <2>1. UNCHANGED <<current, cancel, at, made, dir, chan, gate, auto, tail, following, toPage, toEngine, bar, saving, clicked, strays>>
    BY <1>9 DEF confirmsVars
  <2>2. ConsentTypes'
    BY <2>1 DEF ConsentInv, ConsentTypes, NoBar
  <2>3. AgentsTrue' /\ AnswersTrue'
    BY <2>1, Aside
  <2> QED BY <2>1, <2>2, <2>3, QuietStep
<1> QED BY <1>1, <1>2, <1>3, <1>4, <1>5, <1>6, <1>7, <1>8, <1>9 DEF ConfirmsNext

\* Through sub-agents that ask together, Stop, sessions left and looked at again,
\* a call runs upon the answer given to it, unless that was read too late for
\* the call it was given for; and a call that waits is the one the bar shows, or
\* its answer is on the way (agent_loop.rs, agent_task.rs, host.rs, client.ts).
THEOREM AnswersReachTheirCalls == ASSUME ConfirmsAssumption PROVE ConfirmsSpec => []ConsentTrue
<1>1. ConfirmsInit => ConsentInv
  <2> SUFFICES ASSUME ConfirmsInit PROVE ConsentInv
    OBVIOUS
  <2>1. "parent" \in Agents /\ Kids \subseteq Agents
    BY DEF Agents
  <2>2. ConsentTypes
    <3>1. current \in [n : Nat, on : BOOLEAN] /\ cancel \in BOOLEAN /\ auto \in BOOLEAN /\ following \in BOOLEAN
      BY DEF ConfirmsInit
    <3>2. /\ at \in [Agents -> {"off", "free", "gate", "asking", "ahead", "busy", "batch"}]
          /\ made \in [Agents -> Nat] /\ dir \in [Agents -> Folders]
          /\ chan \in [Agents -> Seq(AnswerSet)] /\ gate \in Kids \cup {"none"}
      BY DEF ConfirmsInit, Idle, Folders
    <3>3. /\ tail \in Seq(FrameSet) /\ toPage \in Seq(FrameSet) /\ bar \in FrameSet \cup {NoBar}
          /\ toEngine \in Seq(MessageSet) /\ saving \in Seq(AnswerSet) /\ clicked \subseteq CallNames
      BY DEF ConfirmsInit
    <3> QED BY <3>1, <3>2, <3>3 DEF ConsentTypes
  <2>3. AgentsTrue /\ AnswersTrue /\ IdsTrue /\ AskTrue
    BY <2>1 DEF ConfirmsInit, AgentsTrue, AnswersTrue, IdsTrue, AskTrue, Idle
  <2> QED BY <2>2, <2>3 DEF ConsentInv
<1>2. ConsentInv /\ [ConfirmsNext]_confirmsVars => ConsentInv'
  BY ConsentStep
<1>3. ConsentInv => ConsentTrue
  <2> SUFFICES ASSUME ConsentInv PROVE ConsentTrue
    OBVIOUS
  <2>1. \A s \in strays : s[2].late
    BY DEF ConsentInv, AnswersTrue
  <2>2. ASSUME NEW a \in Agents, at[a] = "asking", Id(a) \in clicked
        PROVE \/ \E i \in DOMAIN saving : saving[i].of = Id(a)
              \/ \E i \in DOMAIN toEngine : toEngine[i].op \in {"confirm", "allowDir"} /\ toEngine[i].answer.of = Id(a)
    BY <2>2 DEF ConsentInv, AskTrue, AnswerComes, Tells
  <2>3. ASSUME NEW a \in Agents, at[a] = "asking", Id(a) \notin clicked, toPage = <<>>, following PROVE bar.of = Id(a)
    <3>1. Showing(Id(a))
      BY <2>3 DEF ConsentInv, AskTrue
    <3>2. \A i \in DOMAIN toPage : FALSE
      BY <2>3
    <3> QED BY <3>1, <3>2 DEF Showing, LastBar
  <2> QED BY <2>1, <2>2, <2>3 DEF ConsentTrue
<1> QED BY <1>1, <1>2, <1>3, PTL DEF ConfirmsSpec

----------------------------------------------------------------------------
(* The streams of the worker.                                              *)

Requests == [op : {"send", "park", "turns", "vmResult"}, what : Nat] \cup [op : {"attach", "detach"}, what : Views]
Outcomes == {"busy", "started", "queued", "done", "some", "none"}
Posts ==
  [op : {"ready"}, what : {"ok", "failed"}] \cup [op : {"frame"}, what : Views \X Nat]
    \cup [op : {"reply"}, what : Requests \X Outcomes] \cup [op : {"vmCall"}, what : {0}]

IsFrame(m, v) == m.op = "frame" /\ m.what[1] = v
NoFrame(q, v) == \A i \in 1 .. Len(q) : ~IsFrame(q[i], v)
IsAttach(m, v) == m.op = "attach" /\ m.what = v

\* The frames of v in a sequence take a count from one number to another: c[i]
\* is the count once i of the messages have come.
CountedBy(c, q, v) ==
  /\ \A k \in 1 .. Len(q) : IsFrame(q[k], v) => c[k] = c[k - 1] + q[k].what[2]
  /\ \A i, j \in 0 .. Len(q) : i <= j /\ (\A k \in (i + 1) .. j : ~IsFrame(q[k], v)) => c[i] = c[j]
Counts(q, v, from, to) ==
  \E c \in [0 .. Len(q) -> Nat] : c[0] = from /\ c[Len(q)] = to /\ CountedBy(c, q, v)

\* No frame of v leaves the count as it was.
LEMMA CountsNone ==
  ASSUME NEW q \in Seq(Posts), NEW v, NEW n \in Nat, NoFrame(q, v)
  PROVE  Counts(q, v, n, n)
<1> DEFINE c == [i \in 0 .. Len(q) |-> n]
<1>0. Len(q) \in Nat
  OBVIOUS
<1>1. c \in [0 .. Len(q) -> Nat] /\ c[0] = n /\ c[Len(q)] = n
  BY <1>0
<1>2. CountedBy(c, q, v)
  BY <1>0 DEF NoFrame, CountedBy
<1> HIDE DEF c
<1> QED BY <1>1, <1>2 DEF Counts

LEMMA CountsEnd ==
  ASSUME NEW q \in Seq(Posts), NEW v, NEW from, NEW to, NoFrame(q, v), Counts(q, v, from, to)
  PROVE  from = to
<1>1. PICK c \in [0 .. Len(q) -> Nat] : c[0] = from /\ c[Len(q)] = to /\ CountedBy(c, q, v)
  BY DEF Counts
<1>2. Len(q) \in Nat /\ \A k \in (0 + 1) .. Len(q) : ~IsFrame(q[k], v)
  BY DEF NoFrame
<1>3. c[0] = c[Len(q)]
  BY <1>1, <1>2 DEF CountedBy
<1> QED BY <1>1, <1>3

\* One frame of v adds what it says.
LEMMA CountsOne ==
  ASSUME NEW q \in Seq(Posts), NEW v, NEW n \in 1 .. Len(q), IsFrame(q[n], v),
         \A i \in 1 .. Len(q) : IsFrame(q[i], v) => i = n, NEW from \in Nat, q[n].what[2] \in Nat
  PROVE  Counts(q, v, from, from + q[n].what[2])
<1> DEFINE more == from + q[n].what[2]
           c == [i \in 0 .. Len(q) |-> IF i < n THEN from ELSE more]
<1>0. Len(q) \in Nat /\ n \in Nat /\ n > 0 /\ n <= Len(q) /\ more \in Nat
  OBVIOUS
<1>1. c \in [0 .. Len(q) -> Nat] /\ c[0] = from /\ c[Len(q)] = more
  BY <1>0
<1>2. ASSUME NEW k \in 1 .. Len(q), IsFrame(q[k], v) PROVE c[k] = c[k - 1] + q[k].what[2]
  <2>1. k = n
    BY <1>2
  <2>2. c[n] = more /\ c[n - 1] = from
    BY <1>0
  <2> QED BY <2>1, <2>2
<1>3. ASSUME NEW i \in 0 .. Len(q), NEW j \in 0 .. Len(q), i <= j, \A k \in (i + 1) .. j : ~IsFrame(q[k], v)
      PROVE  c[i] = c[j]
  <2>1. ~(i < n /\ n <= j)
    BY <1>0, <1>3
  <2> HIDE DEF more
  <2> QED BY <1>0, <2>1, <1>3
<1> HIDE DEF c, more
<1>4. CountedBy(c, q, v)
  BY <1>2, <1>3 DEF CountedBy
<1> QED BY <1>1, <1>4 DEF Counts, more

\* One after the other.
LEMMA CountsJoin ==
  ASSUME NEW q \in Seq(Posts), NEW s \in Seq(Posts), NEW v, NEW from, NEW mid, NEW to,
         Counts(q, v, from, mid), Counts(s, v, mid, to)
  PROVE  Counts(q \o s, v, from, to)
<1>1. PICK c \in [0 .. Len(q) -> Nat] : c[0] = from /\ c[Len(q)] = mid /\ CountedBy(c, q, v)
  BY DEF Counts
<1>2. PICK d \in [0 .. Len(s) -> Nat] : d[0] = mid /\ d[Len(s)] = to /\ CountedBy(d, s, v)
  BY DEF Counts
<1> DEFINE qs == q \o s
           e == [i \in 0 .. Len(qs) |-> IF i <= Len(q) THEN c[i] ELSE d[i - Len(q)]]
<1>3. /\ Len(q) \in Nat /\ Len(s) \in Nat /\ Len(qs) = Len(q) + Len(s)
      /\ \A i \in 1 .. Len(q) : qs[i] = q[i]
      /\ \A i \in 1 .. Len(s) : qs[Len(q) + i] = s[i]
      /\ \A i \in 1 .. Len(qs) : i > Len(q) => i - Len(q) \in 1 .. Len(s) /\ qs[i] = s[i - Len(q)]
  OBVIOUS
<1> HIDE DEF qs
<1>4. \A i \in 0 .. Len(q) : e[i] = c[i]
  BY <1>3
<1>5. \A i \in 0 .. Len(s) : e[Len(q) + i] = d[i]
  BY <1>1, <1>2, <1>3
<1>6. e \in [0 .. Len(qs) -> Nat]
  BY <1>1, <1>2, <1>3
<1> HIDE DEF e
<1>7. e[0] = from /\ e[Len(qs)] = to
  <2>1. 0 \in 0 .. Len(q) /\ Len(s) \in 0 .. Len(s)
    BY <1>3
  <2>2. e[0] = c[0] /\ e[Len(q) + Len(s)] = d[Len(s)]
    BY <1>4, <1>5, <2>1
  <2> QED BY <1>1, <1>2, <1>3, <2>2
<1>8. ASSUME NEW k \in 1 .. Len(qs), IsFrame(qs[k], v) PROVE e[k] = e[k - 1] + qs[k].what[2]
  <2>1. CASE k <= Len(q)
    <3>1. k \in 1 .. Len(q) /\ k \in 0 .. Len(q) /\ k - 1 \in 0 .. Len(q)
      BY <1>3, <2>1
    <3> QED BY <1>1, <1>3, <1>4, <1>8, <3>1 DEF CountedBy
  <2>2. CASE k > Len(q)
    <3>1. PICK l \in 1 .. Len(s) : k = Len(q) + l
      BY <1>3, <2>2
    <3>2. l \in 0 .. Len(s) /\ l - 1 \in 0 .. Len(s) /\ k - 1 = Len(q) + (l - 1)
      BY <1>3, <3>1
    <3>3. qs[k] = s[l] /\ e[k] = d[l] /\ e[k - 1] = d[l - 1]
      BY <1>3, <1>5, <3>1, <3>2
    <3>4. d[l] = d[l - 1] + s[l].what[2]
      BY <1>2, <1>8, <3>1, <3>3 DEF CountedBy
    <3> QED BY <3>3, <3>4
  <2> QED BY <1>3, <2>1, <2>2
<1>9. ASSUME NEW i \in 0 .. Len(qs), NEW j \in 0 .. Len(qs), i <= j, \A k \in (i + 1) .. j : ~IsFrame(qs[k], v)
      PROVE  e[i] = e[j]
  <2>1. ASSUME NEW a \in 0 .. Len(q), NEW b \in 0 .. Len(q), i <= a, a <= b, b <= j PROVE e[a] = e[b]
    <3>1. ASSUME NEW k \in (a + 1) .. b PROVE ~IsFrame(q[k], v)
      <4>1. k \in (i + 1) .. j /\ k \in 1 .. Len(q)
        BY <1>3, <2>1
      <4> QED BY <1>3, <1>9, <4>1
    <3>2. \A k \in (a + 1) .. b : ~IsFrame(q[k], v)
      BY <3>1
    <3>3. c[a] = c[b]
      BY <1>1, <2>1, <3>2 DEF CountedBy
    <3> QED BY <1>4, <3>3
  <2>2. ASSUME NEW a \in 0 .. Len(s), NEW b \in 0 .. Len(s), i <= Len(q) + a, a <= b, Len(q) + b <= j
        PROVE  e[Len(q) + a] = e[Len(q) + b]
    <3>1. \A k \in (a + 1) .. b : Len(q) + k \in (i + 1) .. j /\ qs[Len(q) + k] = s[k]
      BY <1>3, <2>2
    <3>2. \A k \in (a + 1) .. b : ~IsFrame(s[k], v)
      BY <1>9, <3>1
    <3>3. d[a] = d[b]
      BY <1>2, <2>2, <3>2 DEF CountedBy
    <3> QED BY <1>5, <3>3
  <2>3. CASE j <= Len(q)
    BY <1>3, <1>9, <2>1, <2>3
  <2>4. CASE i > Len(q)
    <3>1. i - Len(q) \in 0 .. Len(s) /\ j - Len(q) \in 0 .. Len(s) /\ i - Len(q) <= j - Len(q)
          /\ Len(q) + (i - Len(q)) = i /\ Len(q) + (j - Len(q)) = j /\ i <= i /\ j <= j
      BY <1>3, <1>9, <2>4
    <3> QED BY <2>2, <3>1
  <2>5. CASE i <= Len(q) /\ j > Len(q)
    <3>1. /\ i \in 0 .. Len(q) /\ Len(q) \in 0 .. Len(q) /\ 0 \in 0 .. Len(s) /\ j - Len(q) \in 0 .. Len(s)
          /\ Len(q) + 0 = Len(q) /\ Len(q) + (j - Len(q)) = j /\ 0 <= j - Len(q) /\ i <= i /\ j <= j /\ Len(q) <= j
      BY <1>3, <1>9, <2>5
    <3>2. e[i] = e[Len(q)]
      BY <2>1, <2>5, <3>1
    <3>3. e[Len(q)] = e[j]
      BY <2>2, <2>5, <3>1
    <3> QED BY <3>2, <3>3
  <2> QED BY <1>3, <2>3, <2>4, <2>5
<1>10. CountedBy(e, qs, v)
  BY <1>8, <1>9 DEF CountedBy
<1> QED BY <1>6, <1>7, <1>10 DEF Counts, qs

\* A message is taken.
LEMMA CountsTail ==
  ASSUME NEW q \in Seq(Posts), NEW v, NEW from, NEW to, q # <<>>, Counts(q, v, from, to)
  PROVE  /\ IsFrame(Head(q), v) => Counts(Tail(q), v, from + Head(q).what[2], to)
         /\ ~IsFrame(Head(q), v) => Counts(Tail(q), v, from, to)
<1>1. PICK c \in [0 .. Len(q) -> Nat] : c[0] = from /\ c[Len(q)] = to /\ CountedBy(c, q, v)
  BY DEF Counts
<1> DEFINE t == Tail(q)
           d == [i \in 0 .. Len(t) |-> c[i + 1]]
<1>2. /\ Len(q) \in Nat /\ Len(q) > 0 /\ Len(t) = Len(q) - 1 /\ Head(q) = q[1]
      /\ \A k \in 1 .. Len(t) : t[k] = q[k + 1]
  OBVIOUS
<1> HIDE DEF t
<1>3. d \in [0 .. Len(t) -> Nat] /\ d[0] = c[1] /\ d[Len(t)] = to /\ \A i \in 0 .. Len(t) : d[i] = c[i + 1]
  BY <1>1, <1>2
<1> HIDE DEF d
<1>4. ASSUME NEW k \in 1 .. Len(t), IsFrame(t[k], v) PROVE d[k] = d[k - 1] + t[k].what[2]
  <2>1. k + 1 \in 1 .. Len(q) /\ k \in 0 .. Len(t) /\ k - 1 \in 0 .. Len(t) /\ t[k] = q[k + 1]
        /\ (k + 1) - 1 = k /\ (k - 1) + 1 = k
    BY <1>2
  <2>2. c[k + 1] = c[(k + 1) - 1] + q[k + 1].what[2]
    BY <1>1, <1>4, <2>1 DEF CountedBy
  <2>3. d[k] = c[k + 1] /\ d[k - 1] = c[(k - 1) + 1]
    BY <1>3, <2>1
  <2> QED BY <2>1, <2>2, <2>3
<1>5. ASSUME NEW i \in 0 .. Len(t), NEW j \in 0 .. Len(t), i <= j, \A k \in (i + 1) .. j : ~IsFrame(t[k], v)
      PROVE  d[i] = d[j]
  <2>1. i + 1 \in 0 .. Len(q) /\ j + 1 \in 0 .. Len(q) /\ i + 1 <= j + 1
    BY <1>2, <1>5
  <2>2. ASSUME NEW k \in ((i + 1) + 1) .. (j + 1) PROVE ~IsFrame(q[k], v)
    <3>1. k - 1 \in (i + 1) .. j /\ k - 1 \in 1 .. Len(t) /\ (k - 1) + 1 = k
      BY <1>2
    <3> QED BY <1>2, <1>5, <3>1
  <2>3. c[i + 1] = c[j + 1]
    BY <1>1, <2>1, <2>2 DEF CountedBy
  <2> QED BY <1>3, <2>3
<1>6. CountedBy(d, t, v)
  BY <1>4, <1>5 DEF CountedBy
<1>7. IsFrame(q[1], v) => c[1] = from + q[1].what[2]
  <2>1. 1 \in 1 .. Len(q) /\ 1 - 1 = 0
    BY <1>2
  <2>2. IsFrame(q[1], v) => c[1] = c[1 - 1] + q[1].what[2]
    BY <1>1, <2>1 DEF CountedBy
  <2> QED BY <1>1, <2>1, <2>2
<1>8. ~IsFrame(q[1], v) => c[1] = from
  <2>1. 0 \in 0 .. Len(q) /\ 1 \in 0 .. Len(q) /\ 0 <= 1 /\ \A k \in (0 + 1) .. 1 : k = 1
    BY <1>2
  <2> QED BY <1>1, <2>1 DEF CountedBy
<1>9. Counts(t, v, c[1], to)
  BY <1>3, <1>6 DEF Counts
<1> QED BY <1>2, <1>7, <1>8, <1>9 DEF t

\* The frames the engine makes at once: one for each stream attached.
LEMMA EngineFrames ==
  ASSUME NEW A \in SUBSET Views, IsFiniteSet(A), NEW n \in Nat
  PROVE  LET fs == SetToSeq({Msg("frame", <<v, 1>>) : v \in A}) IN
         /\ fs \in Seq(Posts)
         /\ \A v \in A : Counts(fs, v, n, n + 1)
         /\ \A v \in Views \ A : NoFrame(fs, v)
<1> DEFINE S == {Msg("frame", <<v, 1>>) : v \in A}
           fs == SetToSeq(S)
<1>1. IsFiniteSet(S)
  <2> DEFINE f == [v \in A |-> Msg("frame", <<v, 1>>)]
  <2>1. f \in Surjection(A, S)
    BY DEF Surjection
  <2> HIDE DEF f, S
  <2> QED BY <2>1, FS_Surjection
<1>2. \A m \in S : m \in Posts /\ m.op = "frame" /\ m.what[1] \in A /\ m.what[2] = 1 /\ m = Msg("frame", <<m.what[1], 1>>)
  BY DEF Msg, Posts
<1>3. \A v \in A : Msg("frame", <<v, 1>>) \in S /\ IsFrame(Msg("frame", <<v, 1>>), v)
  BY DEF Msg, IsFrame
<1> HIDE DEF S
<1>4. Cardinality(S) \in Nat /\ \E f \in [1 .. Cardinality(S) -> S] : IsInjective(f)
  <2>1. Cardinality(S) \in Nat /\ ExistsBijection(1 .. Cardinality(S), S)
    BY <1>1, FS_CardinalityType
  <2>2. PICK f \in Bijection(1 .. Cardinality(S), S) : TRUE
    BY <2>1 DEF ExistsBijection
  <2>3. f \in [1 .. Cardinality(S) -> S] /\ IsInjective(f)
    BY <2>2 DEF Bijection, Injection
  <2> QED BY <2>1, <2>3
<1>5. fs \in [1 .. Cardinality(S) -> S] /\ IsInjective(fs)
  BY <1>4 DEF SetToSeq
<1> HIDE DEF fs
<1>6. fs \in Surjection(1 .. Cardinality(S), S)
  <2>1. fs \in Injection(1 .. Cardinality(S), S)
    BY <1>5 DEF Injection
  <2>2. Cardinality(1 .. Cardinality(S)) = Cardinality(S)
    BY <1>4, FS_Interval
  <2> QED BY <1>1, <2>1, <2>2, FS_Injection
<1>7. fs \in Seq(Posts) /\ Len(fs) = Cardinality(S) /\ \A i \in 1 .. Len(fs) : fs[i] \in S
  <2>1. S \subseteq Posts
    BY <1>2
  <2>2. fs \in Seq(Posts)
    BY <1>4, <1>5, <2>1
  <2>3. Len(fs) = Cardinality(S)
    BY <1>4, <1>5, <2>2, LenProperties
  <2> QED BY <1>5, <2>2, <2>3
<1>8. ASSUME NEW v \in A PROVE Counts(fs, v, n, n + 1)
  <2>1. PICK k \in 1 .. Len(fs) : fs[k] = Msg("frame", <<v, 1>>)
    BY <1>3, <1>6, <1>7 DEF Surjection
  <2>2. IsFrame(fs[k], v) /\ fs[k].what[2] = 1
    BY <1>2, <1>3, <1>7, <2>1
  <2>3. ASSUME NEW i \in 1 .. Len(fs), IsFrame(fs[i], v) PROVE i = k
    <3>1. fs[i] = Msg("frame", <<v, 1>>)
      BY <1>2, <1>7, <2>3 DEF IsFrame
    <3>2. i \in DOMAIN fs /\ k \in DOMAIN fs
      BY <1>5, <1>7
    <3> QED BY <1>5, <2>1, <3>1, <3>2 DEF IsInjective
  <2>4. fs[k].what[2] \in Nat /\ \A i \in 1 .. Len(fs) : IsFrame(fs[i], v) => i = k
    BY <2>2, <2>3
  <2>5. Counts(fs, v, n, n + fs[k].what[2])
    BY <1>7, <2>2, <2>4, CountsOne
  <2> QED BY <2>2, <2>5
<1>9. ASSUME NEW v \in Views \ A PROVE NoFrame(fs, v)
  BY <1>2, <1>7 DEF NoFrame, IsFrame
<1> QED BY <1>7, <1>8, <1>9 DEF fs, S

\* An attach is on its way, and only one.
Coming(q, v) == \E i \in 1 .. Len(q) : IsAttach(q[i], v)
AtMostOne(q, v) == \A i, j \in 1 .. Len(q) : IsAttach(q[i], v) /\ IsAttach(q[j], v) => i = j

LEMMA RequestJoins ==
  ASSUME NEW q \in Seq(Requests), NEW s \in Seq(Requests), NEW v
  PROVE  /\ q \o s \in Seq(Requests)
         /\ Coming(q \o s, v) <=> Coming(q, v) \/ Coming(s, v)
         /\ AtMostOne(q, v) /\ AtMostOne(s, v) /\ ~(Coming(q, v) /\ Coming(s, v)) => AtMostOne(q \o s, v)
<1> DEFINE qs == q \o s
<1>1. /\ qs \in Seq(Requests) /\ Len(q) \in Nat /\ Len(s) \in Nat /\ Len(qs) = Len(q) + Len(s)
      /\ \A i \in 1 .. Len(q) : i \in 1 .. Len(qs) /\ qs[i] = q[i]
      /\ \A i \in 1 .. Len(s) : Len(q) + i \in 1 .. Len(qs) /\ qs[Len(q) + i] = s[i]
      /\ \A i \in 1 .. Len(qs) : i \notin 1 .. Len(q) => i - Len(q) \in 1 .. Len(s) /\ qs[i] = s[i - Len(q)]
  OBVIOUS
<1> HIDE DEF qs
<1>2. Coming(qs, v) <=> Coming(q, v) \/ Coming(s, v)
  BY <1>1 DEF Coming
<1>3. ASSUME AtMostOne(q, v), AtMostOne(s, v), ~(Coming(q, v) /\ Coming(s, v)) PROVE AtMostOne(qs, v)
  <2> SUFFICES ASSUME NEW i \in 1 .. Len(qs), NEW j \in 1 .. Len(qs), IsAttach(qs[i], v), IsAttach(qs[j], v) PROVE i = j
    BY DEF AtMostOne
  <2>1. CASE i \in 1 .. Len(q) /\ j \in 1 .. Len(q)
    BY <1>1, <1>3, <2>1 DEF AtMostOne
  <2>2. CASE i \notin 1 .. Len(q) /\ j \notin 1 .. Len(q)
    <3>1. i - Len(q) = j - Len(q)
      BY <1>1, <1>3, <2>2 DEF AtMostOne
    <3> QED BY <1>1, <3>1
  <2>3. CASE ~(i \in 1 .. Len(q) <=> j \in 1 .. Len(q))
    BY <1>1, <1>3, <2>3 DEF Coming
  <2> QED BY <2>1, <2>2, <2>3
<1> QED BY <1>1, <1>2, <1>3 DEF qs

LEMMA RequestAdded ==
  ASSUME NEW q \in Seq(Requests), NEW m \in Requests, NEW v
  PROVE  /\ Append(q, m) \in Seq(Requests)
         /\ Coming(Append(q, m), v) <=> Coming(q, v) \/ IsAttach(m, v)
         /\ AtMostOne(q, v) /\ ~(Coming(q, v) /\ IsAttach(m, v)) => AtMostOne(Append(q, m), v)
<1> DEFINE s == <<m>>
<1>1. s \in Seq(Requests) /\ Append(q, m) = q \o s /\ Len(s) = 1 /\ s[1] = m
  OBVIOUS
<1> HIDE DEF s
<1>2. Coming(s, v) <=> IsAttach(m, v)
  BY <1>1 DEF Coming
<1>3. AtMostOne(s, v)
  BY <1>1 DEF AtMostOne
<1>4. /\ q \o s \in Seq(Requests)
      /\ Coming(q \o s, v) <=> Coming(q, v) \/ Coming(s, v)
      /\ AtMostOne(q, v) /\ AtMostOne(s, v) /\ ~(Coming(q, v) /\ Coming(s, v)) => AtMostOne(q \o s, v)
  BY <1>1, RequestJoins
<1> QED BY <1>1, <1>2, <1>3, <1>4, Zenon

LEMMA RequestMayBeAdded ==
  ASSUME NEW q \in Seq(Requests), NEW m \in Requests, NEW r, r = q \/ r = Append(q, m), NEW v
  PROVE  /\ r \in Seq(Requests)
         /\ Coming(q, v) => Coming(r, v)
         /\ Coming(r, v) => Coming(q, v) \/ IsAttach(m, v)
         /\ AtMostOne(q, v) /\ ~(Coming(q, v) /\ IsAttach(m, v)) => AtMostOne(r, v)
<1>1. CASE r = q
  BY <1>1, Zenon
<1>2. CASE r = Append(q, m)
  BY <1>2, RequestAdded, Zenon
<1> QED BY <1>1, <1>2

LEMMA RequestTaken ==
  ASSUME NEW q \in Seq(Requests), NEW v, q # <<>>
  PROVE  /\ Tail(q) \in Seq(Requests) /\ Head(q) \in Requests
         /\ Coming(Tail(q), v) => Coming(q, v)
         /\ IsAttach(Head(q), v) => Coming(q, v)
         /\ AtMostOne(q, v) => AtMostOne(Tail(q), v)
         /\ AtMostOne(q, v) /\ IsAttach(Head(q), v) => ~Coming(Tail(q), v)
<1> DEFINE t == Tail(q)
<1>1. /\ t \in Seq(Requests) /\ Head(q) \in Requests /\ Head(q) = q[1] /\ 1 \in 1 .. Len(q) /\ Len(t) \in Nat
      /\ \A i \in 1 .. Len(t) : i + 1 \in 1 .. Len(q) /\ t[i] = q[i + 1] /\ i + 1 # 1
  OBVIOUS
<1> HIDE DEF t
<1>2. (Coming(t, v) => Coming(q, v)) /\ (IsAttach(q[1], v) => Coming(q, v))
  BY <1>1 DEF Coming
<1>3. AtMostOne(q, v) => AtMostOne(t, v)
  <2> SUFFICES ASSUME AtMostOne(q, v), NEW i \in 1 .. Len(t), NEW j \in 1 .. Len(t), IsAttach(t[i], v), IsAttach(t[j], v)
               PROVE  i = j
    BY DEF AtMostOne
  <2>1. i + 1 = j + 1
    BY <1>1 DEF AtMostOne
  <2> QED BY <2>1
<1>4. AtMostOne(q, v) /\ IsAttach(q[1], v) => ~Coming(t, v)
  BY <1>1 DEF Coming, AtMostOne
<1> QED BY <1>1, <1>2, <1>3, <1>4 DEF t

StreamTypeOK ==
  /\ waiting \in Seq(Requests) /\ toWorker \in Seq(Requests) /\ posted \in Seq(Posts)
  /\ view \in [Views -> {"none", "open", "closed"}] /\ streams = {v \in Views : view[v] = "open"}
  /\ shown \in [Views -> Nat] /\ attached \in SUBSET Views /\ IsFiniteSet(attached) /\ log \in Nat /\ sent \in Nat

Awaited(v) == Coming(waiting, v) \/ Coming(toWorker, v)
AwaitedOnce(v) == AtMostOne(waiting, v) /\ AtMostOne(toWorker, v) /\ ~(Coming(waiting, v) /\ Coming(toWorker, v))

\* A view asks once; until its snapshot nothing comes, and from then on what it
\* has shown and what is on its way to it make what the engine has.
ViewTrue(v) ==
  /\ AwaitedOnce(v)
  /\ view[v] = "none" => ~Awaited(v)
  /\ view[v] = "none" \/ Awaited(v) => v \notin attached /\ NoFrame(posted, v) /\ shown[v] = 0
  /\ v \in attached /\ view[v] = "open" => Counts(posted, v, shown[v], log)

StreamInv == StreamTypeOK /\ \A v \in Views : ViewTrue(v)

\* What leaves the counts alone.
LEMMA ViewKeeps ==
  ASSUME NEW v \in Views, ViewTrue(v), AwaitedOnce(v)', Awaited(v)' => Awaited(v),
         view'[v] = view[v] \/ (view[v] = "open" /\ view'[v] = "closed"), shown'[v] = shown[v], log' = log,
         v \in attached' => v \in attached, NoFrame(posted, v) => NoFrame(posted', v),
         Counts(posted, v, shown[v], log) => Counts(posted', v, shown[v], log)
  PROVE  ViewTrue(v)'
BY DEF ViewTrue

\* The port, with no frame of the view added or taken.
LEMMA PortKeeps ==
  ASSUME StreamTypeOK, NEW v,
         \/ posted' = posted
         \/ posted # <<>> /\ posted' = Tail(posted) /\ ~IsFrame(Head(posted), v)
         \/ \E s \in Seq(Posts) : posted' = posted \o s /\ NoFrame(s, v)
  PROVE  /\ NoFrame(posted, v) => NoFrame(posted', v)
         /\ \A n, m \in Nat : Counts(posted, v, n, m) => Counts(posted', v, n, m)
<1>0. posted \in Seq(Posts)
  BY DEF StreamTypeOK
<1>1. CASE posted # <<>> /\ posted' = Tail(posted) /\ ~IsFrame(Head(posted), v)
  BY <1>0, <1>1, CountsTail DEF NoFrame
<1>2. CASE \E s \in Seq(Posts) : posted' = posted \o s /\ NoFrame(s, v)
  <2>1. PICK s \in Seq(Posts) : posted' = posted \o s /\ NoFrame(s, v)
    BY <1>2
  <2>2. \A m \in Nat : Counts(s, v, m, m)
    BY <2>1, CountsNone
  <2>3. NoFrame(posted, v) => NoFrame(posted \o s, v)
    BY <1>0, <2>1 DEF NoFrame
  <2> QED BY <1>0, <2>1, <2>2, <2>3, CountsJoin
<1> QED BY <1>1, <1>2

\* A message on its own adds no frame, if it is none.
LEMMA PortAdded ==
  ASSUME StreamTypeOK, NEW m \in Posts, m.op # "frame", posted' = Append(posted, m)
  PROVE  posted' \in Seq(Posts) /\ \E s \in Seq(Posts) : posted' = posted \o s /\ \A v : NoFrame(s, v)
<1>1. <<m>> \in Seq(Posts) /\ Append(posted, m) = posted \o <<m>> /\ Append(posted, m) \in Seq(Posts)
      /\ Len(<<m>>) = 1 /\ <<m>>[1] = m
  BY DEF StreamTypeOK
<1>2. \A v : NoFrame(<<m>>, v)
  BY <1>1 DEF NoFrame, IsFrame
<1> QED BY <1>1, <1>2

\* A call that attaches nothing.
LEMMA OtherCall ==
  ASSUME StreamInv, NEW m \in Requests, m.op # "attach",
         CallWorker(m) \/ (toWorker' = Append(toWorker, m) /\ waiting' = waiting)
  PROVE  /\ waiting' \in Seq(Requests) /\ toWorker' \in Seq(Requests)
         /\ \A v \in Views : AwaitedOnce(v)' /\ (Awaited(v)' => Awaited(v))
<1>0. waiting \in Seq(Requests) /\ toWorker \in Seq(Requests) /\ \A v \in Views : ~IsAttach(m, v)
  BY DEF StreamInv, StreamTypeOK, IsAttach
<1>1. (waiting' = waiting \/ waiting' = Append(waiting, m)) /\ (toWorker' = toWorker \/ toWorker' = Append(toWorker, m))
  BY DEF CallWorker
<1>2. waiting' \in Seq(Requests) /\ toWorker' \in Seq(Requests)
  <2>1. Append(waiting, m) \in Seq(Requests) /\ Append(toWorker, m) \in Seq(Requests)
    BY <1>0, RequestAdded
  <2> QED BY <1>0, <1>1, <2>1, Zenon
<1>3. ASSUME NEW v \in Views
      PROVE  /\ Coming(waiting', v) <=> Coming(waiting, v)
             /\ Coming(toWorker', v) <=> Coming(toWorker, v)
             /\ AtMostOne(waiting, v) => AtMostOne(waiting', v)
             /\ AtMostOne(toWorker, v) => AtMostOne(toWorker', v)
  <2>1. ~IsAttach(m, v)
    BY <1>0
  <2>2. (Coming(waiting', v) <=> Coming(waiting, v)) /\ (AtMostOne(waiting, v) => AtMostOne(waiting', v))
    BY <1>0, <1>1, <2>1, RequestMayBeAdded, Zenon
  <2>3. (Coming(toWorker', v) <=> Coming(toWorker, v)) /\ (AtMostOne(toWorker, v) => AtMostOne(toWorker', v))
    BY <1>0, <1>1, <2>1, RequestMayBeAdded, Zenon
  <2> QED BY <2>2, <2>3
<1> QED BY <1>2, <1>3 DEF StreamInv, ViewTrue, Awaited, AwaitedOnce

LEMMA StreamInitInv == WorkerInit => StreamInv
<1> SUFFICES ASSUME WorkerInit PROVE StreamInv
  OBVIOUS
<1>1. Len(<<>>) = 0 /\ waiting = <<>> /\ toWorker = <<>> /\ posted = <<>>
  BY DEF WorkerInit
<1>2. StreamTypeOK
  BY <1>1, FS_EmptySet DEF WorkerInit, StreamTypeOK
<1>3. \A v \in Views : ~Coming(waiting, v) /\ ~Coming(toWorker, v) /\ AtMostOne(waiting, v) /\ AtMostOne(toWorker, v)
                       /\ NoFrame(posted, v)
  BY <1>1 DEF Coming, AtMostOne, NoFrame
<1> QED BY <1>2, <1>3 DEF StreamInv, ViewTrue, Awaited, AwaitedOnce, WorkerInit

\* What a view asks of the worker, and what else the page asks.
LEMMA AttachStep == ASSUME StreamInv, NEW v \in Views, Attach(v) PROVE StreamInv'
<1> DEFINE m == Msg("attach", v)
<1>0. /\ waiting \in Seq(Requests) /\ toWorker \in Seq(Requests) /\ m \in Requests
      /\ \A w \in Views : IsAttach(m, w) <=> w = v
      /\ view[v] = "none" /\ view' = [view EXCEPT ![v] = "open"]
  BY DEF Attach, StreamInv, StreamTypeOK, IsAttach, Msg, Requests
<1>1. /\ waiting' = waiting \/ waiting' = Append(waiting, m)
      /\ toWorker' = toWorker \/ toWorker' = Append(toWorker, m)
      /\ waiting' = waiting \/ toWorker' = toWorker
  BY DEF CallWorker, Attach
<1> HIDE DEF m
<1>2. StreamTypeOK'
  <2>1. waiting' \in Seq(Requests) /\ toWorker' \in Seq(Requests)
    <3>1. Append(waiting, m) \in Seq(Requests) /\ Append(toWorker, m) \in Seq(Requests)
      BY <1>0, RequestAdded
    <3> QED BY <1>0, <1>1, <3>1, Zenon
  <2>2. view' \in [Views -> {"none", "open", "closed"}] /\ streams' = {w \in Views : view'[w] = "open"}
    BY <1>0 DEF Attach, StreamInv, StreamTypeOK
  <2> QED BY <2>1, <2>2 DEF Attach, StreamInv, StreamTypeOK, engineState
<1>3. ASSUME NEW w \in Views
      PROVE  /\ w # v => (Coming(waiting', w) <=> Coming(waiting, w)) /\ (Coming(toWorker', w) <=> Coming(toWorker, w))
             /\ AtMostOne(waiting, w) /\ (w = v => ~Coming(waiting, w)) => AtMostOne(waiting', w)
             /\ AtMostOne(toWorker, w) /\ (w = v => ~Coming(toWorker, w)) => AtMostOne(toWorker', w)
  <2>1. IsAttach(m, w) <=> w = v
    BY <1>0
  <2>2. /\ w # v => (Coming(waiting', w) <=> Coming(waiting, w))
        /\ AtMostOne(waiting, w) /\ (w = v => ~Coming(waiting, w)) => AtMostOne(waiting', w)
    BY <1>0, <1>1, <2>1, RequestMayBeAdded, Zenon
  <2>3. /\ w # v => (Coming(toWorker', w) <=> Coming(toWorker, w))
        /\ AtMostOne(toWorker, w) /\ (w = v => ~Coming(toWorker, w)) => AtMostOne(toWorker', w)
    BY <1>0, <1>1, <2>1, RequestMayBeAdded, Zenon
  <2> QED BY <2>2, <2>3
<1>4. ASSUME NEW w \in Views, w # v PROVE ViewTrue(w)'
  <2>1. ViewTrue(w) /\ AwaitedOnce(w)' /\ (Awaited(w)' => Awaited(w))
    BY <1>3, <1>4 DEF StreamInv, ViewTrue, Awaited, AwaitedOnce
  <2>2. view'[w] = view[w] /\ shown' = shown /\ log' = log /\ attached' = attached /\ posted' = posted
    BY <1>0, <1>4 DEF Attach, StreamInv, StreamTypeOK, engineState
  <2> QED BY <2>1, <2>2, ViewKeeps
<1>5. ViewTrue(v)'
  <2>1. ViewTrue(v) /\ ~Coming(waiting, v) /\ ~Coming(toWorker, v) /\ v \notin attached /\ NoFrame(posted, v) /\ shown[v] = 0
    BY <1>0 DEF StreamInv, ViewTrue, Awaited
  <2>2. AwaitedOnce(v)'
    BY <1>1, <1>3, <2>1 DEF ViewTrue, AwaitedOnce
  <2>3. shown' = shown /\ log' = log /\ attached' = attached /\ posted' = posted /\ view'[v] = "open"
    BY <1>0 DEF Attach, StreamInv, StreamTypeOK, engineState
  <2> QED BY <2>1, <2>2, <2>3 DEF ViewTrue
<1> QED BY <1>2, <1>4, <1>5 DEF StreamInv

LEMMA AskingSteps ==
  ASSUME StreamInv
  PROVE  /\ \A v \in Views : Detach(v) => StreamInv'
         /\ \A late \in BOOLEAN : Send(late) => StreamInv'
         /\ Poll \/ VmAnswer => StreamInv'
<1>1. ASSUME NEW m \in Requests, m.op # "attach", sent' \in Nat,
             CallWorker(m) \/ (toWorker' = Append(toWorker, m) /\ waiting' = waiting),
             UNCHANGED <<posted, shown, attached, log>>,
             UNCHANGED <<view, streams>> \/ \E v \in Views : Detach(v)
      PROVE  StreamInv'
  <2>1. /\ waiting' \in Seq(Requests) /\ toWorker' \in Seq(Requests)
        /\ \A v \in Views : AwaitedOnce(v)' /\ (Awaited(v)' => Awaited(v))
    BY <1>1, OtherCall
  <2>2. /\ view' \in [Views -> {"none", "open", "closed"}] /\ streams' = {v \in Views : view'[v] = "open"}
        /\ \A v \in Views : view'[v] = view[v] \/ (view[v] = "open" /\ view'[v] = "closed")
    BY <1>1 DEF StreamInv, StreamTypeOK, Detach
  <2>3. StreamTypeOK'
    BY <1>1, <2>1, <2>2 DEF StreamInv, StreamTypeOK
  <2>4. \A v \in Views : ViewTrue(v)'
    BY <1>1, <2>1, <2>2, ViewKeeps DEF StreamInv
  <2> QED BY <2>3, <2>4 DEF StreamInv
<1>2. sent \in Nat
  BY DEF StreamInv, StreamTypeOK
<1>3. ASSUME NEW v \in Views, Detach(v) PROVE StreamInv'
  <2>1. Msg("detach", v) \in Requests /\ Msg("detach", v).op # "attach"
    BY DEF Msg, Requests
  <2> QED BY <1>1, <1>2, <1>3, <2>1 DEF Detach, engineState
<1>4. ASSUME NEW late \in BOOLEAN, Send(late) PROVE StreamInv'
  <2>1. sent' \in Nat
    BY <1>2, <1>4 DEF Send
  <2>2. \A o \in {"park", "send"} : Msg(o, sent') \in Requests /\ Msg(o, sent').op # "attach"
    BY <2>1 DEF Msg, Requests
  <2> QED BY <1>1, <1>4, <2>1, <2>2 DEF Send, engineState
<1>5. ASSUME Poll \/ VmAnswer PROVE StreamInv'
  <2>1. \A o \in {"turns", "vmResult"} : Msg(o, 0) \in Requests /\ Msg(o, 0).op # "attach"
    BY DEF Msg, Requests
  <2> QED BY <1>1, <1>2, <1>5, <2>1 DEF Poll, VmAnswer, engineState
<1> QED BY <1>3, <1>4, <1>5

\* Messages and calls that move with no frame among them, and no new attach.
LEMMA QuietMoves ==
  ASSUME StreamInv, UNCHANGED <<view, streams, shown, log, sent>>, waiting' \in Seq(Requests), toWorker' \in Seq(Requests),
         posted' \in Seq(Posts), attached' \subseteq attached,
         \A v \in Views : AwaitedOnce(v)' /\ (Awaited(v)' => Awaited(v)),
         \/ posted' = posted
         \/ posted # <<>> /\ posted' = Tail(posted) /\ Head(posted).op # "frame"
         \/ \E s \in Seq(Posts) : posted' = posted \o s /\ \A v : NoFrame(s, v)
  PROVE  StreamInv'
<1>1. StreamTypeOK'
  <2>1. IsFiniteSet(attached') /\ attached' \in SUBSET Views
    BY FS_Subset DEF StreamInv, StreamTypeOK
  <2> QED BY <2>1 DEF StreamInv, StreamTypeOK
<1>2. ASSUME NEW v \in Views PROVE ViewTrue(v)'
  <2>1. \/ posted' = posted
        \/ posted # <<>> /\ posted' = Tail(posted) /\ ~IsFrame(Head(posted), v)
        \/ \E s \in Seq(Posts) : posted' = posted \o s /\ NoFrame(s, v)
    BY DEF IsFrame
  <2>2. shown[v] \in Nat /\ log \in Nat /\ StreamTypeOK
    BY DEF StreamInv, StreamTypeOK
  <2>3. (NoFrame(posted, v) => NoFrame(posted', v)) /\ (Counts(posted, v, shown[v], log) => Counts(posted', v, shown[v], log))
    BY <2>1, <2>2, PortKeeps
  <2> QED BY <2>3, ViewKeeps DEF StreamInv
<1> QED BY <1>1, <1>2 DEF StreamInv

\* What is delivered to the page, a frame apart; and an error of the worker.
LEMMA PageSteps ==
  ASSUME StreamInv
  PROVE  /\ OnReady => StreamInv'
         /\ SettleCall \/ OnVmCall => StreamInv'
         /\ OnError \/ TurnEnds => StreamInv'
         /\ Boot \/ ToolCall => StreamInv'
<1>0. /\ waiting \in Seq(Requests) /\ toWorker \in Seq(Requests) /\ posted \in Seq(Posts)
      /\ <<>> \in Seq(Requests) /\ Len(<<>>) = 0
  BY DEF StreamInv, StreamTypeOK
<1>1. \A v \in Views : AwaitedOnce(v) /\ AtMostOne(<<>>, v) /\ ~Coming(<<>>, v)
  BY <1>0 DEF StreamInv, ViewTrue, AtMostOne, Coming
<1>2. ASSUME waiting' = <<>>, toWorker' = toWorker
      PROVE  \A v \in Views : AwaitedOnce(v)' /\ (Awaited(v)' => Awaited(v))
  <2> SUFFICES ASSUME NEW v \in Views PROVE AwaitedOnce(v)' /\ (Awaited(v)' => Awaited(v))
    OBVIOUS
  <2>1. AtMostOne(waiting', v) /\ ~Coming(waiting', v) /\ (Coming(toWorker', v) <=> Coming(toWorker, v))
        /\ AtMostOne(toWorker', v)
    BY <1>1, <1>2 DEF AwaitedOnce
  <2> QED BY <2>1 DEF AwaitedOnce, Awaited
<1>3. ASSUME waiting' = waiting, toWorker' = toWorker
      PROVE  \A v \in Views : AwaitedOnce(v)' /\ (Awaited(v)' => Awaited(v))
  BY <1>1, <1>3 DEF AwaitedOnce, Awaited
<1>4. posted # <<>> => Tail(posted) \in Seq(Posts)
  BY <1>0
<1>5. ASSUME OnReady PROVE StreamInv'
  <2>1. \A v \in Views : AwaitedOnce(v)' /\ (Awaited(v)' => Awaited(v))
    <3>1. CASE toWorker' = toWorker
      BY <1>2, <1>5, <3>1 DEF OnReady
    <3>2. CASE toWorker' = toWorker \o waiting
      <4> SUFFICES ASSUME NEW v \in Views PROVE AwaitedOnce(v)' /\ (Awaited(v)' => Awaited(v))
        OBVIOUS
      <4>1. AtMostOne(waiting', v) /\ ~Coming(waiting', v)
        BY <1>1, <1>5 DEF OnReady
      <4>2. AtMostOne(toWorker', v) /\ (Coming(toWorker', v) <=> Coming(toWorker, v) \/ Coming(waiting, v))
        BY <1>0, <1>1, <3>2, RequestJoins DEF AwaitedOnce
      <4> QED BY <4>1, <4>2 DEF AwaitedOnce, Awaited
    <3> QED BY <1>5, <3>1, <3>2 DEF OnReady
  <2>2. waiting' \in Seq(Requests) /\ toWorker' \in Seq(Requests)
    <3>1. toWorker \o waiting \in Seq(Requests)
      BY <1>0, RequestJoins
    <3>2. waiting' = <<>> /\ (toWorker' = toWorker \/ toWorker' = toWorker \o waiting)
      BY <1>5 DEF OnReady
    <3> QED BY <1>0, <3>1, <3>2, Zenon
  <2>3. posted # <<>> /\ posted' = Tail(posted) /\ Head(posted).op # "frame" /\ posted' \in Seq(Posts)
        /\ UNCHANGED <<view, streams, shown, log, sent>> /\ attached' \subseteq attached
    BY <1>4, <1>5 DEF OnReady, engineState
  <2> QED BY <2>1, <2>2, <2>3, QuietMoves
<1>6. ASSUME SettleCall \/ OnVmCall PROVE StreamInv'
  <2>1. posted # <<>> /\ posted' = Tail(posted) /\ Head(posted).op # "frame" /\ posted' \in Seq(Posts)
        /\ UNCHANGED <<view, streams, shown, log, sent>> /\ attached' \subseteq attached
        /\ waiting' = waiting /\ toWorker' = toWorker
    BY <1>4, <1>6 DEF SettleCall, OnVmCall, engineState
  <2> QED BY <1>0, <1>3, <2>1, QuietMoves
<1>7. ASSUME OnError \/ TurnEnds PROVE StreamInv'
  <2>1. posted' = posted /\ posted' \in Seq(Posts) /\ UNCHANGED <<view, streams, shown, log, sent>> /\ attached' \subseteq attached
        /\ (waiting' = waiting \/ waiting' = <<>>) /\ toWorker' = toWorker
    BY <1>0, <1>7 DEF OnError, TurnEnds, engineState, port
  <2>2. waiting' \in Seq(Requests) /\ toWorker' \in Seq(Requests)
    BY <1>0, <2>1, Zenon
  <2> QED BY <1>2, <1>3, <2>1, <2>2, QuietMoves
<1>8. ASSUME Boot \/ ToolCall PROVE StreamInv'
  <2>1. \E m \in {Msg("ready", "ok"), Msg("ready", "failed"), Msg("vmCall", 0)} : posted' = Append(posted, m)
    BY <1>8 DEF Boot, ToolCall
  <2>2. PICK m \in {Msg("ready", "ok"), Msg("ready", "failed"), Msg("vmCall", 0)} : posted' = Append(posted, m)
    BY <2>1
  <2>3. m \in Posts /\ m.op # "frame"
    BY DEF Msg, Posts
  <2>4. posted' \in Seq(Posts) /\ \E s \in Seq(Posts) : posted' = posted \o s /\ \A v : NoFrame(s, v)
    BY <2>2, <2>3, PortAdded DEF StreamInv
  <2>5. UNCHANGED <<view, streams, shown, log, sent>> /\ attached' \subseteq attached /\ waiting' = waiting /\ toWorker' = toWorker
    BY <1>8 DEF Boot, ToolCall, engineState
  <2> QED BY <1>0, <1>3, <2>4, <2>5, QuietMoves
<1> QED BY <1>5, <1>6, <1>7, <1>8

\* A frame reaches its listener, or a view that is gone.
LEMMA FrameDelivered == ASSUME StreamInv, ToListener PROVE StreamInv'
<1> DEFINE f == Head(posted).what
<1>0. /\ posted \in Seq(Posts) /\ posted # <<>> /\ Head(posted) \in Posts /\ Head(posted).op = "frame"
      /\ posted' = Tail(posted) /\ Tail(posted) \in Seq(Posts) /\ Head(posted) = posted[1] /\ 1 \in 1 .. Len(posted)
  BY DEF ToListener, StreamInv, StreamTypeOK
<1>1. f \in Views \X Nat /\ f[1] \in Views /\ f[2] \in Nat /\ \A v : IsFrame(Head(posted), v) <=> v = f[1]
  BY <1>0 DEF Posts, IsFrame
<1>2. /\ UNCHANGED <<waiting, toWorker, view, streams, log, sent>> /\ attached' = attached
      /\ shown' = IF f[1] \in streams THEN [shown EXCEPT ![f[1]] = @ + f[2]] ELSE shown
  BY DEF ToListener, engineState
<1> HIDE DEF f
<1>3. /\ shown' \in [Views -> Nat]
      /\ \A v \in Views : shown'[v] = IF v = f[1] /\ f[1] \in streams THEN shown[v] + f[2] ELSE shown[v]
  BY <1>1, <1>2 DEF StreamInv, StreamTypeOK
<1>4. StreamTypeOK'
  BY <1>0, <1>2, <1>3 DEF StreamInv, StreamTypeOK
<1>5. ASSUME NEW v \in Views PROVE ViewTrue(v)'
  <2>1. ViewTrue(v) /\ AwaitedOnce(v)' /\ (Awaited(v)' <=> Awaited(v)) /\ view'[v] = view[v]
    BY <1>2 DEF StreamInv, ViewTrue, AwaitedOnce, Awaited
  <2>2. CASE v # f[1]
    <3>1. shown'[v] = shown[v] /\ ~IsFrame(Head(posted), v)
      BY <1>1, <1>3, <2>2
    <3>2. shown[v] \in Nat /\ log \in Nat /\ StreamTypeOK
      BY DEF StreamInv, StreamTypeOK
    <3>3. (NoFrame(posted, v) => NoFrame(posted', v)) /\ (Counts(posted, v, shown[v], log) => Counts(posted', v, shown[v], log))
      BY <1>0, <3>1, <3>2, PortKeeps
    <3> QED BY <1>2, <2>1, <3>1, <3>3, ViewKeeps
  <2>3. CASE v = f[1]
    <3>1. ~NoFrame(posted, v)
      BY <1>0, <1>1, <2>3 DEF NoFrame
    <3>2. view[v] # "none" /\ ~Awaited(v)
      BY <2>1, <3>1 DEF ViewTrue
    <3>3. ASSUME v \in attached, view[v] = "open" PROVE Counts(posted', v, shown'[v], log')
      <4>1. Counts(posted, v, shown[v], log)
        BY <2>1, <3>3 DEF ViewTrue
      <4>2. Counts(Tail(posted), v, shown[v] + f[2], log)
        BY <1>0, <1>1, <2>3, <4>1, CountsTail DEF f
      <4>3. v \in streams
        BY <3>3 DEF StreamInv, StreamTypeOK
      <4>4. shown'[v] = shown[v] + f[2]
        BY <1>3, <2>3, <4>3
      <4> QED BY <1>0, <1>2, <4>2, <4>4
    <3> QED BY <1>2, <2>1, <3>2, <3>3 DEF ViewTrue
  <2> QED BY <2>2, <2>3
<1> QED BY <1>4, <1>5 DEF StreamInv

\* The worker takes a call.
LEMMA ServeStep == ASSUME StreamInv, Serve PROVE StreamInv'
<1> DEFINE m == Head(toWorker)
<1>0. /\ waiting \in Seq(Requests) /\ toWorker \in Seq(Requests) /\ posted \in Seq(Posts) /\ log \in Nat
      /\ toWorker # <<>> /\ toWorker' = Tail(toWorker)
      /\ attached \in SUBSET Views /\ IsFiniteSet(attached) /\ shown \in [Views -> Nat]
      /\ UNCHANGED <<waiting, view, streams, shown, log, sent>>
  BY DEF Serve, StreamInv, StreamTypeOK
<1>1. /\ toWorker' \in Seq(Requests) /\ m \in Requests
      /\ \A v \in Views : AwaitedOnce(v)' /\ (Awaited(v)' => Awaited(v)) /\ (IsAttach(m, v) => Awaited(v) /\ ~Awaited(v)')
  <2> SUFFICES ASSUME NEW v
               PROVE  /\ toWorker' \in Seq(Requests) /\ m \in Requests
                      /\ v \in Views => AwaitedOnce(v)' /\ (Awaited(v)' => Awaited(v)) /\ (IsAttach(m, v) => Awaited(v) /\ ~Awaited(v)')
    OBVIOUS
  <2>1. /\ Tail(toWorker) \in Seq(Requests) /\ m \in Requests
        /\ Coming(Tail(toWorker), v) => Coming(toWorker, v)
        /\ IsAttach(m, v) => Coming(toWorker, v)
        /\ AtMostOne(toWorker, v) => AtMostOne(Tail(toWorker), v)
        /\ AtMostOne(toWorker, v) /\ IsAttach(m, v) => ~Coming(Tail(toWorker), v)
    BY <1>0, RequestTaken
  <2>2. v \in Views => AwaitedOnce(v)
    BY DEF StreamInv, ViewTrue
  <2> HIDE DEF m
  <2>3. (Coming(waiting', v) <=> Coming(waiting, v)) /\ (AtMostOne(waiting', v) <=> AtMostOne(waiting, v)) /\ toWorker' = Tail(toWorker)
    BY <1>0
  <2> QED BY <2>1, <2>2, <2>3 DEF AwaitedOnce, Awaited
<1>2. \/ attached' \subseteq attached /\ posted' = posted
      \/ \E r \in Outcomes : attached' \subseteq attached /\ posted' = posted \o Reply(m, r)
      \/ /\ m.op = "attach" /\ attached' = attached \cup {m.what}
         /\ posted' = posted \o <<Msg("frame", <<m.what, log>>)>> \o Reply(m, "done")
  BY DEF Serve, Outcomes
<1> HIDE DEF m
<1>3. \A r \in Outcomes : Reply(m, r) \in Seq(Posts) /\ \A v : NoFrame(Reply(m, r), v)
  <2> SUFFICES ASSUME NEW r \in Outcomes PROVE Reply(m, r) \in Seq(Posts) /\ \A v : NoFrame(Reply(m, r), v)
    OBVIOUS
  <2>1. Msg("reply", <<m, r>>) \in Posts /\ Msg("reply", <<m, r>>).op = "reply"
    BY <1>1 DEF Msg, Posts
  <2>2. Reply(m, r) \in Seq(Posts) /\ Len(Reply(m, r)) = 1 /\ Reply(m, r)[1] = Msg("reply", <<m, r>>)
    BY <2>1 DEF Reply
  <2>3. \A v : NoFrame(Reply(m, r), v)
    BY <2>1, <2>2 DEF NoFrame, IsFrame
  <2> QED BY <2>2, <2>3
<1>4. CASE attached' \subseteq attached /\ posted' = posted
  BY <1>0, <1>1, <1>4, QuietMoves
<1>5. CASE \E r \in Outcomes : attached' \subseteq attached /\ posted' = posted \o Reply(m, r)
  <2>1. PICK r \in Outcomes : attached' \subseteq attached /\ posted' = posted \o Reply(m, r)
    BY <1>5
  <2>2. \E s \in Seq(Posts) : posted' = posted \o s /\ \A v : NoFrame(s, v)
    BY <1>3, <2>1
  <2>3. posted' \in Seq(Posts)
    BY <1>0, <1>3, <2>1, ConcatProperties
  <2> QED BY <1>0, <1>1, <2>1, <2>2, <2>3, QuietMoves
<1>6. CASE /\ m.op = "attach" /\ attached' = attached \cup {m.what}
           /\ posted' = posted \o <<Msg("frame", <<m.what, log>>)>> \o Reply(m, "done")
  <2> DEFINE frame == Msg("frame", <<m.what, log>>)
             s == <<frame>> \o Reply(m, "done")
  <2>1. m.what \in Views /\ \A v : IsAttach(m, v) <=> v = m.what
    BY <1>1, <1>6 DEF Requests, IsAttach
  <2>2. frame \in Posts /\ frame.what[2] = log /\ \A v : IsFrame(frame, v) <=> v = m.what
    BY <1>0, <2>1 DEF Msg, Posts, IsFrame
  <2> HIDE DEF frame
  <2>3. Reply(m, "done") \in Seq(Posts) /\ \A v : NoFrame(Reply(m, "done"), v)
    BY <1>3 DEF Outcomes
  <2>4. /\ <<frame>> \in Seq(Posts) /\ Len(<<frame>>) = 1 /\ <<frame>>[1] = frame
        /\ posted' = posted \o s
    <3>1. <<frame>> \in Seq(Posts) /\ Len(<<frame>>) = 1 /\ <<frame>>[1] = frame
      BY <2>2
    <3>2. posted' = posted \o s
      BY <1>0, <1>6, <2>3, <3>1, ConcatAssociative DEF frame
    <3> QED BY <3>1, <3>2
  <2>5. s \in Seq(Posts) /\ posted' \in Seq(Posts)
    BY <1>0, <2>3, <2>4, ConcatProperties
  <2>6. \A v : v # m.what => NoFrame(s, v)
    <3>1. \A i \in 1 .. Len(s) : s[i] = frame \/ \E j \in 1 .. Len(Reply(m, "done")) : s[i] = Reply(m, "done")[j]
      BY <2>3, <2>4
    <3> QED BY <2>2, <2>3, <3>1 DEF NoFrame
  <2>7. Counts(s, m.what, 0, log)
    <3>1. Counts(<<frame>>, m.what, 0, log)
      <4>1. Counts(<<frame>>, m.what, 0, 0 + <<frame>>[1].what[2])
        <5>1. 1 \in 1 .. Len(<<frame>>) /\ \A i \in 1 .. Len(<<frame>>) : i = 1
          BY <2>4
        <5>2. IsFrame(<<frame>>[1], m.what) /\ <<frame>>[1].what[2] \in Nat
          BY <1>0, <2>2, <2>4
        <5>3. 0 \in Nat
          OBVIOUS
        <5> QED BY <2>4, <5>1, <5>2, <5>3, CountsOne
      <4>2. 0 + <<frame>>[1].what[2] = log
        BY <1>0, <2>2, <2>4
      <4> QED BY <4>1, <4>2
    <3>2. Counts(Reply(m, "done"), m.what, log, log)
      BY <1>0, <2>3, CountsNone
    <3> QED BY <2>3, <2>4, <3>1, <3>2, CountsJoin
  <2> HIDE DEF s
  <2>8. StreamTypeOK'
    <3>1. attached' \in SUBSET Views /\ IsFiniteSet(attached')
      BY <1>0, <1>6, <2>1, FS_AddElement
    <3> QED BY <1>0, <1>1, <2>5, <3>1 DEF StreamInv, StreamTypeOK
  <2>9. ASSUME NEW v \in Views, v # m.what PROVE ViewTrue(v)'
    <3>1. v \in attached' => v \in attached
      BY <1>6, <2>9
    <3>2. shown[v] \in Nat /\ StreamTypeOK /\ NoFrame(s, v)
      BY <2>6, <2>9 DEF StreamInv, StreamTypeOK
    <3>3. (NoFrame(posted, v) => NoFrame(posted', v)) /\ (Counts(posted, v, shown[v], log) => Counts(posted', v, shown[v], log))
      BY <1>0, <2>4, <2>5, <3>2, PortKeeps
    <3> QED BY <1>0, <1>1, <3>1, <3>3, ViewKeeps DEF StreamInv
  <2>10. ASSUME NEW v \in Views, v = m.what PROVE ViewTrue(v)'
    <3>1. AwaitedOnce(v)' /\ Awaited(v) /\ ~Awaited(v)'
      BY <1>1, <2>1, <2>10
    <3>2. NoFrame(posted, v) /\ shown[v] = 0 /\ view[v] # "none"
      BY <3>1 DEF StreamInv, ViewTrue
    <3>3. Counts(posted, v, 0, 0)
      BY <1>0, <3>2, CountsNone
    <3>4. Counts(posted', v, shown'[v], log')
      <4>1. Counts(posted \o s, v, 0, log)
        BY <1>0, <2>5, <2>7, <2>10, <3>3, CountsJoin
      <4>2. shown'[v] = 0 /\ log' = log
        BY <1>0, <3>2
      <4> QED BY <2>4, <4>1, <4>2
    <3> QED BY <1>0, <3>1, <3>2, <3>4 DEF ViewTrue
  <2> QED BY <2>8, <2>9, <2>10 DEF StreamInv
<1> QED BY <1>2, <1>4, <1>5, <1>6

\* The engine makes a frame.
LEMMA FrameMade == ASSUME StreamInv, EngineFrame PROVE StreamInv'
<1> DEFINE fs == SetToSeq({Msg("frame", <<v, 1>>) : v \in attached})
<1>0. /\ posted \in Seq(Posts) /\ log \in Nat /\ log' = log + 1 /\ posted' = posted \o fs
      /\ attached \in SUBSET Views /\ IsFiniteSet(attached) /\ shown \in [Views -> Nat]
      /\ UNCHANGED <<waiting, toWorker, view, streams, shown, attached, sent>>
  BY DEF EngineFrame, StreamInv, StreamTypeOK
<1>1. /\ fs \in Seq(Posts)
      /\ \A v \in attached : Counts(fs, v, log, log + 1)
      /\ \A v \in Views \ attached : NoFrame(fs, v)
  BY <1>0, EngineFrames
<1> HIDE DEF fs
<1>2. StreamTypeOK'
  BY <1>0, <1>1 DEF StreamInv, StreamTypeOK
<1>3. ASSUME NEW v \in Views PROVE ViewTrue(v)'
  <2>1. ViewTrue(v) /\ AwaitedOnce(v)' /\ (Awaited(v)' <=> Awaited(v)) /\ view'[v] = view[v]
    BY <1>0 DEF StreamInv, ViewTrue, AwaitedOnce, Awaited
  <2>2. CASE v \in attached
    <3>1. view[v] # "none" /\ ~Awaited(v)
      BY <2>1, <2>2 DEF ViewTrue
    <3>2. view[v] = "open" => Counts(posted', v, shown'[v], log')
      BY <1>0, <1>1, <2>1, <2>2, CountsJoin DEF ViewTrue
    <3> QED BY <2>1, <3>1, <3>2 DEF ViewTrue
  <2>3. CASE v \notin attached
    <3>1. NoFrame(posted, v) => NoFrame(posted', v)
      BY <1>0, <1>1, <2>3 DEF NoFrame
    <3>2. shown'[v] = shown[v] /\ v \notin attached'
      BY <1>0, <2>3
    <3> QED BY <2>1, <3>1, <3>2 DEF ViewTrue
  <2> QED BY <2>2, <2>3
<1> QED BY <1>2, <1>3 DEF StreamInv

\* An exact stream (client.ts, agent-worker.ts): for any number of views, of turns and
\* of frames, and of errors of the worker.
THEOREM StreamsAreExact == WorkerSpec => []StreamExact
<1>1. ASSUME StreamInv, [WorkerNext]_workerVars PROVE StreamInv'
  <2>1. CASE UNCHANGED workerVars
    <3>1. UNCHANGED <<waiting, toWorker, posted, view, streams, shown, attached, log, sent>>
      BY <2>1 DEF workerVars, port, engineState
    <3>2. \A v \in Views : AwaitedOnce(v)' /\ (Awaited(v)' => Awaited(v))
      BY <1>1, <3>1 DEF StreamInv, ViewTrue, AwaitedOnce, Awaited
    <3> QED BY <1>1, <3>1, <3>2, QuietMoves DEF StreamInv, StreamTypeOK
  <2>2. CASE WorkerNext
    BY <1>1, <2>2, AttachStep, AskingSteps, PageSteps, FrameDelivered, ServeStep, FrameMade DEF WorkerNext
  <2> QED BY <1>1, <2>1, <2>2
<1>2. ASSUME StreamInv PROVE StreamExact
  <2> SUFFICES ASSUME NEW v \in attached, view[v] = "open",
                      \A i \in DOMAIN posted : posted[i].op = "frame" => posted[i].what[1] # v
               PROVE  shown[v] = log
    BY DEF StreamExact
  <2>1. posted \in Seq(Posts) /\ DOMAIN posted = 1 .. Len(posted) /\ v \in Views
    BY <1>2 DEF StreamInv, StreamTypeOK
  <2>2. NoFrame(posted, v)
    BY <2>1 DEF NoFrame, IsFrame
  <2>3. Counts(posted, v, shown[v], log)
    BY <1>2, <2>1 DEF StreamInv, ViewTrue
  <2> QED BY <2>1, <2>2, <2>3, CountsEnd
<1> QED BY <1>1, <1>2, StreamInitInv, PTL DEF WorkerSpec

----------------------------------------------------------------------------
(* The file tools.                                                         *)

Texts  == SUBSET (ToolCalls \cup {"old", "rest", "guest", "absent", "mangled"})
Steps  == {"idle", "read", "staging", "staged", "put", "landing", "ok", "failed"}
Shells == {"none", "out", "in", "done", "broken"}
Gets   == {"read", "download", "edit", "edit$"}
CallRecords ==
  [tool : Tools \cup {"none"}, path : Paths \cup {"none"}, step : Steps,
   got : Texts, seen : SUBSET Texts, wrote : Texts]

ToolsTypeOK ==
  /\ file \in [Paths -> Texts] /\ relay \in [ToolCalls -> Texts]
  /\ call \in [ToolCalls -> CallRecords] /\ shell \in [ToolCalls -> Shells]
  /\ severed \subseteq ToolCalls

\* The text k is to write: its own, or the edit asked for of a text it saw.
ToWrite(k, c) ==
  \/ k.tool = "write" /\ k.got = {c}
  \/ /\ k.tool \in {"edit", "edit$"}
     /\ \E text \in k.seen, new \in IF k.tool = "edit$" THEN {c, "mangled"} ELSE {c} :
          "old" \in text /\ k.got = (text \ {"old"}) \cup {new}

\* What a call has in hand, what its relay holds, and where its command is.
InHand(k, c, there, s, cuts) ==
  /\ k.step = "idle" => s = "none"
  /\ k.step = "read" => k.tool \in Gets /\ s = "none"
  /\ k.step = "staging" =>
       /\ k.tool \in Gets
       /\ \/ s = "out" /\ there = Absent
          \/ s = "done" /\ there \in k.seen
          \/ s = "broken" /\ (c \in cuts \/ there = Absent)
  /\ k.step = "staged" => there \in k.seen /\ k.tool \in Gets /\ s = "done"
  /\ k.step = "put" => ToWrite(k, c) /\ s \in {"none", "done"}
  /\ k.step = "landing" =>
       /\ ToWrite(k, c)
       /\ \/ s = "in" /\ there = k.got
          \/ s = "done" /\ there = Absent /\ k.wrote = k.got
          \/ s = "broken" /\ (c \in cuts \/ there = Absent)
  /\ k.step = "ok" =>
       /\ s \notin {"out", "in"}
       /\ IF k.tool \in {"read", "download"} THEN k.got \in k.seen ELSE k.wrote = k.got /\ ToWrite(k, c)
  /\ k.step = "failed" => c \in cuts \/ (there = Absent /\ s \notin {"out", "in"})
  /\ k.step \in {"idle", "read", "put", "ok"} => there = Absent
  /\ s \in {"out", "in"} => k.path \in Paths

\* A call under way has seen what its file is.
Sees(k) == k.step \notin {"idle", "ok", "failed"} => k.path \in Paths /\ file[k.path] \in k.seen

ToolsInv ==
  ToolsTypeOK /\ \A c \in ToolCalls : InHand(call[c], c, relay[c], shell[c], severed) /\ Sees(call[c])

----------------------------------------------------------------------------
LEMMA ToolsInitInv == ToolsInit => ToolsInv
<1> SUFFICES ASSUME ToolsInit PROVE ToolsInv
  OBVIOUS
<1>1. NoCall \in CallRecords /\ "none" \in Shells
  BY DEF NoCall, CallRecords, Texts, Steps, Shells
<1>2. {"old", "rest"} \in Texts /\ Absent \in Texts
  BY DEF Texts, Absent
<1> QED  BY <1>1, <1>2 DEF ToolsInit, ToolsInv, ToolsTypeOK, InHand, Sees, NoCall

\* A step of one call, with its relay and its command: the others are as they were.
LEMMA OneCallMoves ==
  ASSUME ToolsInv, NEW c \in ToolCalls, NEW k \in CallRecords, NEW there \in Texts, NEW s \in Shells,
         call' = [call EXCEPT ![c] = k], relay' = [relay EXCEPT ![c] = there],
         shell' = [shell EXCEPT ![c] = s], severed' \in {severed, severed \cup {c}}, UNCHANGED file,
         InHand(k, c, there, s, severed'), Sees(k)
  PROVE  ToolsInv'
<1>1. ToolsTypeOK'
  BY DEF ToolsInv, ToolsTypeOK
<1>2. ASSUME NEW d \in ToolCalls
      PROVE  InHand(call'[d], d, relay'[d], shell'[d], severed') /\ Sees(call[d])'
  <2>1. CASE d = c
    BY <2>1 DEF ToolsInv, ToolsTypeOK, Sees
  <2>2. CASE d # c
    <3>1. /\ call'[d] = call[d] /\ relay'[d] = relay[d] /\ shell'[d] = shell[d]
          /\ d \in severed' <=> d \in severed
      BY <2>2 DEF ToolsInv, ToolsTypeOK
    <3>2. InHand(call[d], d, relay[d], shell[d], severed) /\ Sees(call[d])
      BY DEF ToolsInv
    <3>3. InHand(call[d], d, relay[d], shell[d], severed')
      BY <3>1, <3>2 DEF InHand
    <3> QED  BY <3>1, <3>2, <3>3 DEF Sees
  <2> QED  BY <2>1, <2>2
<1> QED  BY <1>1, <1>2 DEF ToolsInv, InHand

\* A file moves, by a call c, the records being what after says: whoever has a
\* call on the file has seen it.
LEMMA FileMoves ==
  ASSUME ToolsInv, NEW p \in Paths, NEW content \in Texts, NEW after \in [ToolCalls -> CallRecords],
         Write(after, p, content), relay' \in [ToolCalls -> Texts], shell' \in [ToolCalls -> Shells],
         severed' \subseteq ToolCalls,
         \A c \in ToolCalls :
           /\ InHand(after[c], c, relay'[c], shell'[c], severed')
           /\ \/ after[c].step \in {"idle", "ok", "failed"}
              \/ after[c].path = call[c].path /\ Sees(call[c]) /\ after[c].seen = call[c].seen /\ after[c].step = call[c].step
  PROVE  ToolsInv'
<1>1. file' = [file EXCEPT ![p] = content] /\ file' \in [Paths -> Texts]
  BY DEF Write, ToolsInv, ToolsTypeOK
<1>2. ASSUME NEW c \in ToolCalls
      PROVE  call'[c] \in CallRecords /\ InHand(call'[c], c, relay'[c], shell'[c], severed') /\ Sees(call[c])'
  <2>1. CASE after[c].path = p /\ after[c].step \notin {"idle", "ok", "failed"}
    <3>1. call'[c] = [after[c] EXCEPT !.seen = @ \cup {content}]
      BY <2>1 DEF Write, Ended
    <3>2. after[c] \in CallRecords
      OBVIOUS
    <3>3. call'[c] \in CallRecords
      BY <3>1, <3>2 DEF CallRecords
    <3>4. /\ call'[c].step = after[c].step /\ call'[c].got = after[c].got /\ call'[c].tool = after[c].tool
          /\ call'[c].wrote = after[c].wrote /\ call'[c].path = after[c].path /\ call'[c].path = p
          /\ call'[c].seen = after[c].seen \cup {content}
      BY <2>1, <3>1, <3>2 DEF CallRecords
    <3>5. ToWrite(after[c], c) => ToWrite(call'[c], c)
      BY <3>4 DEF ToWrite
    <3>6. InHand(call'[c], c, relay'[c], shell'[c], severed')
      BY <3>4, <3>5 DEF InHand
    <3>7. Sees(call[c])'
      BY <1>1, <3>4 DEF Sees, ToolsInv, ToolsTypeOK
    <3> QED  BY <3>3, <3>6, <3>7
  <2>2. CASE ~(after[c].path = p /\ after[c].step \notin {"idle", "ok", "failed"})
    <3>1. call'[c] = after[c]
      BY <2>2 DEF Write, Ended
    <3>2. Sees(call[c])'
      BY <1>1, <2>2, <3>1 DEF Sees, ToolsInv, ToolsTypeOK
    <3> QED  BY <3>1, <3>2
  <2> QED  BY <2>1, <2>2
<1>3. call' \in [ToolCalls -> CallRecords]
  BY <1>2 DEF Write
<1> QED  BY <1>1, <1>2, <1>3 DEF ToolsInv, ToolsTypeOK, InHand

\* The file changes by a call c that goes to record k, its relay to there, its
\* command to s.
LEMMA OneCallWrites ==
  ASSUME ToolsInv, NEW p \in Paths, NEW content \in Texts, NEW c \in ToolCalls, NEW k \in CallRecords,
         NEW there \in Texts, NEW s \in Shells,
         Write([call EXCEPT ![c] = k], p, content), relay' = [relay EXCEPT ![c] = there],
         shell' = [shell EXCEPT ![c] = s], severed' \in {severed, severed \cup {c}},
         InHand(k, c, there, s, severed'),
         k.step \in {"ok", "failed"} \/ (k.path = call[c].path /\ k.seen = call[c].seen /\ k.step = call[c].step)
  PROVE  ToolsInv'
<1> DEFINE after == [call EXCEPT ![c] = k]
<1>0. /\ call \in [ToolCalls -> CallRecords] /\ relay \in [ToolCalls -> Texts] /\ shell \in [ToolCalls -> Shells]
      /\ severed \subseteq ToolCalls
  BY DEF ToolsInv, ToolsTypeOK
<1>1. /\ after \in [ToolCalls -> CallRecords] /\ relay' \in [ToolCalls -> Texts] /\ shell' \in [ToolCalls -> Shells]
      /\ severed' \subseteq ToolCalls
  BY <1>0
<1>2. ASSUME NEW d \in ToolCalls
      PROVE  /\ InHand(after[d], d, relay'[d], shell'[d], severed')
             /\ \/ after[d].step \in {"idle", "ok", "failed"}
                \/ /\ after[d].path = call[d].path /\ Sees(call[d]) /\ after[d].seen = call[d].seen
                   /\ after[d].step = call[d].step
  <2>1. CASE d = c
    <3>1. after[d] = k /\ relay'[d] = there /\ shell'[d] = s
      BY <1>0, <2>1
    <3> QED  BY <2>1, <3>1 DEF ToolsInv
  <2>2. CASE d # c
    <3>1. after[d] = call[d] /\ relay'[d] = relay[d] /\ shell'[d] = shell[d] /\ (d \in severed' <=> d \in severed)
      BY <1>0, <2>2
    <3>2. InHand(call[d], d, relay[d], shell[d], severed) /\ Sees(call[d])
      BY DEF ToolsInv
    <3>3. InHand(call[d], d, relay[d], shell[d], severed')
      BY <3>1, <3>2 DEF InHand
    <3> QED  BY <3>1, <3>2, <3>3
  <2> QED  BY <2>1, <2>2
<1>3. Write(after, p, content)
  OBVIOUS
<1> HIDE DEF after
<1> QED  BY <1>1, <1>2, <1>3, FileMoves

\* What is known of a call, of its relay and of its command.
LEMMA ToolFacts ==
  ASSUME ToolsInv, NEW c \in ToolCalls
  PROVE  /\ call[c] \in CallRecords /\ call \in [ToolCalls -> CallRecords] /\ Absent \in Texts /\ {} \in Texts
         /\ Half \in Texts /\ Sees(call[c]) /\ InHand(call[c], c, relay[c], shell[c], severed)
         /\ relay \in [ToolCalls -> Texts] /\ relay[c] \in Texts /\ shell \in [ToolCalls -> Shells] /\ shell[c] \in Shells
         /\ relay = [relay EXCEPT ![c] = relay[c]] /\ shell = [shell EXCEPT ![c] = shell[c]]
         /\ call = [call EXCEPT ![c] = call[c]] /\ file \in [Paths -> Texts]
         /\ call[c].got \in Texts /\ severed \subseteq ToolCalls
  BY DEF ToolsInv, ToolsTypeOK, Absent, Half, Texts, CallRecords

\* A call fails, severed or with its relay gone and its command over.
LEMMA CallFails ==
  ASSUME ToolsInv, NEW c \in ToolCalls, ToolFails(c), UNCHANGED <<file, shell>>, NEW there \in Texts,
         relay' = [relay EXCEPT ![c] = there], severed' \in {severed, severed \cup {c}},
         c \in severed' \/ (there = Absent /\ shell[c] \notin {"out", "in"})
  PROVE  ToolsInv'
<1> DEFINE k == [call[c] EXCEPT !.step = "failed"]
<1>0. /\ call[c] \in CallRecords /\ InHand(call[c], c, relay[c], shell[c], severed) /\ shell[c] \in Shells
      /\ shell' = [shell EXCEPT ![c] = shell[c]]
  BY ToolFacts
<1>1. k \in CallRecords /\ k.step = "failed" /\ k.path = call[c].path
  BY <1>0 DEF CallRecords, Steps
<1>2. call' = [call EXCEPT ![c] = k]
  BY DEF ToolFails
<1>3. InHand(k, c, there, shell[c], severed') /\ Sees(k)
  BY <1>0, <1>1 DEF InHand, Sees
<1> HIDE DEF k
<1> QED  BY <1>0, <1>1, <1>2, <1>3, OneCallMoves

\* The bytes of a file that a call has seen go to its use.
LEMMA BytesAreUsed ==
  ASSUME ToolsInv, NEW c \in ToolCalls, NEW bytes \in Texts, Use(c, bytes), bytes \in call[c].seen,
         call[c].step \in {"read", "staged"}, UNCHANGED <<file, shell, severed>>, relay' = [relay EXCEPT ![c] = Absent]
  PROVE  ToolsInv'
<1>0. /\ call[c] \in CallRecords /\ call \in [ToolCalls -> CallRecords] /\ Absent \in Texts /\ Sees(call[c])
      /\ shell[c] \in {"none", "done"} /\ shell[c] \in Shells /\ shell' = [shell EXCEPT ![c] = shell[c]]
  BY ToolFacts DEF InHand
<1>1. CASE call[c].tool \in {"read", "download"} /\ call' = [call EXCEPT ![c].got = bytes, ![c].step = "ok"]
  <2> DEFINE k == [call[c] EXCEPT !.got = bytes, !.step = "ok"]
  <2>1. k \in CallRecords /\ k.step = "ok" /\ k.got = bytes /\ k.seen = call[c].seen /\ k.tool = call[c].tool
    BY <1>0 DEF CallRecords, Steps
  <2>2. call' = [call EXCEPT ![c] = k]
    BY <1>0, <1>1
  <2>3. InHand(k, c, Absent, shell[c], severed') /\ Sees(k)
    BY <1>0, <1>1, <2>1 DEF InHand, Sees
  <2> HIDE DEF k
  <2> QED  BY <1>0, <2>1, <2>2, <2>3, OneCallMoves
<1>2. CASE ToolFails(c)
  BY <1>0, <1>2, CallFails
<1>3. CASE call[c].tool \in {"edit", "edit$"} /\ "old" \in bytes
           /\ \E new \in NewText(c) : call' = [call EXCEPT ![c].got = (bytes \ {"old"}) \cup {new}, ![c].step = "put"]
  <2>0. PICK new \in NewText(c) : call' = [call EXCEPT ![c].got = (bytes \ {"old"}) \cup {new}, ![c].step = "put"]
    BY <1>3
  <2> DEFINE text == (bytes \ {"old"}) \cup {new}
  <2> DEFINE k == [call[c] EXCEPT !.got = text, !.step = "put"]
  <2>1. text \in Texts
    BY <2>0 DEF Texts, NewText
  <2>2. k \in CallRecords /\ k.step = "put" /\ k.got = text /\ k.seen = call[c].seen /\ k.tool = call[c].tool /\ k.path = call[c].path
    BY <1>0, <2>1 DEF CallRecords, Steps
  <2>3. call' = [call EXCEPT ![c] = k]
    BY <1>0, <2>0
  <2>4. ToWrite(k, c)
    BY <1>3, <2>0, <2>2 DEF ToWrite, NewText
  <2>5. InHand(k, c, Absent, shell[c], severed') /\ Sees(k)
    BY <1>0, <2>2, <2>4 DEF InHand, Sees
  <2> HIDE DEF k, text
  <2> QED  BY <1>0, <2>2, <2>3, <2>5, OneCallMoves
<1> QED  BY <1>1, <1>2, <1>3 DEF Use

\* One call begins, asks the guest and hears of it, and reads.
LEMMA ToolSteps ==
  ASSUME ToolsInv, NEW c \in ToolCalls
  PROVE  /\ \A t \in Tools, p \in Paths : Dispatch(c, t, p) => ToolsInv'
         /\ ReadDirect(c) => ToolsInv'
         /\ Stage(c) => ToolsInv'
         /\ Staged(c) => ToolsInv'
         /\ Fetch(c) => ToolsInv'
         /\ Unheard(c) => ToolsInv'
         /\ PutRelay(c) => ToolsInv'
         /\ Land(c) => ToolsInv'
<1>0. /\ call[c] \in CallRecords /\ call \in [ToolCalls -> CallRecords] /\ Absent \in Texts /\ {} \in Texts
      /\ Half \in Texts /\ Sees(call[c]) /\ InHand(call[c], c, relay[c], shell[c], severed)
      /\ relay \in [ToolCalls -> Texts] /\ relay[c] \in Texts /\ shell \in [ToolCalls -> Shells] /\ shell[c] \in Shells
      /\ relay = [relay EXCEPT ![c] = relay[c]] /\ shell = [shell EXCEPT ![c] = shell[c]]
      /\ file \in [Paths -> Texts] /\ call[c].got \in Texts
  BY ToolFacts
<1>1. ASSUME NEW t \in Tools, NEW p \in Paths, Dispatch(c, t, p) PROVE ToolsInv'
  <2> DEFINE k == [tool |-> t, path |-> p, step |-> IF t = "write" THEN "put" ELSE "read",
                   got |-> IF t = "write" THEN {c} ELSE {}, seen |-> {file[p]}, wrote |-> {}]
  <2>1. k \in CallRecords
    BY <1>0 DEF CallRecords, Steps, Texts
  <2>2. shell[c] = "none" /\ relay[c] = Absent
    BY <1>0, <1>1 DEF Dispatch, InHand
  <2>3. InHand(k, c, Absent, "none", severed') /\ Sees(k)
    BY DEF InHand, Sees, ToWrite, Gets, Tools
  <2>4. call' = [call EXCEPT ![c] = k] /\ relay' = [relay EXCEPT ![c] = Absent] /\ shell' = [shell EXCEPT ![c] = "none"]
    BY <1>0, <1>1, <2>2 DEF Dispatch
  <2> HIDE DEF k
  <2> QED  BY <1>0, <1>1, <2>1, <2>2, <2>3, <2>4, OneCallMoves DEF Dispatch
<1>2. ASSUME ReadDirect(c) PROVE ToolsInv'
  <2>1. file[call[c].path] \in call[c].seen /\ file[call[c].path] \in Texts /\ relay' = [relay EXCEPT ![c] = Absent]
    BY <1>0, <1>2 DEF ReadDirect, Sees, InHand
  <2>2. CASE Use(c, file[call[c].path])
    BY <1>0, <1>2, <2>1, <2>2, BytesAreUsed DEF ReadDirect
  <2>3. CASE ToolFails(c)
    BY <1>0, <1>2, <2>1, <2>3, CallFails DEF ReadDirect, InHand
  <2> QED  BY <1>2, <2>2, <2>3 DEF ReadDirect
<1>3. ASSUME Stage(c) PROVE ToolsInv'
  <2>0. shell[c] = "none" /\ relay[c] = Absent /\ call[c].tool \in Gets
    BY <1>0, <1>3 DEF Stage, InHand
  <2>1. CASE ToolFails(c) /\ UNCHANGED shell
    BY <1>0, <1>3, <2>0, <2>1, CallFails DEF Stage
  <2>2. CASE ToolGoesOn(c, "staging") /\ shell' = [shell EXCEPT ![c] = "out"]
    <3> DEFINE k == [call[c] EXCEPT !.step = "staging"]
    <3>1. /\ k \in CallRecords /\ k.step = "staging" /\ k.seen = call[c].seen /\ k.tool = call[c].tool
          /\ k.path = call[c].path
      BY <1>0 DEF CallRecords, Steps
    <3>2. call' = [call EXCEPT ![c] = k] /\ "out" \in Shells
      BY <1>0, <2>2 DEF ToolGoesOn, Shells
    <3>3. InHand(k, c, relay[c], "out", severed') /\ Sees(k)
      BY <1>0, <1>3, <2>0, <3>1 DEF InHand, Sees, Stage
    <3> HIDE DEF k
    <3> QED  BY <1>0, <1>3, <2>2, <3>1, <3>2, <3>3, OneCallMoves DEF Stage
  <2> QED  BY <1>3, <2>1, <2>2 DEF Stage
<1>4. ASSUME Staged(c) PROVE ToolsInv'
  <2>1. CASE shell[c] = "broken" /\ ToolFails(c)
    BY <1>0, <1>4, <2>1, CallFails DEF Staged, InHand
  <2>2. CASE shell[c] = "done" /\ ToolGoesOn(c, "staged")
    <3> DEFINE k == [call[c] EXCEPT !.step = "staged"]
    <3>1. /\ k \in CallRecords /\ k.step = "staged" /\ k.seen = call[c].seen /\ k.tool = call[c].tool
          /\ k.path = call[c].path
      BY <1>0 DEF CallRecords, Steps
    <3>2. call' = [call EXCEPT ![c] = k]
      BY <1>0, <2>2 DEF ToolGoesOn
    <3>3. InHand(k, c, relay[c], shell[c], severed') /\ Sees(k)
      BY <1>0, <1>4, <2>2, <3>1 DEF InHand, Sees, Staged
    <3> HIDE DEF k
    <3> QED  BY <1>0, <1>4, <3>1, <3>2, <3>3, OneCallMoves DEF Staged
  <2> QED  BY <1>4, <2>1, <2>2 DEF Staged, Answered
<1>5. ASSUME Fetch(c) PROVE ToolsInv'
  <2>0. relay[c] \in call[c].seen /\ shell[c] = "done"
    BY <1>0, <1>5 DEF Fetch, InHand
  <2>1. CASE ToolFails(c)
    BY <1>0, <1>5, <2>0, <2>1, CallFails DEF Fetch, Relay
  <2>2. CASE Use(c, relay[c])
    BY <1>0, <1>5, <2>0, <2>2, BytesAreUsed DEF Fetch, Relay
  <2> QED  BY <1>5, <2>1, <2>2 DEF Fetch, Relay
<1>6. ASSUME Unheard(c) PROVE ToolsInv'
  BY <1>0, <1>6, CallFails DEF Unheard
<1>7. ASSUME PutRelay(c) PROVE ToolsInv'
  <2>1. CASE \E text \in {Absent, {}} : /\ relay' = [relay EXCEPT ![c] = text]
                                        /\ ToolFails(c) /\ severed' = severed \cup {c} /\ UNCHANGED shell
    BY <1>0, <1>7, <2>1, CallFails DEF PutRelay
  <2>2. CASE /\ relay' = [relay EXCEPT ![c] = call[c].got]
             /\ ToolGoesOn(c, "landing") /\ shell' = [shell EXCEPT ![c] = "in"] /\ UNCHANGED severed
    <3> DEFINE k == [call[c] EXCEPT !.step = "landing"]
    <3>1. /\ k \in CallRecords /\ k.step = "landing" /\ k.seen = call[c].seen /\ k.tool = call[c].tool
          /\ k.path = call[c].path /\ k.got = call[c].got
      BY <1>0 DEF CallRecords, Steps
    <3>2. call' = [call EXCEPT ![c] = k] /\ "in" \in Shells
      BY <1>0, <2>2 DEF ToolGoesOn, Shells
    <3>3. ToWrite(k, c)
      BY <1>0, <1>7, <3>1 DEF PutRelay, InHand, ToWrite
    <3>4. InHand(k, c, call[c].got, "in", severed') /\ Sees(k)
      BY <1>0, <1>7, <3>1, <3>3 DEF InHand, Sees, PutRelay
    <3> HIDE DEF k
    <3> QED  BY <1>0, <1>7, <2>2, <3>1, <3>2, <3>4, OneCallMoves DEF PutRelay
  <2> QED  BY <1>7, <2>1, <2>2 DEF PutRelay, Relay
<1>8. ASSUME Land(c) PROVE ToolsInv'
  <2>1. CASE shell[c] = "broken" /\ ToolFails(c)
    BY <1>0, <1>8, <2>1, CallFails DEF Land, InHand
  <2>2. CASE shell[c] = "done" /\ ToolGoesOn(c, "ok")
    <3> DEFINE k == [call[c] EXCEPT !.step = "ok"]
    <3>1. /\ k \in CallRecords /\ k.step = "ok" /\ k.seen = call[c].seen /\ k.tool = call[c].tool
          /\ k.path = call[c].path /\ k.got = call[c].got /\ k.wrote = call[c].wrote
      BY <1>0 DEF CallRecords, Steps
    <3>2. call' = [call EXCEPT ![c] = k]
      BY <1>0, <2>2 DEF ToolGoesOn
    <3>3. ToWrite(k, c) /\ k.wrote = k.got /\ relay[c] = Absent /\ k.tool \notin {"read", "download"}
      BY <1>0, <1>8, <2>2, <3>1 DEF Land, InHand, ToWrite
    <3>4. InHand(k, c, relay[c], shell[c], severed') /\ Sees(k)
      BY <1>0, <1>8, <2>2, <3>1, <3>3 DEF InHand, Sees
    <3> HIDE DEF k
    <3> QED  BY <1>0, <1>8, <3>1, <3>2, <3>4, OneCallMoves DEF Land
  <2> QED  BY <1>8, <2>1, <2>2 DEF Land, Answered
<1> QED  BY <1>1, <1>2, <1>3, <1>4, <1>5, <1>6, <1>7, <1>8

\* The guest copies a file to the call's relay, or half of it, or nothing.
LEMMA CopiesOut == ASSUME ToolsInv, NEW c \in ToolCalls, CopyOut(c) PROVE ToolsInv'
<1>0. /\ call[c] \in CallRecords /\ call = [call EXCEPT ![c] = call[c]] /\ Half \in Texts
      /\ Sees(call[c]) /\ InHand(call[c], c, relay[c], shell[c], severed)
      /\ relay[c] \in Texts /\ relay = [relay EXCEPT ![c] = relay[c]] /\ file \in [Paths -> Texts]
      /\ {"done", "broken"} \subseteq Shells
  BY ToolFacts DEF Shells
<1>1. call[c].step \in {"staging", "failed"} /\ call[c].path \in Paths /\ (call[c].step = "failed" => c \in severed)
  BY <1>0 DEF CopyOut, InHand, CallRecords, Steps
<1>2. /\ call[c].step = "staging" => relay[c] = Absent /\ call[c].tool \in Gets /\ file[call[c].path] \in call[c].seen
      /\ file[call[c].path] \in Texts
  BY <1>0, <1>1 DEF CopyOut, InHand, Sees
<1>3. CASE /\ relay' = [relay EXCEPT ![c] = file[call[c].path]]
           /\ shell' = [shell EXCEPT ![c] = "done"] /\ UNCHANGED severed
  <2>1. InHand(call[c], c, file[call[c].path], "done", severed')
    BY <1>1, <1>2, <1>3 DEF InHand
  <2> QED  BY <1>0, <1>2, <1>3, <2>1, OneCallMoves DEF CopyOut
<1>4. CASE shell' = [shell EXCEPT ![c] = "broken"] /\ UNCHANGED <<relay, severed>>
  <2>1. InHand(call[c], c, relay[c], "broken", severed')
    BY <1>1, <1>2, <1>4 DEF InHand
  <2> QED  BY <1>0, <1>4, <2>1, OneCallMoves DEF CopyOut
<1>5. CASE /\ relay' = [relay EXCEPT ![c] = Half]
           /\ shell' = [shell EXCEPT ![c] = "broken"] /\ severed' = severed \cup {c}
  <2>1. InHand(call[c], c, Half, "broken", severed')
    BY <1>1, <1>2, <1>5 DEF InHand
  <2> QED  BY <1>0, <1>5, <2>1, OneCallMoves DEF CopyOut
<1> QED  BY <1>3, <1>4, <1>5 DEF CopyOut, Relay

\* The guest copies a call's relay into place, or half of it, or stops half way.
LEMMA CopiesBack == ASSUME ToolsInv, NEW c \in ToolCalls, CopyIn(c) PROVE ToolsInv'
<1> DEFINE p == call[c].path
<1>0. /\ call[c] \in CallRecords /\ call = [call EXCEPT ![c] = call[c]] /\ Half \in Texts /\ Absent \in Texts
      /\ Sees(call[c]) /\ InHand(call[c], c, relay[c], shell[c], severed)
      /\ relay[c] \in Texts /\ relay = [relay EXCEPT ![c] = relay[c]] /\ file \in [Paths -> Texts]
      /\ {"done", "broken"} \subseteq Shells
  BY ToolFacts DEF Shells
<1>1. call[c].step \in {"landing", "failed"} /\ p \in Paths /\ (call[c].step = "failed" => c \in severed)
  BY <1>0 DEF CopyIn, InHand, CallRecords, Steps
<1>2. call[c].step = "landing" => ToWrite(call[c], c) /\ relay[c] = call[c].got
  BY <1>0 DEF CopyIn, InHand
<1>3. CASE /\ relay[c] # Absent /\ relay' = [relay EXCEPT ![c] = Absent]
           /\ Write([call EXCEPT ![c].wrote = relay[c]], p, relay[c])
           /\ shell' = [shell EXCEPT ![c] = "done"] /\ UNCHANGED severed
  <2> DEFINE k == [call[c] EXCEPT !.wrote = relay[c]]
  <2>1. /\ k \in CallRecords /\ k.step = call[c].step /\ k.seen = call[c].seen /\ k.tool = call[c].tool
        /\ k.path = p /\ k.got = call[c].got /\ k.wrote = relay[c]
    BY <1>0 DEF CallRecords, Steps
  <2>2. Write([call EXCEPT ![c] = k], p, relay[c])
    BY <1>0, <1>3
  <2>3. ToWrite(call[c], c) => ToWrite(k, c)
    BY <2>1 DEF ToWrite
  <2>4. InHand(k, c, Absent, "done", severed')
    BY <1>1, <1>2, <1>3, <2>1, <2>3 DEF InHand
  <2> HIDE DEF k
  <2> QED  BY <1>0, <1>1, <1>3, <2>1, <2>2, <2>4, OneCallWrites
<1>4. CASE /\ relay' = [relay EXCEPT ![c] = Absent]
           /\ \E text \in {file[p], Half} : Write(call, p, text)
           /\ shell' = [shell EXCEPT ![c] = "broken"] /\ UNCHANGED severed
  <2>1. PICK text \in {file[p], Half} : Write(call, p, text)
    BY <1>4
  <2>2. text \in Texts /\ Write([call EXCEPT ![c] = call[c]], p, text)
    BY <1>0, <1>1, <2>1
  <2>3. InHand(call[c], c, Absent, "broken", severed')
    BY <1>1, <1>2, <1>4 DEF InHand
  <2> QED  BY <1>0, <1>1, <1>4, <2>2, <2>3, OneCallWrites
<1>5. CASE /\ \E text \in {file[p], Half} \cup ({relay[c]} \ {Absent}) : Write(call, p, text)
           /\ shell' = [shell EXCEPT ![c] = "broken"] /\ severed' = severed \cup {c} /\ UNCHANGED relay
  <2>1. PICK text \in {file[p], Half} \cup ({relay[c]} \ {Absent}) : Write(call, p, text)
    BY <1>5
  <2>2. text \in Texts /\ Write([call EXCEPT ![c] = call[c]], p, text)
    BY <1>0, <1>1, <2>1
  <2>3. InHand(call[c], c, relay[c], "broken", severed')
    BY <1>1, <1>2, <1>5 DEF InHand
  <2> QED  BY <1>0, <1>1, <1>5, <2>2, <2>3, OneCallWrites
<1> QED  BY <1>3, <1>4, <1>5 DEF CopyIn, Relay

\* What writes a file page-side, and the guest of itself.
LEMMA FilesMove ==
  ASSUME ToolsInv
  PROVE  /\ \A p \in Paths : GuestWrites(p) => ToolsInv'
         /\ \A c \in ToolCalls : PutDirect(c) => ToolsInv'
<1>1. ASSUME NEW p \in Paths, GuestWrites(p) PROVE ToolsInv'
  <2>1. PICK content \in {{"old", "guest"}, {"guest"}} : Write(call, p, content)
    BY <1>1 DEF GuestWrites
  <2>2. content \in Texts
    BY DEF Texts
  <2>3. /\ call \in [ToolCalls -> CallRecords] /\ relay' \in [ToolCalls -> Texts] /\ relay' = relay
        /\ shell' \in [ToolCalls -> Shells] /\ shell' = shell /\ severed' = severed /\ severed' \subseteq ToolCalls
    BY <1>1 DEF GuestWrites, ToolsInv, ToolsTypeOK
  <2>4. \A c \in ToolCalls : InHand(call[c], c, relay'[c], shell'[c], severed') /\ Sees(call[c])
    BY <2>3 DEF ToolsInv
  <2> QED  BY <2>1, <2>2, <2>3, <2>4, FileMoves
<1>2. ASSUME NEW c \in ToolCalls, PutDirect(c) PROVE ToolsInv'
  <2> DEFINE p == call[c].path
  <2>0. /\ call[c] \in CallRecords /\ Absent \in Texts /\ {} \in Texts /\ file \in [Paths -> Texts]
        /\ relay = [relay EXCEPT ![c] = relay[c]] /\ relay[c] \in Texts /\ call[c].got \in Texts
        /\ shell = [shell EXCEPT ![c] = shell[c]] /\ shell[c] \in Shells
        /\ Sees(call[c]) /\ InHand(call[c], c, relay[c], shell[c], severed)
    BY ToolFacts
  <2>1. relay[c] = Absent /\ ToWrite(call[c], c) /\ p \in Paths /\ shell[c] \in {"none", "done"}
    BY <1>2, <2>0 DEF InHand, PutDirect, Sees
  <2>2. CASE Write([call EXCEPT ![c].step = "ok", ![c].wrote = call[c].got], p, call[c].got) /\ UNCHANGED severed
    <3> DEFINE k == [call[c] EXCEPT !.step = "ok", !.wrote = call[c].got]
    <3>1. /\ k \in CallRecords /\ k.step = "ok" /\ k.seen = call[c].seen /\ k.tool = call[c].tool
          /\ k.got = call[c].got /\ k.wrote = call[c].got
      BY <2>0 DEF CallRecords, Steps
    <3>2. Write([call EXCEPT ![c] = k], p, call[c].got)
      BY <2>0, <2>2
    <3>3. ToWrite(k, c)
      BY <2>1, <3>1 DEF ToWrite
    <3>4. k.tool \notin {"read", "download"}
      BY <3>3 DEF ToWrite
    <3>5. InHand(k, c, relay[c], shell[c], severed')
      BY <2>1, <3>1, <3>3, <3>4 DEF InHand
    <3> HIDE DEF k
    <3> QED  BY <1>2, <2>0, <2>1, <2>2, <3>1, <3>2, <3>5, OneCallWrites DEF PutDirect
  <2>3. CASE \E text \in {file[p], {}} :
               Write([call EXCEPT ![c].step = "failed"], p, text) /\ severed' = severed \cup {c}
    <3> DEFINE k == [call[c] EXCEPT !.step = "failed"]
    <3>1. PICK text \in {file[p], {}} : Write([call EXCEPT ![c].step = "failed"], p, text) /\ severed' = severed \cup {c}
      BY <2>3
    <3>2. k \in CallRecords /\ k.step = "failed" /\ k.path = p
      BY <2>0 DEF CallRecords, Steps
    <3>3. Write([call EXCEPT ![c] = k], p, text) /\ text \in Texts
      BY <2>0, <2>1, <3>1
    <3>4. InHand(k, c, relay[c], shell[c], severed')
      BY <2>1, <3>1, <3>2 DEF InHand
    <3> HIDE DEF k
    <3> QED  BY <1>2, <2>0, <2>1, <3>1, <3>2, <3>3, <3>4, OneCallWrites DEF PutDirect
  <2> QED  BY <1>2, <2>2, <2>3 DEF PutDirect
<1> QED  BY <1>1, <1>2

\* Exact content transfer (device-vm.ts): for any number of calls, of files, of writes
\* by the guest, and of commands that are killed, break off or are never answered.
THEOREM ToolsTransferExactly == ToolsSpec => []TransferExact
<1>1. ASSUME ToolsInv, [ToolsNext]_toolsVars PROVE ToolsInv'
  <2>1. CASE UNCHANGED toolsVars
    BY <1>1, <2>1 DEF toolsVars, ToolsInv, ToolsTypeOK, Sees, InHand
  <2>2. CASE ToolsNext
    BY <1>1, <2>2, ToolSteps, FilesMove, CopiesOut, CopiesBack DEF ToolsNext
  <2> QED  BY <1>1, <2>1, <2>2
<1>2. ToolsInv => TransferExact
  BY DEF ToolsInv, TransferExact, EditAsAsked, InHand, ToWrite, NewText
<1> QED  BY <1>1, <1>2, ToolsInitInv, PTL DEF ToolsSpec

----------------------------------------------------------------------------
(* The guest's fetches.                                                    *)

Phases == {"idle", "reading", "fetching", "read", "writing", "over"}
FetchWords == {"none", "body", "ref", "timed out", "cancelled", "network", "invalid", "unavailable"}

FetchTypeOK ==
  /\ fetching \in [Calls -> Phases] /\ staged \in [Calls -> {"none", "whole", "short", "gone"}]
  /\ size \in [Calls -> Nat] /\ got \in [Calls -> Nat] /\ cut \in [Calls -> BOOLEAN]
  /\ rung \in [Calls -> BOOLEAN] /\ ended \in [Calls -> BOOLEAN]
  /\ answer \in [Calls -> FetchWords] /\ reply \in [Calls -> BOOLEAN]

\* What was read is all there is, or as much as may be and known to be cut.
WholeBody(c) == got[c] = (IF size[c] > Cap THEN Cap ELSE size[c]) /\ cut[c] = (size[c] > Cap)

FetchTrue(c) ==
  /\ fetching[c] \in {"idle", "reading"} => got[c] = 0
  /\ fetching[c] \in {"idle", "reading", "fetching"} => ~cut[c] /\ got[c] <= Cap
  /\ fetching[c] = "fetching" => got[c] <= size[c]
  /\ fetching[c] \in {"read", "writing"} \/ answer[c] \in {"body", "ref"} => WholeBody(c)
  /\ answer[c] # "none" => fetching[c] = "over"
  /\ answer[c] = "ref" => reply[c]
  /\ answer[c] = "timed out" => rung[c] /\ ~ended[c]
  /\ answer[c] = "cancelled" => ended[c]

FetchInv == FetchTypeOK /\ \A c \in Calls : FetchTrue(c)

----------------------------------------------------------------------------
\* A step of one fetch leaves the others as they were.
LEMMA OneFetchMoves ==
  ASSUME FetchInv, NEW c \in Calls, FetchTypeOK', FetchTrue(c)',
         \A d \in Calls \ {c} : /\ fetching'[d] = fetching[d] /\ size'[d] = size[d] /\ got'[d] = got[d] /\ cut'[d] = cut[d]
                                /\ rung'[d] = rung[d] /\ ended'[d] = ended[d] /\ answer'[d] = answer[d] /\ reply'[d] = reply[d]
  PROVE  FetchInv'
<1>1. ASSUME NEW d \in Calls \ {c} PROVE FetchTrue(d)'
  BY <1>1 DEF FetchInv, FetchTrue, WholeBody
<1> QED  BY <1>1 DEF FetchInv

LEMMA FetchSteps ==
  ASSUME FetchInv, FetchAssumption, FetchNext
  PROVE  FetchInv'
<1>0. FetchTypeOK /\ (\A c \in Calls : FetchTrue(c)) /\ Cap \in Nat /\ MaxBody \in Nat
  BY DEF FetchInv, FetchAssumption
<1>1. ASSUME NEW c \in Calls, NEW with \in {"none", "whole", "short"}, NEW body \in 0 .. MaxBody, Arrive(c, with, body)
      PROVE  FetchInv'
  <2>5. staged' \in [Calls -> {"none", "whole", "short", "gone"}] /\ size' \in [Calls -> Nat]
    BY <1>0, <1>1 DEF FetchTypeOK, Arrive
  <2>6. fetching' \in [Calls -> Phases] /\ UNCHANGED <<got, cut, rung, ended, answer, reply>>
    BY <1>0, <1>1 DEF FetchTypeOK, Phases, Arrive, FetchGoto, race
  <2>1. FetchTypeOK'
    BY <1>0, <2>5, <2>6 DEF FetchTypeOK
  <2>2. /\ got'[c] = got[c] /\ cut'[c] = cut[c] /\ rung'[c] = rung[c] /\ ended'[c] = ended[c]
        /\ answer'[c] = answer[c] /\ reply'[c] = reply[c] /\ FetchTrue(c) /\ fetching[c] = "idle"
        /\ fetching'[c] \in {"fetching", "reading"} /\ size'[c] \in Nat
    BY <1>0, <1>1, <2>1 DEF FetchTypeOK, Arrive, FetchGoto, race
  <2>3. got[c] = 0 /\ ~cut[c] /\ answer[c] = "none"
    BY <2>2 DEF FetchTrue
  <2>7. got'[c] = 0 /\ got'[c] <= Cap /\ got'[c] <= size'[c]
    BY <1>0, <2>2, <2>3
  <2>8. ~cut'[c] /\ answer'[c] = "none" /\ fetching'[c] \in {"fetching", "reading"}
    BY <2>2, <2>3
  <2>4. FetchTrue(c)'
    BY <2>7, <2>8 DEF FetchTrue
  <2> QED  BY <1>0, <1>1, <2>1, <2>4, OneFetchMoves DEF FetchTypeOK, Arrive, FetchGoto, race
<1>2. ASSUME NEW c \in Calls, NEW n \in 1 .. MaxBody, Chunk(c, n) PROVE FetchInv'
  <2>5. got' \in [Calls -> Nat] /\ cut' \in [Calls -> BOOLEAN] /\ UNCHANGED <<staged, size, rung, ended, answer, reply>>
    <3>1. CASE got[c] + n > Cap
      BY <1>0, <1>2, <3>1 DEF FetchTypeOK, Chunk, race
    <3>2. CASE ~(got[c] + n > Cap)
      BY <1>0, <1>2, <3>2 DEF FetchTypeOK, Chunk, race
    <3> QED  BY <3>1, <3>2
  <2>6. fetching' \in [Calls -> Phases]
    BY <1>0, <1>2 DEF FetchTypeOK, Phases, Chunk, FetchGoto
  <2>1. FetchTypeOK'
    BY <1>0, <2>5, <2>6 DEF FetchTypeOK
  <2>2. FetchTrue(c)'
    <3>1. /\ size'[c] = size[c] /\ rung'[c] = rung[c] /\ ended'[c] = ended[c] /\ answer'[c] = answer[c] /\ reply'[c] = reply[c]
          /\ IF got[c] + n > Cap THEN got'[c] = Cap /\ cut'[c] = TRUE /\ fetching'[c] = "read"
             ELSE got'[c] = got[c] + n /\ cut'[c] = cut[c] /\ fetching'[c] = "fetching"
      BY <1>0, <1>2 DEF FetchTypeOK, Chunk, FetchGoto, race
    <3>2. /\ got[c] \in Nat /\ size[c] \in Nat /\ n \in Nat /\ Cap \in Nat /\ n <= size[c] - got[c]
      BY <1>0, <1>2 DEF FetchTypeOK, Chunk
    <3>3. FetchTrue(c) /\ fetching[c] = "fetching"
      BY <1>0, <1>2 DEF Chunk
    <3>4. ~cut[c] /\ answer[c] = "none"
      BY <3>3 DEF FetchTrue
    <3>5. CASE got[c] + n > Cap
      <4>2. size[c] > Cap /\ got'[c] = Cap /\ cut'[c] = TRUE /\ size'[c] > Cap
        BY <3>1, <3>2, <3>5
      <4>1. WholeBody(c)'
        BY <4>2 DEF WholeBody
      <4> QED  BY <3>1, <3>4, <3>5, <4>1 DEF FetchTrue
    <3>6. CASE ~(got[c] + n > Cap)
      <4>1. got'[c] <= Cap /\ got'[c] <= size'[c]
        BY <3>1, <3>2, <3>6
      <4> QED  BY <3>1, <3>4, <3>6, <4>1 DEF FetchTrue
    <3> QED  BY <3>5, <3>6
  <2> QED  BY <1>0, <1>2, <2>1, <2>2, OneFetchMoves DEF FetchTypeOK, Chunk, FetchGoto, race
<1>3. ASSUME NEW c \in Calls, NEW fits \in BOOLEAN, ReplyFetch(c, fits) PROVE FetchInv'
  <2>1. FetchTypeOK'
    BY <1>0, <1>3 DEF FetchTypeOK, Phases, FetchWords, ReplyFetch, AnswerFetch, FetchGoto, race, transfer
  <2>2. /\ size'[c] = size[c] /\ got'[c] = got[c] /\ cut'[c] = cut[c] /\ rung'[c] = rung[c] /\ ended'[c] = ended[c]
        /\ reply'[c] = reply[c] /\ FetchTrue(c) /\ fetching[c] = "read"
        /\ \/ fetching'[c] = "over" /\ answer'[c] = "body"
           \/ fetching'[c] = "writing" /\ answer'[c] = answer[c]
    BY <1>0, <1>3 DEF FetchTypeOK, ReplyFetch, AnswerFetch, FetchGoto, race, transfer
  <2>3. WholeBody(c) /\ answer[c] = "none"
    BY <2>2 DEF FetchTrue
  <2>4. FetchTrue(c)'
    BY <2>2, <2>3 DEF FetchTrue, WholeBody
  <2> QED  BY <1>0, <1>3, <2>1, <2>4, OneFetchMoves DEF FetchTypeOK, ReplyFetch, AnswerFetch, FetchGoto, race, transfer
<1>4. ASSUME NEW c \in Calls, NEW ok \in BOOLEAN, WriteReply(c, ok) PROVE FetchInv'
  <2>1. FetchTypeOK'
    BY <1>0, <1>4 DEF FetchTypeOK, Phases, FetchWords, WriteReply, AnswerFetch, FetchGoto, race, transfer
  <2>2. /\ size'[c] = size[c] /\ got'[c] = got[c] /\ cut'[c] = cut[c] /\ rung'[c] = rung[c] /\ ended'[c] = ended[c]
        /\ reply'[c] = ok /\ FetchTrue(c) /\ fetching[c] = "writing"
        /\ fetching'[c] = "over" /\ answer'[c] = IF ok THEN "ref" ELSE "unavailable"
    BY <1>0, <1>4 DEF FetchTypeOK, WriteReply, AnswerFetch, FetchGoto, race, transfer
  <2>3. WholeBody(c)
    BY <2>2 DEF FetchTrue
  <2>4. FetchTrue(c)'
    BY <2>2, <2>3 DEF FetchTrue, WholeBody
  <2> QED  BY <1>0, <1>4, <2>1, <2>4, OneFetchMoves DEF FetchTypeOK, WriteReply, AnswerFetch, FetchGoto, race, transfer
<1>5. ASSUME NEW c \in Calls, ReadRef(c) PROVE FetchInv'
  <2>1. FetchTypeOK'
    BY <1>0, <1>5 DEF FetchTypeOK, Phases, FetchWords, ReadRef, AnswerFetch, FetchGoto, race, transfer
  <2>2. /\ size'[c] = size[c] /\ got'[c] = got[c] /\ cut'[c] = cut[c] /\ rung'[c] = rung[c] /\ ended'[c] = ended[c]
        /\ reply'[c] = reply[c] /\ FetchTrue(c) /\ fetching[c] = "reading" /\ size[c] \in Nat
        /\ \/ fetching'[c] = "over" /\ answer'[c] = "invalid"
           \/ fetching'[c] = "fetching" /\ answer'[c] = answer[c]
    BY <1>0, <1>5 DEF FetchTypeOK, ReadRef, AnswerFetch, FetchGoto, race, transfer
  <2>5. got[c] = 0 /\ ~cut[c] /\ got[c] <= Cap
    BY <2>2 DEF FetchTrue
  <2>6. answer[c] = "none"
    BY <2>2 DEF FetchTrue
  <2>3. got[c] = 0 /\ answer[c] = "none" /\ ~cut[c] /\ got[c] <= Cap /\ got[c] <= size[c]
    BY <2>2, <2>5, <2>6
  <2>4. FetchTrue(c)'
    BY <2>2, <2>3 DEF FetchTrue, WholeBody
  <2> QED  BY <1>0, <1>5, <2>1, <2>4, OneFetchMoves DEF FetchTypeOK, ReadRef, AnswerFetch, FetchGoto, race, transfer
<1>9. ASSUME NEW c \in Calls, Throw(c) PROVE FetchInv'
  <2>1. FetchTypeOK'
    BY <1>0, <1>9 DEF FetchTypeOK, Phases, FetchWords, Throw, AnswerFetch, FetchGoto, race, transfer
  <2>2. /\ size'[c] = size[c] /\ got'[c] = got[c] /\ cut'[c] = cut[c] /\ rung'[c] = rung[c] /\ ended'[c] = ended[c]
        /\ reply'[c] = reply[c] /\ fetching'[c] = "over"
        /\ answer'[c] = (IF ended[c] THEN "cancelled" ELSE IF rung[c] THEN "timed out" ELSE "network")
    BY <1>0, <1>9 DEF FetchTypeOK, Throw, AnswerFetch, FetchGoto, race, transfer
  <2>4. FetchTrue(c)'
    BY <2>2 DEF FetchTrue
  <2> QED  BY <1>0, <1>9, <2>1, <2>4, OneFetchMoves DEF FetchTypeOK, Throw, AnswerFetch, FetchGoto, race, transfer
<1>6. ASSUME NEW c \in Calls, EndOfBody(c) PROVE FetchInv'
  <2>1. FetchTypeOK'
    BY <1>0, <1>6 DEF FetchTypeOK, Phases, FetchWords, EndOfBody, FetchGoto, race, transfer
  <2>2. /\ fetching'[c] = "read" /\ got'[c] = got[c] /\ size'[c] = size[c] /\ cut'[c] = cut[c] /\ UNCHANGED <<rung, ended, answer, reply>>
        /\ got[c] \in Nat /\ Cap \in Nat /\ cut[c] \in BOOLEAN
    BY <1>0, <1>6 DEF FetchTypeOK, EndOfBody, FetchGoto, race, transfer
  <2>3. got[c] = size[c] /\ got[c] <= Cap /\ ~cut[c] /\ answer[c] = "none"
    BY <1>0, <1>6 DEF FetchTypeOK, EndOfBody, FetchTrue
  <2>4. FetchTrue(c)'
    BY <2>2, <2>3 DEF FetchTrue, WholeBody
  <2> QED  BY <1>0, <1>6, <2>1, <2>4, OneFetchMoves DEF FetchTypeOK, EndOfBody, FetchGoto, race, transfer
<1>8. ASSUME NEW c \in Calls, Unstage(c) PROVE FetchInv'
  <2>1. UNCHANGED <<fetching, size, got, cut, rung, ended, answer, reply>>
    BY <1>8 DEF Unstage, transfer, race
  <2>2. FetchTypeOK'
    BY <1>0, <1>8, <2>1 DEF FetchTypeOK, Unstage
  <2>3. \A d \in Calls : FetchTrue(d)'
    BY <1>0, <2>1 DEF FetchTrue, WholeBody
  <2> QED  BY <2>2, <2>3 DEF FetchInv
<1>7. ASSUME NEW c \in Calls, Ring(c) \/ CancelFetch(c) PROVE FetchInv'
  <2>1. FetchTypeOK'
    BY <1>0, <1>7 DEF FetchTypeOK, Phases, FetchWords, Ring, CancelFetch, race, transfer
  <2>2. FetchTrue(c)'
    BY <1>0, <1>7, <2>1 DEF FetchTypeOK, Ring, CancelFetch, race, transfer, FetchTrue, WholeBody
  <2> QED  BY <1>0, <1>7, <2>1, <2>2, OneFetchMoves DEF FetchTypeOK, Ring, CancelFetch, race, transfer
<1> QED  BY <1>1, <1>2, <1>3, <1>4, <1>5, <1>6, <1>7, <1>8, <1>9 DEF FetchNext

LEMMA FetchHolds == ASSUME FetchAssumption PROVE FetchSpec => [](FetchInv /\ FetchHonest)
<1>1. FetchInit => FetchInv
  BY DEF FetchInit, FetchInv, FetchTypeOK, FetchTrue, WholeBody, Phases, FetchWords, FetchAssumption
<1>2. ASSUME FetchInv, [FetchNext]_fetchVars PROVE FetchInv'
  <2>1. CASE UNCHANGED fetchVars
    BY <1>2, <2>1 DEF fetchVars, FetchInv, FetchTypeOK, FetchTrue, WholeBody
  <2> QED  BY <1>2, <2>1, FetchSteps
<1>3. FetchInv => FetchHonest
  BY DEF FetchInv, FetchTrue, WholeBody, FetchHonest
<1> QED  BY <1>1, <1>2, <1>3, PTL DEF FetchSpec

----------------------------------------------------------------------------
(* The guest's other calls.                                                *)

AskRecords ==
  [step : {"idle", "new", "reading", "asking", "writing", "over"}, method : Methods \cup {"none"}, number : Nat,
   answer : {"none", "ok", "ref", "dataPlane", "invalid", "unavailable", "resource", "busy", "foreground"}]

DeskTypeOK ==
  /\ ask \in [Asks -> AskRecords] /\ acts \in [Asks -> Nat]
  /\ anonWindows \in Nat /\ asked \in Nat

\* Calls are numbered in the order they come.
NumbersApart ==
  \A c \in Asks : ask[c].step # "idle" =>
    ask[c].number <= asked /\ \A d \in Asks \ {c} : ask[d].step # "idle" => ask[d].number # ask[c].number

\* What was done of a call at each step, and where its result is.
DeedsTrue(c) ==
  /\ ask[c].step \in {"idle", "new", "reading", "asking"} => acts[c] = 0
  /\ ask[c].step = "writing" => acts[c] = 1
  /\ ask[c].step = "over" =>
       /\ acts[c] = (IF ask[c].answer \in {"ok", "ref", "dataPlane"} THEN 1 ELSE 0)
       /\ ask[c].answer = "ref" => ask[c].number \in DOMAIN results /\ results[ask[c].number] = ask[c].number

\* This machine's nameless windows lie under the numbers it gave.
NamelessTrue == \A n \in nameless : \E id \in DOMAIN webs : id \in 1 .. anonWindows /\ webs[id] = n

DeskInv == DeskTypeOK /\ NumbersApart /\ (\A c \in Asks : DeedsTrue(c)) /\ NamelessTrue

----------------------------------------------------------------------------
\* A call goes on: it keeps its number, its result is nobody else's.
LEMMA AskMoves ==
  ASSUME DeskInv, NEW c \in Asks, ask[c].step # "idle", NEW k \in AskRecords, k.number = ask[c].number, k.step # "idle",
         ask' = [ask EXCEPT ![c] = k], acts' \in [Asks -> Nat], \A d \in Asks \ {c} : acts'[d] = acts[d],
         results' = results \/ results' = With(results, ask[c].number, ask[c].number),
         DeedsTrue(c)', UNCHANGED asked, anonWindows' \in Nat, NamelessTrue'
  PROVE  DeskInv'
<1>0. /\ ask' \in [Asks -> AskRecords] /\ asked' = asked /\ asked \in Nat /\ ask'[c] = k
      /\ \A d \in Asks \ {c} : ask'[d] = ask[d]
  BY DEF DeskInv, DeskTypeOK
<1>1. DeskTypeOK' /\ NumbersApart'
  <2>1. DeskTypeOK'
    BY <1>0 DEF DeskTypeOK
  <2>2. \A d \in Asks : ask'[d].number = ask[d].number /\ (ask'[d].step # "idle" => ask[d].step # "idle")
    BY <1>0
  <2>3. NumbersApart
    BY DEF DeskInv
  <2> QED BY <1>0, <2>1, <2>2, <2>3 DEF NumbersApart
<1>2. ASSUME NEW d \in Asks \ {c} PROVE DeedsTrue(d)'
  <2>1. ask'[d] = ask[d] /\ acts'[d] = acts[d] /\ DeedsTrue(d)
    BY DEF DeskInv, DeskTypeOK
  <2>2. ask[d].step # "idle" => ask[d].number # ask[c].number
    BY DEF DeskInv, NumbersApart
  <2>3. ASSUME ask[d].step = "over", ask[d].answer = "ref"
        PROVE  ask[d].number \in DOMAIN results' /\ results'[ask[d].number] = ask[d].number
    BY <2>1, <2>2, <2>3 DEF DeedsTrue, With
  <2> QED  BY <2>1, <2>3 DEF DeedsTrue
<1> QED  BY <1>1, <1>2 DEF DeskInv

\* A call is refused, goes on to its next step, or is done and answered.
LEMMA AskSteps ==
  ASSUME DeskInv, NEW c \in Asks, ask[c].step \in {"new", "reading", "asking"},
         UNCHANGED <<results, asked>>, anonWindows' \in Nat, NamelessTrue',
         \/ \E why \in {"invalid", "unavailable", "resource", "busy", "foreground"} : Deny(c, why)
         \/ \E step \in {"reading", "asking"} : Proceed(c, step)
         \/ Grant(c)
         \/ Do(c) /\ ask' = [ask EXCEPT ![c].step = "writing"]
  PROVE  DeskInv'
<1>0. ask[c] \in AskRecords /\ ask \in [Asks -> AskRecords] /\ acts \in [Asks -> Nat] /\ acts[c] = 0
  BY DEF DeskInv, DeskTypeOK, DeedsTrue
<1>1. ASSUME NEW why \in {"invalid", "unavailable", "resource", "busy", "foreground"}, Deny(c, why) PROVE DeskInv'
  <2> DEFINE k == [ask[c] EXCEPT !.step = "over", !.answer = why]
  <2>1. k \in AskRecords /\ k.step = "over" /\ k.answer = why /\ k.number = ask[c].number
    BY <1>0 DEF AskRecords
  <2>2. ask' = [ask EXCEPT ![c] = k] /\ acts' = acts
    BY <1>0, <1>1 DEF Deny
  <2> HIDE DEF k
  <2>3. DeedsTrue(c)'
    BY <1>0, <2>1, <2>2 DEF DeedsTrue
  <2> QED  BY <1>0, <2>1, <2>2, <2>3, AskMoves
<1>2. ASSUME NEW step \in {"reading", "asking"}, Proceed(c, step) PROVE DeskInv'
  <2> DEFINE k == [ask[c] EXCEPT !.step = step]
  <2>1. k \in AskRecords /\ k.step = step /\ k.number = ask[c].number
    BY <1>0 DEF AskRecords
  <2>2. ask' = [ask EXCEPT ![c] = k] /\ acts' = acts
    BY <1>0, <1>2 DEF Proceed
  <2> HIDE DEF k
  <2>3. DeedsTrue(c)'
    BY <1>0, <2>1, <2>2 DEF DeedsTrue
  <2> QED  BY <1>0, <2>1, <2>2, <2>3, AskMoves
<1>3. CASE Grant(c)
  <2> DEFINE k == [ask[c] EXCEPT !.step = "over", !.answer = "ok"]
  <2>1. k \in AskRecords /\ k.step = "over" /\ k.answer = "ok" /\ k.number = ask[c].number
    BY <1>0 DEF AskRecords
  <2>2. ask' = [ask EXCEPT ![c] = k] /\ acts' = [acts EXCEPT ![c] = acts[c] + 1]
    BY <1>0, <1>3 DEF Grant, Do
  <2> HIDE DEF k
  <2>3. DeedsTrue(c)'
    BY <1>0, <2>1, <2>2 DEF DeedsTrue
  <2>4. acts' \in [Asks -> Nat] /\ \A d \in Asks \ {c} : acts'[d] = acts[d]
    BY <1>0, <2>2
  <2> QED  BY <1>0, <2>1, <2>2, <2>3, <2>4, AskMoves
<1>4. CASE Do(c) /\ ask' = [ask EXCEPT ![c].step = "writing"]
  <2> DEFINE k == [ask[c] EXCEPT !.step = "writing"]
  <2>1. k \in AskRecords /\ k.step = "writing" /\ k.number = ask[c].number
    BY <1>0 DEF AskRecords
  <2>2. ask' = [ask EXCEPT ![c] = k] /\ acts' = [acts EXCEPT ![c] = acts[c] + 1]
    BY <1>0, <1>4 DEF Do
  <2> HIDE DEF k
  <2>3. DeedsTrue(c)'
    BY <1>0, <2>1, <2>2 DEF DeedsTrue
  <2>4. acts' \in [Asks -> Nat] /\ \A d \in Asks \ {c} : acts'[d] = acts[d]
    BY <1>0, <2>2
  <2> QED  BY <1>0, <2>1, <2>2, <2>3, <2>4, AskMoves
<1> QED  BY <1>1, <1>2, <1>3, <1>4

\* What leaves the windows alone keeps them.
LEMMA DeskStays == NamelessTrue /\ UNCHANGED desk => NamelessTrue'
  BY DEF NamelessTrue, desk

\* A window that goes takes its number with it.
LEMMA WindowGoes ==
  ASSUME NamelessTrue, NEW id \in DOMAIN webs, Leave(id)
  PROVE  NamelessTrue'
<1>1. ASSUME NEW n \in nameless' PROVE \E j \in DOMAIN webs' : j \in 1 .. anonWindows' /\ webs'[j] = n
  <2>1. n \in nameless /\ n # webs[id] /\ anonWindows' = anonWindows
    BY <1>1 DEF Leave
  <2>2. PICK j \in DOMAIN webs : j \in 1 .. anonWindows /\ webs[j] = n
    BY <2>1 DEF NamelessTrue
  <2>3. j \in DOMAIN webs' /\ webs'[j] = n
    BY <2>1, <2>2 DEF Leave, Lacking
  <2> QED  BY <2>1, <2>2, <2>3
<1> QED  BY <1>1 DEF NamelessTrue

\* A window of an app or of a fresh number covers no nameless one.
LEMMA WindowComes ==
  ASSUME DeskInv, HostCallsAssumption, NEW c \in Asks, NEW app \in WebApps \cup {"none"}, NEW bundle, Show(c, app, bundle)
  PROVE  NamelessTrue' /\ anonWindows' \in Nat
<1> DEFINE id == IF app = "none" THEN anonWindows + 1 ELSE app
<1>0. anonWindows \in Nat /\ NamelessTrue /\ (app # "none" => app \notin Nat)
  BY DEF DeskInv, DeskTypeOK, HostCallsAssumption
<1>1. CASE UNCHANGED <<webs, nameless>>
  <2>1. anonWindows' \in Nat /\ anonWindows' >= anonWindows
    BY <1>0 DEF Show, desk
  <2> QED  BY <1>0, <1>1, <2>1 DEF NamelessTrue
<1>2. CASE /\ webs' = With(webs, id, ask[c].number) /\ anonWindows' = (IF app = "none" THEN id ELSE anonWindows)
           /\ nameless' = IF app = "none" THEN nameless \cup {ask[c].number} ELSE nameless
  <2>1. anonWindows' \in Nat /\ anonWindows' >= anonWindows
    BY <1>0, <1>2
  <2>2. id \notin 1 .. anonWindows /\ id \in DOMAIN webs' /\ webs'[id] = ask[c].number
    BY <1>0, <1>2 DEF With
  <2>3. ASSUME NEW n \in nameless PROVE \E j \in DOMAIN webs' : j \in 1 .. anonWindows' /\ webs'[j] = n
    <3>1. PICK j \in DOMAIN webs : j \in 1 .. anonWindows /\ webs[j] = n
      BY <1>0 DEF NamelessTrue
    <3>2. j \in DOMAIN webs' /\ webs'[j] = n
      BY <1>2, <2>2, <3>1 DEF With
    <3> QED  BY <1>0, <2>1, <3>1, <3>2
  <2>4. app = "none" => id \in 1 .. anonWindows'
    BY <1>0, <1>2
  <2> HIDE DEF id
  <2> QED  BY <1>2, <2>1, <2>2, <2>3, <2>4 DEF NamelessTrue
<1> QED  BY <1>1, <1>2 DEF Show, desk

\* A call that comes.
LEMMA FirstAsk ==
  ASSUME NEW m, NEW n
  PROVE  [NoAsk EXCEPT !.step = "new", !.method = m, !.number = n] = [step |-> "new", method |-> m, number |-> n, answer |-> "none"]
<1> DEFINE one == [step |-> "new", method |-> "none", number |-> 0, answer |-> "none"]
<1> DEFINE two == [step |-> "new", method |-> m, number |-> 0, answer |-> "none"]
<1>1. [NoAsk EXCEPT !.step = "new"] = one
  BY DEF NoAsk
<1>2. [one EXCEPT !.method = m] = two
  OBVIOUS
<1>3. [two EXCEPT !.number = n] = [step |-> "new", method |-> m, number |-> n, answer |-> "none"]
  OBVIOUS
<1>4. [NoAsk EXCEPT !.step = "new", !.method = m, !.number = n] = [[[NoAsk EXCEPT !.step = "new"] EXCEPT !.method = m] EXCEPT !.number = n]
  OBVIOUS
<1> HIDE DEF one, two
<1> QED  BY <1>1, <1>2, <1>3, <1>4

LEMMA DeskNextKeeps ==
  ASSUME DeskInv, HostCallsAssumption, AskNext
  PROVE  DeskInv'
<1>0. DeskTypeOK /\ NumbersApart /\ (\A c \in Asks : DeedsTrue(c)) /\ NamelessTrue /\ anonWindows \in Nat
  BY DEF DeskInv, DeskTypeOK
<1>1. CASE Restart
  <2>1. NoAsk \in AskRecords
    BY DEF NoAsk, AskRecords
  <2>2. DeskTypeOK'
    BY <1>0, <1>1, <2>1 DEF Restart, DeskTypeOK
  <2>3. NumbersApart' /\ NamelessTrue' /\ \A c \in Asks : DeedsTrue(c)'
    BY <1>1 DEF Restart, NumbersApart, NamelessTrue, DeedsTrue, NoAsk
  <2> QED  BY <2>2, <2>3 DEF DeskInv
<1>2. ASSUME NEW id, PersonCloses(id) PROVE DeskInv'
  <2>1. NamelessTrue' /\ anonWindows' = anonWindows
    BY <1>0, <1>2, WindowGoes DEF PersonCloses, Leave
  <2> QED  BY <1>0, <1>2, <2>1 DEF PersonCloses, DeskInv, DeskTypeOK, NumbersApart, DeedsTrue
<1>3. ASSUME NEW c \in Asks, NEW m \in Methods, Ask(c, m) PROVE DeskInv'
  <2> DEFINE k == [step |-> "new", method |-> m, number |-> asked + 1, answer |-> "none"]
  <2>1. k \in AskRecords /\ k.step = "new" /\ k.number = asked + 1
    BY <1>0 DEF AskRecords, DeskTypeOK
  <2>0. asked' = asked + 1 /\ acts' = [acts EXCEPT ![c] = 0] /\ UNCHANGED <<results, desk>>
        /\ ask' = [ask EXCEPT ![c] = [NoAsk EXCEPT !.step = "new", !.method = m, !.number = asked']]
    BY <1>3 DEF Ask
  <2>7. [NoAsk EXCEPT !.step = "new", !.method = m, !.number = asked'] = k
    BY <2>0, FirstAsk
  <2>2. ask' = [ask EXCEPT ![c] = k] /\ acts' = [acts EXCEPT ![c] = 0] /\ asked' = asked + 1 /\ UNCHANGED <<results, desk>>
    BY <2>0, <2>7
  <2> HIDE DEF k
  <2>3. DeskTypeOK'
    BY <1>0, <2>1, <2>2 DEF DeskTypeOK, desk
  <2>4. NumbersApart'
    BY <1>0, <2>1, <2>2 DEF DeskTypeOK, AskRecords, NumbersApart
  <2>5. \A d \in Asks : DeedsTrue(d)'
    BY <1>0, <2>1, <2>2 DEF DeskTypeOK, DeedsTrue
  <2> QED  BY <1>0, <2>2, <2>3, <2>4, <2>5, DeskStays DEF DeskInv
<1>4. ASSUME NEW c \in Asks, NEW app \in WebApps \cup {"none"}, NEW bundle, Show(c, app, bundle) PROVE DeskInv'
  <2>1. NamelessTrue' /\ anonWindows' \in Nat
    BY <1>4, WindowComes
  <2>2. ask[c].step = "reading" /\ UNCHANGED <<results, asked>>
    BY <1>4 DEF Show, Is
  <2>3. Deny(c, "resource") \/ Deny(c, "unavailable") \/ Grant(c)
    BY <1>4 DEF Show
  <2> QED  BY <2>1, <2>2, <2>3, AskSteps
<1>5. ASSUME NEW c \in Asks, NEW id, NEW there \in BOOLEAN, CloseWindow(c, id, there) PROVE DeskInv'
  <2>1. NamelessTrue' /\ anonWindows' \in Nat
    BY <1>0, <1>5, WindowGoes, DeskStays DEF CloseWindow, Leave, desk
  <2>2. ask[c].step = "new" /\ UNCHANGED <<results, asked>> /\ (Deny(c, "unavailable") \/ Grant(c))
    BY <1>5 DEF CloseWindow, Is
  <2> QED  BY <2>1, <2>2, AskSteps
<1>6. ASSUME NEW c \in Asks, NEW there \in BOOLEAN, NEW valid \in BOOLEAN, NEW bundle,
             NEW verdict \in {"ok", "busy", "foreground", "unavailable"},
             \/ Create(c, there, valid) \/ PostNotice(c, there, valid) \/ BeginAsk(c, there, valid) \/ Open(c, valid)
             \/ HandOver(c, bundle, there) \/ Brokered(c, verdict) \/ Told(c, there) \/ NotTold(c)
      PROVE  DeskInv'
  <2>1. UNCHANGED <<results, desk, asked>> /\ ask[c].step \in {"new", "reading", "asking"}
    BY <1>6 DEF Create, PostNotice, BeginAsk, Open, HandOver, Brokered, Told, NotTold, Is
  <2>2. NamelessTrue' /\ anonWindows' \in Nat
    BY <1>0, <2>1, DeskStays DEF desk
  <2>3. Wanted(there, valid) \in {"ok", "invalid", "unavailable"}
    BY DEF Wanted
  <2>4. \/ \E why \in {"invalid", "unavailable", "resource", "busy", "foreground"} : Deny(c, why)
        \/ \E step \in {"reading", "asking"} : Proceed(c, step)
        \/ Grant(c)
        \/ Do(c) /\ ask' = [ask EXCEPT ![c].step = "writing"]
    BY <1>6, <2>3 DEF Create, PostNotice, BeginAsk, Open, HandOver, Brokered, Told, NotTold
  <2> QED  BY <2>1, <2>2, <2>4, AskSteps
<1>7. ASSUME NEW c \in Asks, NEW ok \in BOOLEAN, WriteRef(c, ok) PROVE DeskInv'
  <2> DEFINE k == [ask[c] EXCEPT !.step = "over", !.answer = IF ok THEN "ref" ELSE "dataPlane"]
  <2>0. ask[c] \in AskRecords /\ acts \in [Asks -> Nat] /\ acts[c] = 1 /\ acts' = acts /\ UNCHANGED <<desk, asked>>
    BY <1>0, <1>7 DEF DeskTypeOK, WriteRef, DeedsTrue
  <2>1. k \in AskRecords /\ k.step = "over" /\ k.answer = (IF ok THEN "ref" ELSE "dataPlane") /\ k.number = ask[c].number
    BY <2>0 DEF AskRecords
  <2>2. ask' = [ask EXCEPT ![c] = k] /\ ask'[c] = k
    BY <1>0, <1>7 DEF WriteRef, DeskTypeOK
  <2> HIDE DEF k
  <2>3. results' = IF ok THEN With(results, ask[c].number, ask[c].number) ELSE results
    BY <1>7 DEF WriteRef, ResultName
  <2>4. DeedsTrue(c)'
    BY <2>0, <2>1, <2>2, <2>3 DEF DeedsTrue, With
  <2>5. NamelessTrue' /\ anonWindows' \in Nat
    BY <1>0, <2>0, DeskStays DEF desk
  <2> QED  BY <1>7, <2>0, <2>1, <2>2, <2>3, <2>4, <2>5, AskMoves DEF WriteRef
<1>8. ASSUME NEW c \in Asks, Take(c) PROVE DeskInv'
  <2>1. NoAsk \in AskRecords /\ NoAsk.step = "idle"
    BY DEF NoAsk, AskRecords
  <2>2. /\ ask' = [ask EXCEPT ![c] = NoAsk] /\ acts' = [acts EXCEPT ![c] = 0] /\ UNCHANGED <<desk, asked>>
        /\ ask[c].step = "over" /\ results' \in {results, Lacking(results, ask[c].number)}
    BY <1>8 DEF Take, ResultName
  <2>3. DeskTypeOK'
    BY <1>0, <2>1, <2>2 DEF DeskTypeOK, desk
  <2>4. NumbersApart'
    BY <1>0, <2>1, <2>2 DEF DeskTypeOK, NumbersApart
  <2>5. ASSUME NEW d \in Asks PROVE DeedsTrue(d)'
    <3>1. CASE d = c
      BY <1>0, <2>1, <2>2, <3>1 DEF DeskTypeOK, DeedsTrue
    <3>2. CASE d # c
      <4>1. ask'[d] = ask[d] /\ acts'[d] = acts[d] /\ DeedsTrue(d)
        BY <1>0, <2>2, <3>2 DEF DeskTypeOK
      <4>2. ask[d].step # "idle" => ask[d].number # ask[c].number
        BY <1>0, <2>2, <3>2 DEF NumbersApart
      <4> QED  BY <2>2, <4>1, <4>2 DEF DeedsTrue, Lacking
    <3> QED  BY <3>1, <3>2
  <2> QED  BY <1>0, <2>2, <2>3, <2>4, <2>5, DeskStays DEF DeskInv
<1>9. {"ok", "busy", "foreground", "unavailable"} # {} /\ BOOLEAN # {}
  OBVIOUS
<1> QED  BY <1>1, <1>2, <1>3, <1>4, <1>5, <1>6, <1>7, <1>8 DEF AskNext

LEMMA DeskHolds == ASSUME HostCallsAssumption PROVE AskSpec => []DeskHonest
<1>1. AskInit => DeskInv
  <2>1. NoAsk \in AskRecords
    BY DEF NoAsk, AskRecords
  <2> QED  BY <2>1 DEF AskInit, DeskInv, DeskTypeOK, NumbersApart, DeedsTrue, NamelessTrue, NoAsk
<1>2. ASSUME DeskInv, [AskNext]_askVars PROVE DeskInv'
  <2>1. CASE UNCHANGED askVars
    BY <1>2, <2>1 DEF askVars, DeskInv, DeskTypeOK, NumbersApart, DeedsTrue, NamelessTrue
  <2> QED  BY <1>2, <2>1, DeskNextKeeps
<1>3. DeskInv => DeskHonest
  BY DEF DeskInv, DeedsTrue, NamelessTrue, DeskHonest, ResultName
<1> QED  BY <1>1, <1>2, <1>3, PTL DEF AskSpec

\* Every answer the guest gets is so (hostcall.ts), for any number of calls,
\* fetches, bodies, windows and restarts of the machine.
THEOREM HostKeepsItsWord ==
  ASSUME FetchAssumption, HostCallsAssumption
  PROVE  FetchSpec /\ AskSpec => []CallsHonest
<1>1. FetchHonest /\ DeskHonest => CallsHonest
  BY DEF CallsHonest
<1> QED  BY <1>1, FetchHolds, DeskHolds, PTL
=============================================================================
