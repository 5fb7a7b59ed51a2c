----------------------------- MODULE Page_proofs -----------------------------
(***************************************************************************)
(* Parts of the page whose invariants hold for any number of requests,     *)
(* packages, boots, windows, commands, ports, consoles and presses: what   *)
(* is installed, the machine, the order of the windows, the commands run   *)
(* in the machine, its consoles, what is around it, /data/apps, the screen. *)
(***************************************************************************)
EXTENDS Apps, Consoles, Gear, Market, RunShell, Screen, VmLifecycle, Windows,
        FiniteSetTheorems, SequenceTheorems, TLAPS

----------------------------------------------------------------------------
(* What is installed is what a request parked, and that is what its own     *)
(* index named; it is the request's own unless another parked after it.     *)

Steps == {"idle", "index", "entry", "download", "park", "install", "import", "over"}
Answers == {"none", "ok", "unreachable", "not there", "mismatch", "digest", "refused", "machine off"}
Parcels == [bytes : Int, kind : Kinds \cup {"none"}, names : Int]
Records == [step : Steps, kind : Kinds \cup {"none"}, name : Packages \cup {"none"},
            names : Int, bytes : Int, answer : Answers, got : Parcels, after : {"none", "another"}]
Versions == [Packages -> Int]

MarketTypeOK ==
  /\ request \in [Requests -> Records]
  /\ hub \in Versions /\ park \in [Packages -> Parcels]
  /\ cached \in [{"app", "skill"} -> [index : Versions, fresh : BOOLEAN]]
  /\ \A r \in Requests : request[r].step # "idle" => request[r].name \in Packages

\* What may be parked under a name.
Fits(p, k, names, amount) ==
  /\ k \in Parked
  /\ k = "app" => p \notin Foreign /\ (p \in Digested => amount = names)

\* What a request parks or has parked.
Carried(q) == [bytes |-> q.bytes, kind |-> q.kind, names |-> q.names]

\* What a request is good for, wherever it is on its way.
Sound(q) ==
  /\ q.step \in {"park", "install"} => Fits(q.name, q.kind, q.names, q.bytes)
  /\ q.step = "import" => q.kind \notin Parked
  /\ q.step \in {"download", "park", "install", "import"} /\ q.kind \in {"app", "skill"} => q.name \notin Foreign
  /\ q.step = "over" /\ q.answer = "ok" =>
       /\ q.kind \in {"app", "skill"} => q.name \notin Foreign
       /\ q.kind \in Parked => Fits(q.name, q.got.kind, q.got.names, q.got.bytes)
       /\ q.kind \in Parked /\ q.after = "none" => q.got = Carried(q)

\* Whatever is parked fits, and is the last one's that parked there.
ParkFits == \A p \in Packages : park[p] = Nothing \/ Fits(p, park[p].kind, park[p].names, park[p].bytes)

Owns(q) == q.step = "install" /\ q.after = "none" => park[q.name] \in {Nothing, Carried(q)}
OwnPark == \A r \in Requests : Owns(request[r])

\* One request's record becomes q.
Becomes(r, q) ==
  /\ request' = [s \in Requests |-> request'[s]]
  /\ request'[r] = q /\ \A s \in Requests : s # r => request'[s] = request[s]

MarketInv == MarketTypeOK /\ (\A r \in Requests : Sound(request[r])) /\ ParkFits /\ OwnPark

----------------------------------------------------------------------------
\* A request that moves on without parking.
LEMMA MovesOn ==
  ASSUME MarketInv, NEW r \in Requests, NEW q \in Records,
         Becomes(r, q), park' = park, hub' \in Versions,
         cached' \in [{"app", "skill"} -> [index : Versions, fresh : BOOLEAN]],
         Sound(q), q.step # "install", q.step # "idle" => q.name \in Packages
  PROVE  MarketInv'
<1>1. \A s \in Requests : request'[s] = IF s = r THEN q ELSE request[s]
  BY DEF Becomes
<1>2. MarketTypeOK'
  <2>1. request' \in [Requests -> Records]
    BY <1>1 DEF Becomes, MarketInv, MarketTypeOK
  <2> QED BY <1>1, <2>1 DEF MarketInv, MarketTypeOK
<1>3. \A s \in Requests : Sound(request'[s])
  BY <1>1 DEF MarketInv
<1>4. ParkFits'
  BY DEF MarketInv, ParkFits
<1>5. OwnPark'
  <2>1. ASSUME NEW s \in Requests PROVE Owns(request[s])'
    <3>1. CASE s = r
      BY <1>1, <3>1 DEF Owns
    <3>2. CASE s # r
      BY <1>1, <3>2 DEF MarketInv, OwnPark, Owns
    <3> QED BY <3>1, <3>2
  <2> QED BY <2>1 DEF OwnPark
<1> QED BY <1>2, <1>3, <1>4, <1>5 DEF MarketInv

\* A request that is answered, the answer being true of it.
LEMMA AnswerKeeps ==
  ASSUME MarketInv, NEW r \in Requests, NEW what \in Answers, request' = Answer(r, what),
         park' = park, hub' = hub, cached' = cached, request[r].step # "idle",
         what = "ok" => request[r].kind \notin Parked /\ (request[r].kind \in {"app", "skill"} => request[r].name \notin Foreign)
  PROVE  MarketInv'
<1> DEFINE o == request[r]
           q == [step |-> "over", kind |-> o.kind, name |-> o.name, names |-> o.names, bytes |-> o.bytes,
                 answer |-> what, got |-> o.got, after |-> o.after]
<1>1. o \in Records /\ o.name \in Packages
  BY DEF MarketInv, MarketTypeOK
<1>2. Becomes(r, q)
  BY <1>1 DEF Becomes, Answer, Records, MarketInv, MarketTypeOK
<1>3. q \in Records
  BY <1>1 DEF Records, Steps
<1>4. Sound(q)
  BY <1>1 DEF Sound
<1> QED BY <1>1, <1>2, <1>3, <1>4, MovesOn DEF MarketInv, MarketTypeOK

LEMMA AskKeeps ==
  ASSUME MarketInv, NEW r \in Requests, NEW sort \in Kinds, NEW p \in Packages, Ask(r, sort, p)
  PROVE  MarketInv'
<1> DEFINE step == CASE sort \in Listed -> "index" [] sort \in Links -> "download" [] OTHER -> "park"
           q == [step |-> step, kind |-> sort, name |-> p, names |-> 0, bytes |-> 0, answer |-> "none",
                 got |-> Nothing, after |-> "none"]
<1>1. step \in Steps /\ (step = "park" => sort = "file") /\ (step = "download" => sort \in Links)
      /\ step \in {"index", "download", "park"}
  BY DEF Kinds, Listed, Links, Steps
<1>2. [Idle EXCEPT !.kind = sort, !.name = p, !.step = step] = q
  <2> HIDE DEF step
  <2> DEFINE a == [Idle EXCEPT !.kind = sort]
             b == [a EXCEPT !.name = p]
             c == [b EXCEPT !.step = step]
  <2>1. a = [step |-> "idle", kind |-> sort, name |-> "none", names |-> 0, bytes |-> 0, answer |-> "none",
             got |-> Nothing, after |-> "none"]
    BY DEF Idle
  <2> HIDE DEF a
  <2>2. b = [step |-> "idle", kind |-> sort, name |-> p, names |-> 0, bytes |-> 0, answer |-> "none",
             got |-> Nothing, after |-> "none"]
    BY <2>1
  <2> HIDE DEF b
  <2>3. c = q
    BY <2>2
  <2> HIDE DEF c, q
  <2>4. [Idle EXCEPT !.kind = sort, !.name = p, !.step = step] = c
    BY Zenon DEF a, b, c
  <2> QED BY <2>3, <2>4
<1>4. request' = [request EXCEPT ![r] = q] /\ UNCHANGED <<park, hub, cached>>
  BY <1>2 DEF Ask
<1> HIDE DEF step
<1>3. q \in Records
  <2>1. Nothing \in Parcels
    BY DEF Nothing, Parcels, Absent
  <2> QED BY <1>1, <2>1 DEF Records, Answers
<1>5. Sound(q) /\ q.step # "install" /\ q.name \in Packages
  BY <1>1 DEF Sound, Parked, Links, Fits
<1>6. Becomes(r, q)
  <2> HIDE DEF q
  <2> QED BY <1>4 DEF Becomes, MarketInv, MarketTypeOK
<1> HIDE DEF q
<1> QED BY <1>3, <1>4, <1>5, <1>6, MovesOn DEF MarketInv, MarketTypeOK

LEMMA ParkKeeps ==
  ASSUME MarketInv, NEW r \in Requests, Park(r)
  PROVE  MarketInv'
<1>1. request[r] \in Records /\ request[r].step = "park" /\ request[r].name \in Packages
      /\ Fits(request[r].name, request[r].kind, request[r].names, request[r].bytes)
  BY DEF Park, At, MarketInv, MarketTypeOK, Sound
<1>2. CASE upVm
  <2> DEFINE p == request[r].name
             c == Carried(request[r])
             q == [request[r] EXCEPT !.step = "install"]
  <2>1. /\ park' = [park EXCEPT ![p] = c]
        /\ request' = [s \in Requests |->
               IF s = r THEN q
               ELSE IF request[s].step = "install" /\ request[s].name = p THEN [request[s] EXCEPT !.after = "another"]
               ELSE request[s]]
        /\ UNCHANGED <<hub, cached>>
    BY <1>2 DEF Park, Parcel, Carried, At
  <2>2. q \in Records /\ q.step = "install" /\ q.name = p /\ Carried(q) = c /\ q.kind = request[r].kind
        /\ q.names = request[r].names /\ q.bytes = request[r].bytes
    BY <1>1 DEF Records, Steps, Carried
  <2>3. Sound(q)
    BY <1>1, <2>2 DEF Sound, MarketInv
  <2> HIDE DEF q
  <2>4. c \in Parcels /\ c.kind = request[r].kind /\ c.names = request[r].names /\ c.bytes = request[r].bytes
    BY <1>1 DEF Carried, Parcels, Records
  <2> HIDE DEF c
  <2>5. /\ park' \in [Packages -> Parcels] /\ park'[p] = c
        /\ \A o \in Packages \ {p} : park'[o] = park[o]
    BY <1>1, <2>1, <2>4 DEF MarketInv, MarketTypeOK
  <2>6. ASSUME NEW s \in Requests
        PROVE  /\ request'[s] \in Records /\ Sound(request'[s]) /\ Owns(request[s])'
               /\ request'[s].step # "idle" => request'[s].name \in Packages
    <3>1. CASE s = r
      BY <1>1, <2>1, <2>2, <2>3, <2>5, <3>1 DEF Owns
    <3>2. CASE s # r /\ request[s].step = "install" /\ request[s].name = p
      <4> DEFINE t == [request[s] EXCEPT !.after = "another"]
      <4>1. request'[s] = t
        BY <2>1, <3>2
      <4>2. request[s] \in Records /\ Sound(request[s])
        BY DEF MarketInv, MarketTypeOK
      <4>3. t \in Records /\ t.step = "install" /\ t.name = p /\ t.after = "another" /\ t.kind = request[s].kind
            /\ t.names = request[s].names /\ t.bytes = request[s].bytes
        BY <3>2, <4>2 DEF Records
      <4> HIDE DEF t
      <4>4. Sound(t)
        BY <3>2, <4>2, <4>3 DEF Sound
      <4>5. Owns(request[s])'
        BY <4>1, <4>3 DEF Owns
      <4> QED BY <1>1, <4>1, <4>3, <4>4, <4>5
    <3>3. CASE s # r /\ ~(request[s].step = "install" /\ request[s].name = p)
      <4>1. request'[s] = request[s]
        BY <2>1, <3>3
      <4>2. request[s].step = "install" => request[s].name \in Packages \ {p}
        BY <3>3 DEF MarketInv, MarketTypeOK
      <4>3. Owns(request[s])'
        BY <2>5, <4>1, <4>2 DEF Owns, MarketInv, OwnPark
      <4> QED BY <4>1, <4>3 DEF MarketInv, MarketTypeOK
    <3> QED BY <3>1, <3>2, <3>3
  <2>7. MarketTypeOK'
    <3>1. request' \in [Requests -> Records]
      BY <2>1, <2>6
    <3> QED BY <2>1, <2>5, <2>6, <3>1 DEF MarketInv, MarketTypeOK
  <2>8. ParkFits'
    BY <1>1, <2>4, <2>5 DEF MarketInv, ParkFits
  <2> QED BY <2>6, <2>7, <2>8 DEF MarketInv, OwnPark
<1>3. CASE ~upVm
  <2>1. request' = Answer(r, "machine off") /\ UNCHANGED <<park, hub, cached>>
    BY <1>3 DEF Park
  <2>2. "machine off" \in Answers /\ "machine off" # "ok" /\ request[r].step # "idle"
    BY <1>1 DEF Answers
  <2> QED BY <2>1, <2>2, AnswerKeeps
<1> QED BY <1>2, <1>3

LEMMA InstallKeeps ==
  ASSUME MarketInv, NEW r \in Requests, Install(r)
  PROVE  MarketInv'
<1> DEFINE o == request[r]
           got == park[o.name]
<1>1. o \in Records /\ o.step = "install" /\ o.name \in Packages /\ Sound(o) /\ Owns(o) /\ got \in Parcels
  BY DEF Install, At, MarketInv, MarketTypeOK, OwnPark
<1>2. UNCHANGED <<hub, cached, park>>
  BY DEF Install
<1>3. CASE upVm /\ got # Nothing
  <2> DEFINE q == [step |-> "over", kind |-> o.kind, name |-> o.name, names |-> o.names,
                   bytes |-> o.bytes, answer |-> "ok", got |-> got, after |-> o.after]
  <2>1. request' = [request EXCEPT ![r].step = "over", ![r].answer = "ok", ![r].got = got]
    BY <1>3 DEF Install
  <2>2. Becomes(r, q)
    <3> HIDE DEF got
    <3> QED BY <1>1, <2>1 DEF Becomes, Records, MarketInv, MarketTypeOK
  <2>3. q \in Records
    BY <1>1 DEF Records, Steps, Answers
  <2>4. /\ q.step = "over" /\ q.kind = o.kind /\ q.name = o.name /\ q.got = got /\ q.after = o.after
        /\ Carried(q) = Carried(o)
    BY DEF Carried
  <2>5. Fits(o.name, got.kind, got.names, got.bytes)
    BY <1>1, <1>3 DEF MarketInv, ParkFits
  <2>6. o.after = "none" => got = Carried(o)
    BY <1>1, <1>3 DEF Owns
  <2> HIDE DEF q, got
  <2>7. Sound(q)
    BY <1>1, <2>4, <2>5, <2>6 DEF Sound
  <2> QED BY <1>1, <1>2, <2>2, <2>3, <2>4, <2>7, MovesOn DEF MarketInv, MarketTypeOK
<1>4. CASE ~(upVm /\ got # Nothing)
  <2>1. \E what \in {"refused", "machine off"} : request' = Answer(r, what)
    BY <1>4 DEF Install
  <2> QED BY <1>1, <1>2, <2>1, AnswerKeeps DEF Answers
<1> QED BY <1>3, <1>4

\* A request on its way with what its entry names and the bytes it has.
OnItsWay(o, step, names, amount) ==
  [step |-> step, kind |-> o.kind, name |-> o.name, names |-> names, bytes |-> amount, answer |-> o.answer,
   got |-> o.got, after |-> o.after]

\* What it brings to the park fits.
LEMMA StepKeeps ==
  ASSUME MarketInv, NEW r \in Requests, NEW step \in {"entry", "download", "park", "import"},
         NEW names \in Int, NEW amount \in Int, Becomes(r, OnItsWay(request[r], step, names, amount)),
         request[r].step \in {"index", "entry", "download"}, UNCHANGED <<hub, park>>,
         cached' \in [{"app", "skill"} -> [index : Versions, fresh : BOOLEAN]],
         step \in {"download", "park", "import"} /\ request[r].kind \in {"app", "skill"} => request[r].name \notin Foreign,
         step = "park" => request[r].kind \in Parked,
         step = "park" /\ request[r].kind = "app" /\ request[r].name \in Digested => amount = names,
         step = "import" => request[r].kind \notin Parked
  PROVE  MarketInv'
<1> DEFINE o == request[r]
           q == OnItsWay(o, step, names, amount)
<1>1. o \in Records /\ o.name \in Packages
  BY DEF MarketInv, MarketTypeOK
<1>2. q \in Records
  BY <1>1 DEF OnItsWay, Records, Steps
<1>3. Sound(q)
  BY <1>1 DEF OnItsWay, Sound, Fits
<1>4. q.name \in Packages /\ q.step # "install"
  BY <1>1 DEF OnItsWay
<1>5. hub' \in Versions /\ park' = park /\ Becomes(r, q)
  BY DEF MarketInv, MarketTypeOK
<1> HIDE DEF q
<1> QED BY <1>2, <1>3, <1>4, <1>5, MovesOn

LEMMA IndexKeeps ==
  ASSUME MarketInv, NEW r \in Requests, NEW m \in {"app", "skill"}, NEW reachable \in BOOLEAN,
         Index(r, m, "entry", reachable)
  PROVE  MarketInv'
<1> DEFINE o == request[r]
<1>1. o \in Records /\ o.step = "index" /\ o.name \in Packages /\ UNCHANGED <<hub, park>>
  BY DEF Index, At, MarketInv, MarketTypeOK
<1>2. CASE cached[m].fresh
  <2>1. cached[m].index[o.name] \in Int /\ cached' = cached
    BY <1>1, <1>2 DEF Index, MarketInv, MarketTypeOK, Versions
  <2>2. Becomes(r, OnItsWay(o, "entry", cached[m].index[o.name], o.bytes))
    BY <1>1, <1>2 DEF Becomes, OnItsWay, Index, Records, MarketInv, MarketTypeOK
  <2> QED BY <1>1, <2>1, <2>2, StepKeeps DEF Records, MarketInv, MarketTypeOK
<1>3. CASE ~cached[m].fresh /\ ~reachable
  <2>1. request' = Answer(r, "unreachable") /\ cached' = cached
    BY <1>3 DEF Index
  <2> QED BY <1>1, <2>1, AnswerKeeps DEF Answers
<1>4. CASE ~cached[m].fresh /\ reachable
  <2>1. hub[o.name] \in Int
    BY <1>1 DEF MarketInv, MarketTypeOK, Versions
  <2>2. cached' \in [{"app", "skill"} -> [index : Versions, fresh : BOOLEAN]]
    <3>1. [index |-> hub, fresh |-> TRUE] \in [index : Versions, fresh : BOOLEAN]
      BY DEF MarketInv, MarketTypeOK
    <3>2. cached' = [cached EXCEPT ![m] = [index |-> hub, fresh |-> TRUE]]
      BY <1>4 DEF Index
    <3> QED BY <3>1, <3>2 DEF MarketInv, MarketTypeOK
  <2>3. Becomes(r, OnItsWay(o, "entry", hub[o.name], o.bytes))
    BY <1>1, <1>4 DEF Becomes, OnItsWay, Index, Records, MarketInv, MarketTypeOK
  <2> QED BY <1>1, <2>1, <2>2, <2>3, StepKeeps DEF Records
<1> QED BY <1>2, <1>3, <1>4

\* An entry of either market, looked up in an index that leaves out or marks
\* what is meant for another runtime.
LEMMA EntryKeeps ==
  ASSUME MarketInv, NEW r \in Requests, AppEntry(r) \/ SkillEntry(r)
  PROVE  MarketInv'
<1> DEFINE o == request[r]
<1>1. o \in Records /\ o.step = "entry" /\ o.name \in Packages /\ UNCHANGED <<hub, park, cached>>
      /\ o.kind \in {"app", "skill", "preview"}
  BY DEF AppEntry, SkillEntry, At, Wants, MarketInv, MarketTypeOK
<1>2. \/ \E what \in {"not there", "mismatch"} : request' = Answer(r, what)
      \/ request' = Step(r, "download") /\ (o.kind \in {"app", "skill"} => o.name \notin Foreign)
  BY DEF AppEntry, SkillEntry, Wants
<1>3. CASE \E what \in {"not there", "mismatch"} : request' = Answer(r, what)
  BY <1>1, <1>3, AnswerKeeps DEF Answers
<1>4. CASE request' = Step(r, "download") /\ (o.kind \in {"app", "skill"} => o.name \notin Foreign)
  <2>1. Becomes(r, OnItsWay(o, "download", o.names, o.bytes))
    BY <1>1, <1>4 DEF Becomes, OnItsWay, Step, Records, MarketInv, MarketTypeOK
  <2> QED BY <1>1, <1>4, <2>1, StepKeeps DEF Records, MarketInv, MarketTypeOK
<1> QED BY <1>2, <1>3, <1>4

\* The bytes arrive, for any market or link; an app's against its digest.
LEMMA DownloadKeeps ==
  ASSUME MarketInv, NEW r \in Requests, NEW version \in Int,
         AppDownload(r, version) \/ SkillDownload(r, version) \/ AppLink(r, version) \/ SkillLink(r, version)
  PROVE  MarketInv'
<1> DEFINE o == request[r]
<1>1. o \in Records /\ o.step = "download" /\ o.name \in Packages /\ UNCHANGED <<hub, park, cached>>
      /\ (o.kind \in {"app", "skill"} => o.name \notin Foreign)
  BY DEF AppDownload, SkillDownload, AppLink, SkillLink, At, MarketInv, MarketTypeOK, Sound
<1>2. \/ request' = Answer(r, "digest")
      \/ \E step \in {"park", "import"} :
           /\ request' = Here(r, version, step)
           /\ step = "park" => o.kind \in Parked
           /\ step = "park" /\ o.kind = "app" /\ o.name \in Digested => version = o.names
           /\ step = "import" => o.kind \notin Parked
  BY DEF AppDownload, SkillDownload, AppLink, SkillLink, Wants, Matches, Parked
<1>3. CASE request' = Answer(r, "digest")
  BY <1>1, <1>3, AnswerKeeps DEF Answers
<1>4. ASSUME NEW step \in {"park", "import"}, request' = Here(r, version, step),
             step = "park" => o.kind \in Parked,
             step = "park" /\ o.kind = "app" /\ o.name \in Digested => version = o.names,
             step = "import" => o.kind \notin Parked
      PROVE  MarketInv'
  <2>1. Becomes(r, OnItsWay(o, step, o.names, version))
    BY <1>1, <1>4 DEF Becomes, OnItsWay, Here, Records, MarketInv, MarketTypeOK
  <2> QED BY <1>1, <1>4, <2>1, StepKeeps DEF Records, MarketInv, MarketTypeOK
<1> QED BY <1>2, <1>3, <1>4

LEMMA InitHolds ==
  ASSUME MarketInit
  PROVE  MarketInv
<1>1. Nothing \in Parcels
  BY DEF Nothing, Parcels, Absent
<1>2. Idle \in Records /\ Sound(Idle) /\ Idle.step = "idle"
  BY <1>1 DEF Idle, Records, Steps, Answers, Sound
<1>3. \A r \in Requests : request[r] = Idle
  BY DEF MarketInit
<1>4. Unknown \in Versions /\ hub \in Versions /\ park \in [Packages -> Parcels]
  BY <1>1 DEF MarketInit, Unknown, Absent, Versions, Empty
<1>5. cached \in [{"app", "skill"} -> [index : Versions, fresh : BOOLEAN]]
  BY <1>4 DEF MarketInit
<1>6. MarketTypeOK
  BY <1>2, <1>3, <1>4, <1>5 DEF MarketInit, MarketTypeOK
<1>7. ParkFits /\ OwnPark
  BY <1>2, <1>3 DEF ParkFits, OwnPark, Owns, MarketInit, Empty
<1> QED BY <1>2, <1>3, <1>6, <1>7 DEF MarketInv

\* What happens meanwhile touches no request, and takes back what is parked.
LEMMA MeanwhileKeeps ==
  ASSUME MarketInv, request' = request, park' = park \/ park' = Empty, hub' \in Versions,
         cached' \in [{"app", "skill"} -> [index : Versions, fresh : BOOLEAN]]
  PROVE  MarketInv'
<1>1. Empty \in [Packages -> Parcels] /\ \A p \in Packages : Empty[p] = Nothing
  BY DEF Empty, Nothing, Parcels, Absent
<1>2. MarketTypeOK' /\ \A r \in Requests : Sound(request'[r])
  BY <1>1 DEF MarketInv, MarketTypeOK
<1>3. ParkFits'
  BY <1>1 DEF MarketInv, ParkFits
<1>4. ASSUME NEW r \in Requests PROVE Owns(request[r])'
  BY <1>1 DEF MarketInv, OwnPark, Owns, MarketTypeOK
<1> QED BY <1>2, <1>3, <1>4 DEF MarketInv, OwnPark

LEMMA ImportKeeps ==
  ASSUME MarketInv, NEW r \in Requests, NEW ok \in BOOLEAN, Import(r, ok)
  PROVE  MarketInv'
<1>1. request[r].step = "import" /\ UNCHANGED <<hub, park, cached>>
      /\ \E what \in {"ok", "refused"} : request' = Answer(r, what)
  BY DEF Import, At
<1>2. request[r].kind \notin Parked /\ (request[r].kind \in {"app", "skill"} => request[r].name \notin Foreign)
  BY <1>1 DEF MarketInv, Sound
<1> QED BY <1>1, <1>2, AnswerKeeps DEF Answers

LEMMA DoneKeeps ==
  ASSUME MarketInv, NEW r \in Requests, Done(r)
  PROVE  MarketInv'
<1>1. Idle \in Records /\ Sound(Idle) /\ Idle.step = "idle"
  <2>1. Nothing \in Parcels
    BY DEF Nothing, Parcels, Absent
  <2> QED BY <2>1 DEF Idle, Records, Steps, Answers, Sound
<1>2. Becomes(r, Idle)
  BY DEF Becomes, Done, MarketInv, MarketTypeOK
<1> QED BY <1>1, <1>2, MovesOn DEF Done, MarketInv, MarketTypeOK

\* What is installed under a name some request parked there: the version its own
\* index named, never what is meant for another runtime, and the asker's own bytes
\* unless another parked there after it (vmAppInstall, shim.ts).
THEOREM MarketKeepsItsWord == MarketSpec => []InstalledAsNamed
<1>1. MarketInit => MarketInv
  BY InitHolds
<1>2. MarketInv /\ [MarketNext]_marketVars => MarketInv'
  <2> SUFFICES ASSUME MarketInv, [MarketNext]_marketVars PROVE MarketInv'
    OBVIOUS
  <2>1. ASSUME NEW r \in Requests, NEW sort \in Kinds, NEW p \in Packages, Ask(r, sort, p) PROVE MarketInv'
    BY <2>1, AskKeeps
  <2>2. ASSUME NEW r \in Requests, NEW ok \in BOOLEAN, AppIndex(r, ok) \/ SkillIndex(r, ok) PROVE MarketInv'
    BY <2>2, IndexKeeps DEF AppIndex, SkillIndex
  <2>3. ASSUME NEW r \in Requests, NEW ok \in BOOLEAN, Import(r, ok) PROVE MarketInv'
    BY <2>3, ImportKeeps
  <2>4. ASSUME NEW r \in Requests, NEW version \in 0 .. MaxVersion,
               AppDownload(r, version) \/ SkillDownload(r, version) \/ AppLink(r, version) \/ SkillLink(r, version)
        PROVE  MarketInv'
    BY <2>4, DownloadKeeps
  <2>5. ASSUME NEW r \in Requests, AppEntry(r) \/ SkillEntry(r) PROVE MarketInv'
    BY <2>5, EntryKeeps
  <2>6. ASSUME NEW r \in Requests, NotThere(r) PROVE MarketInv'
    <3>1. request' = Answer(r, "unreachable") /\ UNCHANGED <<hub, park, cached>> /\ request[r].step # "idle"
      BY <2>6 DEF NotThere, At
    <3> QED BY <3>1, AnswerKeeps DEF Answers
  <2>7. ASSUME NEW r \in Requests, Park(r) \/ Install(r) \/ Done(r) PROVE MarketInv'
    BY <2>7, ParkKeeps, InstallKeeps, DoneKeeps
  <2>8. CASE Power
    BY <2>8, MeanwhileKeeps DEF Power, MarketInv, MarketTypeOK
  <2>9. ASSUME NEW m \in {"app", "skill"}, Age(m) PROVE MarketInv'
    <3>1. cached' \in [{"app", "skill"} -> [index : Versions, fresh : BOOLEAN]]
      BY <2>9 DEF Age, MarketInv, MarketTypeOK
    <3> QED BY <2>9, <3>1, MeanwhileKeeps DEF Age, MarketInv, MarketTypeOK
  <2>10. ASSUME NEW p \in Packages, Publish(p) PROVE MarketInv'
    <3>1. hub' \in Versions
      BY <2>10 DEF Publish, MarketInv, MarketTypeOK, Versions
    <3> QED BY <2>10, <3>1, MeanwhileKeeps DEF Publish, MarketInv, MarketTypeOK
  <2>11. ASSUME NEW p \in Packages, Remove(p) PROVE MarketInv'
    BY <2>11, MeanwhileKeeps DEF Remove, MarketInv, MarketTypeOK
  <2>12. CASE UNCHANGED marketVars
    BY <2>12, MeanwhileKeeps DEF marketVars, MarketInv, MarketTypeOK
  <2> QED BY <2>1, <2>2, <2>3, <2>4, <2>5, <2>6, <2>7, <2>8, <2>9, <2>10, <2>11, <2>12 DEF MarketNext
<1>3. MarketInv => InstalledAsNamed
  <2> SUFFICES ASSUME MarketInv, NEW r \in Requests, request[r].step = "over", request[r].answer = "ok"
               PROVE  /\ request[r].kind \in {"app", "skill"} => request[r].name \notin Foreign
                      /\ request[r].kind \in Parked =>
                           /\ Fits(request[r].name, request[r].got.kind, request[r].got.names, request[r].got.bytes)
                           /\ request[r].after = "none" => request[r].got = Parcel(r)
    BY DEF InstalledAsNamed, At, Wants, Fits
  <2>1. Parcel(r) = Carried(request[r])
    BY DEF Parcel, Carried
  <2>2. Sound(request[r])
    BY DEF MarketInv
  <2>3. request[r].kind \in {"app", "skill"} => request[r].name \notin Foreign
    BY <2>2 DEF Sound, Fits
  <2>4. request[r].kind \in Parked =>
          Fits(request[r].name, request[r].got.kind, request[r].got.names, request[r].got.bytes)
    BY <2>2 DEF Sound, Fits
  <2>5. request[r].kind \in Parked /\ request[r].after = "none" => request[r].got = Carried(request[r])
    BY <2>2 DEF Sound, Fits
  <2> QED BY <2>1, <2>3, <2>4, <2>5
<1> QED BY <1>1, <1>2, <1>3, PTL DEF MarketSpec

----------------------------------------------------------------------------
(* One machine, but for boots that ran side by side.                         *)

Under(b) == pc[b] \notin Over
BootPoints == {"none", "import", "dtr", "hello", "probe", "done", "failed"}

\* Boots are numbered as they begin, and two that are under way at a time are
\* known to have crossed.
BegunInOrder == \E n \in 0 .. MaxBoot : Begun = 1 .. n
SideBySide == \A a, b \in Boots : Under(a) /\ Under(b) /\ a # b => a \in abreast
CrossedTrue == \A b \in abreast \cup stopped : pc[b] # "none"

\* A boot under way that met no other is the machine's, unless the machine was
\* switched off; one that was stopped is not the machine's.
UnderWayTrue ==
  /\ \A b \in Boots \ abreast : Under(b) =>
       \/ /\ status = "booting" /\ booting = b
          /\ IF IsAt(b, "import") THEN emulator = 0 ELSE rpc = b /\ emulator = b
       \/ status = "off"
  /\ status = "booting" => Under(booting)
  /\ \A b \in stopped \ abreast : Under(b) => status = "off"

\* The machine's link and emulator are of one boot, and an attached link is the
\* machine's, or of a boot that failed or crossed another.
LinksTrue ==
  /\ \A l \in Boots : link[l] # "idle" => l = rpc \/ l \in abandoned \cup abreast
  /\ rpc # 0 => rpc \in abandoned \cup abreast \/ (status \in {"booting", "ready"} /\ booting = rpc)
  /\ emulator # 0 => emulator = rpc /\ (emulator \in abreast \/ booting = emulator)
  /\ status = "off" => rpc = 0

VmInv ==
  /\ VmTypeOK /\ BegunInOrder /\ SideBySide /\ CrossedTrue /\ UnderWayTrue /\ LinksTrue
  /\ ReadyAnswers /\ OneMachine

LEMMA VmStarts == ASSUME VmAssumption, VmInit PROVE VmInv
<1>1. Begun = 1 .. 0
  BY DEF VmInit, Begun
<1>2. BegunInOrder
  BY <1>1 DEF BegunInOrder, VmAssumption
<1>3. VmTypeOK
  <2>1. MaxBoot \in Nat
    BY DEF VmAssumption
  <2>2. lastBootError \in BOOLEAN /\ flush \in BOOLEAN
    BY DEF VmInit
  <2>3. {booting, emulator, rpc} \subseteq 0 .. MaxBoot /\ session \in [Boots -> 0 .. MaxBoot] /\ waits \in [Needs -> 0 .. MaxBoot]
    BY <2>1 DEF VmInit
  <2>4. alive \subseteq Boots /\ stopped \subseteq Boots /\ power \in {"none", "on", "off"}
        /\ abreast \subseteq Boots /\ abandoned \subseteq 0 .. MaxBoot
    BY DEF VmInit
  <2>5. pc \in [Boots -> BootPoints] /\ link \in [Boots -> {"idle", "hello", "up"}]
        /\ guest \in [Boots -> {"dark", "held", "serving"}]
        /\ need \in [Needs -> {"none", "waits", "met", "refused"}]
    BY DEF VmInit, BootPoints
  <2>6. (booting # 0 <=> status \in {"booting", "ready"}) /\ status \in {"off", "booting", "ready", "failed"}
    BY DEF VmInit
  <2> QED BY <2>2, <2>3, <2>4, <2>5, <2>6 DEF VmTypeOK, BootPoints
<1>4. SideBySide /\ CrossedTrue /\ UnderWayTrue /\ LinksTrue
  BY DEF VmInit, SideBySide, CrossedTrue, UnderWayTrue, LinksTrue, Under, Over, IsAt
<1> QED BY <1>2, <1>3, <1>4 DEF VmInit, VmInv, ReadyAnswers, OneMachine

\* A boot that has begun goes on.
LEMMA GoesOn ==
  ASSUME VmInv, NEW b \in Boots, NEW w \in BootPoints \ {"none"}, pc[b] # "none", GoTo(b, w)
  PROVE  /\ pc' \in [Boots -> BootPoints]
         /\ pc'[b] = w /\ \A a \in Boots : a # b => pc'[a] = pc[a]
         /\ BegunInOrder'
<1>1. pc' \in [Boots -> BootPoints] /\ pc'[b] = w /\ \A a \in Boots : a # b => pc'[a] = pc[a]
  BY DEF VmInv, VmTypeOK, GoTo, BootPoints
<1>2. Begun' = Begun
  BY <1>1 DEF Begun, BootPoints
<1> QED BY <1>1, <1>2 DEF VmInv, BegunInOrder

\* What the history says of the others stays true of a boot that goes on.
LEMMA GoesOnBeside ==
  ASSUME VmInv, NEW b \in Boots, Under(b), NEW w \in BootPoints \ {"none"}, GoTo(b, w), abreast' = abreast, stopped' = stopped
  PROVE  SideBySide' /\ CrossedTrue'
<1>1. pc'[b] = w /\ \A a \in Boots : a # b => pc'[a] = pc[a]
  BY GoesOn DEF Under, Over
<1> QED BY <1>1 DEF VmInv, VmTypeOK, SideBySide, CrossedTrue, Under, BootPoints

LEMMA ConstructKeeps == ASSUME VmAssumption, VmInv, NEW b \in Boots, Construct(b) PROVE VmInv'
<1>0. IsAt(b, "import") /\ Under(b) /\ GoTo(b, "dtr") /\ "dtr" \in BootPoints \ {"none"} /\ pc[b] # "none"
  BY DEF Construct, IsAt, Under, Over, BootPoints
<1>1. /\ pc' \in [Boots -> BootPoints]
      /\ pc'[b] = "dtr" /\ \A a \in Boots : a # b => pc'[a] = pc[a]
      /\ BegunInOrder'
  BY <1>0, GoesOn
<1>2. /\ emulator' = b /\ rpc' = b /\ alive' = alive \cup {b} /\ status = "booting"
      /\ UNCHANGED <<status, booting, lastBootError, link, guest, session, power, flush, need, waits, stopped, abreast, abandoned>>
  BY DEF Construct, StillWanted, asked, vmHistory
<1>3. b # 0 /\ b \in 0 .. MaxBoot /\ booting \in Boots /\ Under(booting)
  BY <1>2, VmAssumption DEF VmInv, VmTypeOK, UnderWayTrue, Boots, VmAssumption
<1>4. b \in abreast \/ booting = b
  BY <1>0, <1>3 DEF VmInv, SideBySide
<1>5. booting \in abreast \/ booting = b
  BY <1>0, <1>3 DEF VmInv, SideBySide
<1>6. rpc # 0 => rpc \in abandoned \cup abreast \/ rpc = b
  BY <1>5 DEF VmInv, LinksTrue
<1>7. VmTypeOK'
  BY <1>1, <1>2, <1>3 DEF VmInv, VmTypeOK, BootPoints
<1>8. SideBySide' /\ CrossedTrue'
  BY <1>0, <1>2, GoesOnBeside
<1>9. UnderWayTrue'
  <2>1. \A a \in Boots \ abreast : Under(a) => a = booting
    BY <1>2 DEF VmInv, UnderWayTrue
  <2>2. ASSUME NEW a \in Boots \ abreast, Under(a)' PROVE a = b /\ booting = b
    <3>1. Under(a)
      BY <1>0, <1>1, <2>2 DEF Under
    <3> QED BY <1>5, <2>1, <3>1
  <2>3. Under(booting)'
    BY <1>1, <1>2, <1>3 DEF Under, Over
  <2>4. ASSUME NEW a \in stopped \ abreast, Under(a)' PROVE FALSE
    <3>1. a \in Boots /\ Under(a)
      BY <1>0, <1>1, <2>4 DEF Under, VmInv, VmTypeOK
    <3> QED BY <1>2, <2>4, <3>1 DEF VmInv, UnderWayTrue
  <2>5. ~IsAt(b, "import")'
    BY <1>1 DEF IsAt
  <2> QED BY <1>2, <2>2, <2>3, <2>4, <2>5 DEF UnderWayTrue
<1>10. LinksTrue'
  <2>1. ASSUME NEW l \in Boots, link[l] # "idle" PROVE l = b \/ l \in abandoned \cup abreast
    BY <1>3, <1>6, <2>1 DEF VmInv, LinksTrue, Boots
  <2> QED BY <1>2, <1>4, <2>1 DEF LinksTrue
<1>11. ReadyAnswers'
  BY <1>2 DEF ReadyAnswers
<1>12. OneMachine'
  <2>1. emulator # 0 => emulator \in abreast \/ emulator = b
    BY <1>5 DEF VmInv, LinksTrue
  <2>2. alive \subseteq Boots /\ 0 \notin Boots
    BY DEF VmInv, VmTypeOK, Boots
  <2> QED BY <1>2, <1>3, <2>1, <2>2 DEF VmInv, OneMachine
<1> QED BY <1>1, <1>7, <1>8, <1>9, <1>10, <1>11, <1>12 DEF VmInv

LEMMA FailKeeps == ASSUME VmAssumption, VmInv, NEW b \in Boots, Under(b), Fail(b) PROVE VmInv'
<1>0. GoTo(b, "failed") /\ "failed" \in BootPoints \ {"none"} /\ pc[b] # "none"
  BY DEF Fail, BootPoints, Under, Over
<1>1. /\ pc' \in [Boots -> BootPoints]
      /\ pc'[b] = "failed" /\ \A a \in Boots : a # b => pc'[a] = pc[a]
      /\ BegunInOrder'
  BY <1>0, GoesOn
<1>2. UNCHANGED <<rpc, link, guest, session, power, flush, need, waits, stopped, abreast>> /\ booting' = 0
  BY DEF Fail, asked
<1>3. \/ /\ status = "off" /\ emulator = 0 /\ UNCHANGED <<status, emulator, alive, lastBootError, abandoned>>
      \/ /\ ~(status = "off" /\ emulator = 0) /\ status' = "failed" /\ lastBootError' = TRUE
         /\ alive' = alive \ {emulator} /\ emulator' = 0 /\ abandoned' = abandoned \cup {rpc}
  BY DEF Fail, OffMeanwhile
<1>4. emulator' = 0 /\ status' \in {"off", "failed"} /\ abandoned \subseteq abandoned' /\ alive' \subseteq alive
  BY <1>3
<1>5. status # "off" => status' = "failed" /\ abandoned' = abandoned \cup {rpc}
  BY <1>3
<1>6. status = "off" => emulator = 0
  BY DEF VmInv, OneMachine
<1>7. VmTypeOK'
  <2>1. MaxBoot \in Nat
    BY DEF VmAssumption
  <2>2. lastBootError' \in BOOLEAN
    BY <1>3 DEF VmInv, VmTypeOK
  <2>3. abandoned' \subseteq 0 .. MaxBoot /\ alive' \subseteq Boots
    BY <1>3 DEF VmInv, VmTypeOK
  <2> QED BY <1>1, <1>2, <1>4, <2>1, <2>2, <2>3 DEF VmInv, VmTypeOK, BootPoints
<1>8. SideBySide' /\ CrossedTrue'
  BY <1>0, <1>2, GoesOnBeside
<1>9. UnderWayTrue'
  <2>1. ASSUME NEW a \in Boots \ abreast, Under(a)' PROVE status' = "off"
    <3>1. a # b /\ Under(a)
      BY <1>1, <2>1 DEF Under, Over
    <3> QED BY <2>1, <3>1 DEF VmInv, SideBySide
  <2>2. status' # "booting"
    BY <1>4
  <2>3. stopped \subseteq Boots
    BY DEF VmInv, VmTypeOK
  <2> QED BY <1>2, <2>1, <2>2, <2>3 DEF UnderWayTrue
<1>10. LinksTrue'
  <2>1. rpc # 0 => rpc \in abandoned' \cup abreast
    BY <1>3, <1>5, <1>6 DEF VmInv, LinksTrue
  <2>2. status' = "off" => rpc = 0
    BY <1>3, <1>5 DEF VmInv, LinksTrue
  <2>3. \A l \in Boots : link[l] # "idle" => l = rpc \/ l \in abandoned' \cup abreast
    BY <1>4 DEF VmInv, LinksTrue
  <2> QED BY <1>2, <1>4, <2>1, <2>2, <2>3 DEF LinksTrue
<1>11. ReadyAnswers'
  BY <1>4 DEF ReadyAnswers
<1>12. OneMachine'
  <2>1. alive' \subseteq abreast
    <3>1. alive \subseteq Boots /\ 0 \notin Boots
      BY DEF VmInv, VmTypeOK, Boots
    <3>2. alive \ {emulator} \subseteq abreast
      BY DEF VmInv, OneMachine
    <3> QED BY <1>3, <3>1, <3>2
  <2> QED BY <1>2, <1>4, <2>1 DEF OneMachine
<1> QED BY <1>1, <1>7, <1>8, <1>9, <1>10, <1>11, <1>12 DEF VmInv

LEMMA AttachKeeps == ASSUME VmInv, NEW b \in Boots, Attach(b) \/ SessionIsUp(b) PROVE VmInv'
<1>1. PICK w \in {"hello", "probe"} : GoTo(b, w)
  BY DEF Attach, SessionIsUp
<1>0. w \in BootPoints \ {"none"} /\ Under(b) /\ pc[b] # "none" /\ ~IsAt(b, "import") /\ rpc # 0
  BY DEF Attach, SessionIsUp, IsAt, BootPoints, Under, Over
<1>2. /\ pc' \in [Boots -> BootPoints]
      /\ pc'[b] = w /\ \A a \in Boots : a # b => pc'[a] = pc[a]
      /\ BegunInOrder'
  BY <1>0, <1>1, GoesOn
<1>3. rpc \in Boots
  BY <1>0 DEF VmInv, VmTypeOK, Boots
<1>4. link' \in [Boots -> {"idle", "hello", "up"}] /\ \A l \in Boots : l # rpc => link'[l] = link[l]
  BY <1>3 DEF VmInv, VmTypeOK, Attach, SessionIsUp
<1>5. UNCHANGED <<status, booting, emulator, rpc, lastBootError, alive, guest, session, power, flush, need, waits,
                  stopped, abreast, abandoned>>
  BY DEF Attach, SessionIsUp, machineState, asked, vmHistory
<1>6. VmTypeOK'
  BY <1>2, <1>4, <1>5 DEF VmInv, VmTypeOK, BootPoints
<1>7. SideBySide' /\ CrossedTrue'
  BY <1>0, <1>1, <1>5, GoesOnBeside
<1>8. UnderWayTrue'
  <2>1. \A a \in Boots : (Under(a)' <=> Under(a)) /\ (IsAt(a, "import")' <=> IsAt(a, "import"))
    BY <1>0, <1>1, <1>2 DEF Under, Over, IsAt
  <2>2. (status = "booting" => booting \in Boots) /\ stopped \subseteq Boots
    BY DEF VmInv, VmTypeOK, Boots
  <2> QED BY <1>5, <2>1, <2>2 DEF VmInv, UnderWayTrue
<1>9. LinksTrue'
  BY <1>4, <1>5 DEF VmInv, LinksTrue
<1>10. ReadyAnswers' /\ OneMachine'
  BY <1>4, <1>5 DEF VmInv, ReadyAnswers, Knocked, OneMachine
<1> QED BY <1>2, <1>6, <1>7, <1>8, <1>9, <1>10 DEF VmInv

LEMMA ReadyKeeps == ASSUME VmInv, NEW b \in Boots, Ready(b) PROVE VmInv'
<1>0. GoTo(b, "done") /\ "done" \in BootPoints \ {"none"} /\ Under(b) /\ pc[b] # "none" /\ ~IsAt(b, "import") /\ ProbeAnswered
  BY DEF Ready, IsAt, BootPoints, Under, Over
<1>1. /\ pc' \in [Boots -> BootPoints]
      /\ pc'[b] = "done" /\ \A a \in Boots : a # b => pc'[a] = pc[a]
      /\ BegunInOrder'
  BY <1>0, GoesOn
<1>2. /\ UNCHANGED <<booting, emulator, rpc, lastBootError, alive, link, guest, session, power, flush, need, waits,
                     stopped, abreast, abandoned>>
      /\ status' = "ready"
  BY DEF Ready, asked, vmHistory
<1>3. emulator # 0 /\ rpc # 0 /\ guest[emulator] = "serving" /\ session[emulator] = rpc
  BY <1>0 DEF ProbeAnswered
<1>4. status \in {"booting", "ready"} /\ booting # 0 /\ rpc = emulator
  BY <1>3 DEF VmInv, VmTypeOK, OneMachine, LinksTrue
<1>5. VmTypeOK'
  BY <1>1, <1>2, <1>4 DEF VmInv, VmTypeOK, BootPoints
<1>6. SideBySide' /\ CrossedTrue'
  BY <1>0, <1>2, GoesOnBeside
<1>7. UnderWayTrue'
  <2>1. ASSUME NEW a \in Boots \ abreast, Under(a)' PROVE FALSE
    <3>1. Under(a) /\ a # b
      BY <1>1, <2>1 DEF Under, Over
    <3> QED BY <1>0, <2>1, <3>1 DEF VmInv, SideBySide
  <2>2. stopped \subseteq Boots
    BY DEF VmInv, VmTypeOK
  <2> QED BY <1>2, <2>1, <2>2 DEF UnderWayTrue
<1>8. LinksTrue'
  BY <1>2, <1>4 DEF VmInv, LinksTrue
<1>9. ReadyAnswers' /\ OneMachine'
  BY <1>2, <1>3, <1>4 DEF VmInv, ReadyAnswers, OneMachine
<1> QED BY <1>1, <1>5, <1>6, <1>7, <1>8, <1>9 DEF VmInv

LEMMA DestroyKeeps ==
  ASSUME VmAssumption, VmInv, Destroy, flush' \in BOOLEAN, UNCHANGED <<asked, abreast, abandoned>>,
         power' \in {"none", "on", "off"},
         stopped' = stopped \/ (status = "booting" /\ stopped' = stopped \cup {booting})
  PROVE  VmInv'
<1>1. status = "booting" => booting \in Boots /\ pc[booting] # "none"
  BY DEF VmInv, VmTypeOK, UnderWayTrue, Under, Over, Boots
<1>2. link' \in [Boots -> {"idle", "hello", "up"}] /\ \A l \in Boots : link'[l] # "idle" => link[l] # "idle" /\ l # rpc
  BY DEF VmInv, VmTypeOK, Destroy
<1>3. alive' = alive \ {emulator} /\ emulator' = 0 /\ rpc' = 0 /\ status' = "off" /\ booting' = 0 /\ pc' = pc
      /\ UNCHANGED <<guest, session, lastBootError, need, waits, abreast, abandoned>>
  BY DEF Destroy, asked
<1>4. stopped' \subseteq Boots
  BY <1>1 DEF VmInv, VmTypeOK
<1>5. VmTypeOK'
  <2>1. MaxBoot \in Nat
    BY DEF VmAssumption
  <2>2. {booting', emulator', rpc'} \subseteq 0 .. MaxBoot /\ alive' \subseteq Boots
    BY <1>3, <2>1 DEF VmInv, VmTypeOK
  <2>3. lastBootError' \in BOOLEAN
    BY <1>3 DEF VmInv, VmTypeOK
  <2> QED BY <1>2, <1>3, <1>4, <2>2, <2>3 DEF VmInv, VmTypeOK
<1>6. BegunInOrder' /\ SideBySide'
  BY <1>3 DEF VmInv, BegunInOrder, SideBySide, Begun, Under
<1>7. CrossedTrue'
  BY <1>1, <1>3 DEF VmInv, CrossedTrue
<1>8. UnderWayTrue' /\ LinksTrue'
  BY <1>2, <1>3 DEF VmInv, UnderWayTrue, LinksTrue
<1>9. ReadyAnswers'
  BY <1>3 DEF ReadyAnswers
<1>10. OneMachine'
  <2>1. alive \subseteq Boots /\ 0 \notin Boots
    BY DEF VmInv, VmTypeOK, Boots
  <2> QED BY <1>3, <2>1 DEF VmInv, OneMachine
<1> QED BY <1>5, <1>6, <1>7, <1>8, <1>9, <1>10 DEF VmInv

LEMMA GuestKeeps == ASSUME VmInv, NEW l \in Boots, Hello(l) \/ LinkLost(l) \/ GuestComesUp(l) PROVE VmInv'
<1>1. UNCHANGED <<status, booting, emulator, rpc, lastBootError, pc, alive, power, flush, need, waits, stopped, abreast, abandoned>>
  BY DEF Hello, LinkLost, GuestComesUp, machineState, asked, vmHistory
<1>2. BegunInOrder' /\ SideBySide' /\ CrossedTrue' /\ UnderWayTrue' /\ OneMachine'
  BY <1>1 DEF VmInv, BegunInOrder, SideBySide, CrossedTrue, UnderWayTrue, OneMachine, Begun, Under, Over, IsAt
<1>3. link' \in [Boots -> {"idle", "hello", "up"}] /\ \A a \in Boots : link'[a] # "idle" <=> link[a] # "idle"
  BY DEF VmInv, VmTypeOK, Hello, LinkLost, GuestComesUp
<1>4. LinksTrue'
  BY <1>1, <1>3 DEF VmInv, LinksTrue
<1>5. emulator # 0 => emulator \in Boots
  BY DEF VmInv, VmTypeOK, Boots
<1>6. session' \in [Boots -> 0 .. MaxBoot] /\ guest' \in [Boots -> {"dark", "held", "serving"}]
  BY <1>5 DEF VmInv, VmTypeOK, Hello, LinkLost, GuestComesUp, Boots
<1>7. VmTypeOK'
  BY <1>1, <1>3, <1>6 DEF VmInv, VmTypeOK
<1>8. status = "ready" => guest'[emulator] = "serving" /\ (session'[emulator] = rpc \/ Knocked')
  <2> SUFFICES ASSUME status = "ready" PROVE guest'[emulator] = "serving" /\ (session'[emulator] = rpc \/ Knocked')
    OBVIOUS
  <2>1. emulator \in Boots /\ guest[emulator] = "serving" /\ (session[emulator] = rpc \/ Knocked)
    BY <1>5 DEF VmInv, ReadyAnswers
  <2>2. Knocked => Knocked'
    BY <1>1, <1>3 DEF Knocked
  <2>3. CASE Hello(l)
    <3>1. guest' = guest /\ link[l] # "idle" /\ session' = [session EXCEPT ![emulator] = l]
      BY <2>3 DEF Hello
    <3>2. l # rpc => Knocked
      BY <3>1 DEF Knocked
    <3>3. session'[emulator] = l
      BY <2>1, <3>1 DEF VmInv, VmTypeOK
    <3> QED BY <2>1, <2>2, <3>1, <3>2, <3>3
  <2>4. CASE LinkLost(l)
    BY <2>1, <2>2, <2>4 DEF LinkLost
  <2>5. CASE GuestComesUp(l)
    <3>1. guest'[emulator] = guest[emulator] /\ session' = session
      BY <2>1, <2>5 DEF GuestComesUp, VmInv, VmTypeOK
    <3> QED BY <2>1, <2>2, <3>1
  <2> QED BY <2>3, <2>4, <2>5
<1>9. ReadyAnswers'
  BY <1>1, <1>8 DEF VmInv, ReadyAnswers
<1> QED BY <1>2, <1>4, <1>7, <1>9 DEF VmInv

\* What a step that leaves the machine alone leaves true.
LEMMA VmStands ==
  ASSUME VmInv, UNCHANGED <<machineState, pc, alive, link, guest, session, vmHistory>>,
         power' \in {"none", "on", "off"}, flush' \in BOOLEAN,
         need' \in [Needs -> {"none", "waits", "met", "refused"}], waits' \in [Needs -> 0 .. MaxBoot]
  PROVE  VmInv'
<1>1. UNCHANGED <<status, booting, emulator, rpc, lastBootError, pc, alive, link, guest, session, stopped, abreast, abandoned>>
  BY DEF machineState, vmHistory
<1>2. VmTypeOK' /\ BegunInOrder'
  BY <1>1 DEF VmInv, VmTypeOK, BegunInOrder, Begun
<1>3. SideBySide' /\ CrossedTrue' /\ UnderWayTrue' /\ LinksTrue'
  BY <1>1 DEF VmInv, SideBySide, CrossedTrue, UnderWayTrue, LinksTrue, Under, IsAt
<1>4. ReadyAnswers' /\ OneMachine'
  BY <1>1 DEF VmInv, ReadyAnswers, Knocked, OneMachine
<1> QED BY <1>2, <1>3, <1>4 DEF VmInv

\* The number a boot that begins now gets.
LEMMA NextBoot ==
  ASSUME VmAssumption, VmInv, Start
  PROVE  /\ booting' \in Boots /\ booting' \in 0 .. MaxBoot /\ booting' # 0 /\ pc[booting'] = "none"
         /\ pc' = [pc EXCEPT ![booting'] = "import"] /\ status' = "booting" /\ lastBootError' = FALSE
         /\ UNCHANGED <<emulator, rpc>>
         /\ abreast' = IF Running = {} THEN abreast ELSE abreast \cup Running \cup {booting'}
         /\ BegunInOrder'
<1>1. PICK n \in 0 .. MaxBoot : Begun = 1 .. n
  BY DEF VmInv, BegunInOrder
<1>2. n \in Int /\ 1 \in Int
  BY <1>1 DEF VmAssumption
<1>3. Cardinality(Begun) = n
  BY <1>1, <1>2, FS_Interval DEF VmAssumption
<1> DEFINE b == n + 1
<1>4. booting' = b /\ status' = "booting" /\ lastBootError' = FALSE /\ pc' = [pc EXCEPT ![b] = "import"]
      /\ UNCHANGED <<emulator, rpc>> /\ n < MaxBoot
      /\ abreast' = IF Running = {} THEN abreast ELSE abreast \cup Running \cup {b}
  BY <1>3 DEF Start, GoTo
<1>5. b \in Boots /\ b # 0 /\ b \notin Begun /\ b \in 0 .. MaxBoot
  BY <1>1, <1>4 DEF Boots, VmAssumption
<1>6. Begun' = 1 .. b
  <2>1. pc' = [a \in Boots |-> IF a = b THEN "import" ELSE pc[a]]
    BY <1>4 DEF VmInv, VmTypeOK
  <2>2. Begun' = Begun \cup {b}
    BY <1>5, <2>1 DEF Begun
  <2>3. 1 .. b = (1 .. n) \cup {b}
    BY <1>1 DEF VmAssumption
  <2> QED BY <1>1, <2>2, <2>3
<1> HIDE DEF b
<1>7. pc[b] = "none"
  BY <1>5 DEF Begun
<1> QED BY <1>4, <1>5, <1>6, <1>7 DEF BegunInOrder

LEMMA BootKeeps ==
  ASSUME VmAssumption, VmInv, Boot, UNCHANGED <<alive, link, guest, session, flush, stopped, abandoned>>,
         power' \in {"none", "on", "off"},
         need' \in [Needs -> {"none", "waits", "met", "refused"}], waits' \in [Needs -> 0 .. MaxBoot]
  PROVE  VmInv'
<1>1. CASE booting # 0
  <2>1. UNCHANGED <<machineState, pc, vmHistory>>
    BY <1>1 DEF Boot, vmHistory
  <2>2. flush' \in BOOLEAN
    BY DEF VmInv, VmTypeOK
  <2> QED BY <2>1, <2>2, VmStands
<1>2. CASE booting = 0
  <2>1. Start
    BY <1>2 DEF Boot
  <2>2. PICK b \in Boots : b = booting'
    BY <2>1, NextBoot
  <2>3. /\ b # 0 /\ b \in 0 .. MaxBoot /\ pc[b] = "none" /\ pc' = [pc EXCEPT ![b] = "import"]
        /\ status' = "booting" /\ lastBootError' = FALSE /\ UNCHANGED <<emulator, rpc>>
        /\ abreast' = IF Running = {} THEN abreast ELSE abreast \cup Running \cup {b}
        /\ BegunInOrder'
    BY <2>1, <2>2, NextBoot
  <2>4. pc' \in [Boots -> BootPoints] /\ pc'[b] = "import" /\ \A a \in Boots : a # b => pc'[a] = pc[a]
    BY <2>3 DEF VmInv, VmTypeOK, BootPoints
  <2>5. status \in {"off", "failed"} /\ emulator = 0
    BY <1>2 DEF VmInv, VmTypeOK, OneMachine
  <2>6. abreast \subseteq abreast' /\ (Running # {} => Running \subseteq abreast' /\ b \in abreast')
        /\ abreast' \subseteq abreast \cup Running \cup {b}
    BY <2>3
  <2>7. \A a \in Boots : Under(a)' => a = b \/ a \in Running
    BY <2>4 DEF Under, Running
  <2>8. VmTypeOK'
    <3>1. lastBootError' \in BOOLEAN /\ flush' \in BOOLEAN /\ abreast' \subseteq Boots
      BY <2>3, <2>6 DEF VmInv, VmTypeOK, Running
    <3>2. {booting', emulator', rpc'} \subseteq 0 .. MaxBoot /\ booting' # 0 /\ status' = "booting"
      BY <2>2, <2>3 DEF VmInv, VmTypeOK
    <3> QED BY <2>4, <3>1, <3>2 DEF VmInv, VmTypeOK, BootPoints
  <2>9. SideBySide'
    BY <2>6, <2>7 DEF SideBySide
  <2>10. CrossedTrue'
    <3>1. \A a \in Running : pc[a] # "none" /\ a \in Boots
      BY DEF Running, Over
    <3>2. stopped \subseteq Boots /\ abreast \subseteq Boots
      BY DEF VmInv, VmTypeOK
    <3>3. \A a \in Boots : pc[a] # "none" => pc'[a] # "none"
      BY <2>3, <2>4
    <3>4. \A a \in abreast \cup stopped : pc[a] # "none"
      BY DEF VmInv, CrossedTrue
    <3>5. pc'[b] # "none"
      BY <2>4
    <3> QED BY <2>6, <3>1, <3>2, <3>3, <3>4, <3>5 DEF CrossedTrue
  <2>11. UnderWayTrue'
    <3>1. ASSUME NEW a \in Boots \ abreast', Under(a)' PROVE a = b
      BY <2>6, <2>7, <3>1
    <3>2. IsAt(b, "import")' /\ Under(b)'
      BY <2>4 DEF IsAt, Under, Over
    <3>3. b \notin stopped
      BY <2>3 DEF VmInv, CrossedTrue
    <3>4. stopped' \subseteq Boots
      BY <2>8 DEF VmTypeOK
    <3> QED BY <2>2, <2>3, <2>5, <3>1, <3>2, <3>3, <3>4 DEF UnderWayTrue
  <2>12. LinksTrue'
    <3>1. rpc # 0 => rpc \in abandoned \cup abreast
      BY <2>5 DEF VmInv, LinksTrue
    <3> QED BY <2>3, <2>5, <2>6, <3>1 DEF VmInv, LinksTrue
  <2>13. ReadyAnswers' /\ OneMachine'
    BY <2>3, <2>5, <2>6 DEF VmInv, ReadyAnswers, OneMachine
  <2> QED BY <2>3, <2>8, <2>9, <2>10, <2>11, <2>12, <2>13 DEF VmInv
<1> QED BY <1>1, <1>2

LEMMA VmStep == ASSUME VmAssumption, VmInv, [VmNext]_vmVars PROVE VmInv'
<1>1. CASE PowerOn \/ LoadLeftOn \/ OpenConsole
  <2>1. /\ Boot /\ UNCHANGED <<alive, link, guest, session, flush, stopped, abandoned>> /\ UNCHANGED <<need, waits>>
        /\ power' \in {power, "on"}
    BY <1>1 DEF PowerOn, LoadLeftOn, OpenConsole, asked
  <2> QED BY <2>1, BootKeeps DEF VmInv, VmTypeOK
<1>2. CASE NotNow \/ PowerOff
  <2>1. UNCHANGED <<machineState, pc, alive, link, guest, session, need, waits, vmHistory>> /\ power' \in {"none", "on", "off"}
    BY <1>2 DEF NotNow, PowerOff, asked
  <2>2. flush' \in BOOLEAN
    BY <1>2 DEF NotNow, PowerOff, VmInv, VmTypeOK
  <2> QED BY <2>1, <2>2, VmStands DEF VmInv, VmTypeOK
<1>3. CASE StopBoot
  BY <1>3, DestroyKeeps DEF StopBoot, VmInv, VmTypeOK
<1>4. CASE Flushed
  BY <1>4, DestroyKeeps DEF Flushed, vmHistory, VmInv, VmTypeOK
<1>5. ASSUME NEW b \in Boots, NotConstructed(b) \/ ShutDown(b) \/ DeadlinePasses(b) PROVE VmInv'
  BY <1>5, FailKeeps DEF NotConstructed, ShutDown, DeadlinePasses, IsAt, Under, Over
<1>6. ASSUME NEW b \in Boots, Construct(b) \/ Attach(b) \/ SessionIsUp(b) \/ Ready(b) PROVE VmInv'
  BY <1>6, ConstructKeeps, AttachKeeps, ReadyKeeps
<1>7. ASSUME NEW b \in Boots, Hello(b) \/ LinkLost(b) \/ GuestComesUp(b) PROVE VmInv'
  BY <1>7, GuestKeeps
<1>8. ASSUME NEW m \in Needs, AskFor(m) PROVE VmInv'
  <2>1. need' \in [Needs -> {"none", "waits", "met", "refused"}]
    BY <1>8 DEF AskFor, VmInv, VmTypeOK
  <2>2. UNCHANGED <<alive, link, guest, session, power, flush, stopped, abandoned>>
    BY <1>8 DEF AskFor
  <2>3. CASE status \in {"booting", "ready"} \/ Permitted
    <3>1. Boot /\ waits' = [waits EXCEPT ![m] = booting']
      BY <1>8, <2>3 DEF AskFor
    <3>2. booting' \in 0 .. MaxBoot
      <4>1. CASE booting = 0
        BY <3>1, <4>1, NextBoot DEF Boot
      <4>2. CASE booting # 0
        BY <3>1, <4>2 DEF Boot, machineState, VmInv, VmTypeOK
      <4> QED BY <4>1, <4>2
    <3>3. waits' \in [Needs -> 0 .. MaxBoot]
      BY <3>1, <3>2 DEF VmInv, VmTypeOK
    <3>4. power' \in {"none", "on", "off"}
      BY <2>2 DEF VmInv, VmTypeOK
    <3> QED BY <2>1, <2>2, <3>1, <3>3, <3>4, BootKeeps
  <2>4. CASE ~(status \in {"booting", "ready"} \/ Permitted)
    <3>1. UNCHANGED <<machineState, pc, alive, link, guest, session, vmHistory, waits>>
      BY <1>8, <2>4 DEF AskFor, vmHistory
    <3> QED BY <2>1, <2>2, <3>1, VmStands DEF VmInv, VmTypeOK
  <2> QED BY <2>3, <2>4
<1>9. ASSUME NEW m \in Needs, Settle(m) PROVE VmInv'
  BY <1>9, VmStands DEF Settle, VmInv, VmTypeOK
<1>10. CASE UNCHANGED vmVars
  BY <1>10, VmStands DEF vmVars, asked, VmInv, VmTypeOK
<1> QED BY <1>1, <1>2, <1>3, <1>4, <1>5, <1>6, <1>7, <1>8, <1>9, <1>10 DEF VmNext

\* For any number of boots, whatever fails, is stopped or is begun again in the
\* middle: an emulator the machine does not hold is one of boots that ran side by
\* side; a machine that reads ready is served by the guest of its emulator, in a
\* session of the page's own link unless another link knocks; and a link that
\* knocks is one that a boot that failed left attached, or of boots that crossed
\* (vm.ts: start, controlUp, destroy).
THEOREM OneMachineAtATime == ASSUME VmAssumption PROVE VmSpec => []MachineTrue
<1>1. VmInit => VmInv
  BY VmStarts
<1>2. VmInv /\ [VmNext]_vmVars => VmInv'
  BY VmStep
<1>3. VmInv => MachineTrue
  BY DEF VmInv, LinksTrue, FreshBoot, MachineTrue
<1> QED BY <1>1, <1>2, <1>3, PTL DEF VmSpec

\* A machine begins to boot only in a step that leaves its power on, or because its
\* console is opened: a file write or a command (whenUp) never starts a machine the
\* person left off, whatever boot failed or was stopped before.
THEOREM MachineStaysAsLeft == ASSUME VmAssumption PROVE VmSpec => StaysAsLeft
<1>1. VmInit => VmInv
  BY VmStarts
<1>2. VmInv /\ [VmNext]_vmVars => VmInv'
  BY VmStep
<1>3. VmInv /\ [VmNext]_vmVars =>
        [status' = "booting" /\ status # "booting" => power' = "on" \/ OpenConsole]_vmVars
  <2> SUFFICES ASSUME VmInv, VmNext, status # "booting", status' = "booting", ~OpenConsole PROVE power' = "on"
    BY DEF vmVars
  <2>1. status = "ready" => booting # 0
    BY DEF VmInv, VmTypeOK
  <2>2. CASE PowerOn \/ LoadLeftOn
    BY <2>2 DEF PowerOn, LoadLeftOn
  <2>3. ASSUME NEW m \in Needs, AskFor(m) PROVE power' = "on"
    BY <2>1, <2>3 DEF AskFor, Boot, Permitted, machineState
  <2>4. ASSUME NEW b \in Boots, Construct(b) \/ NotConstructed(b) \/ ShutDown(b) \/ DeadlinePasses(b) \/ Ready(b) PROVE FALSE
    BY <2>4 DEF Construct, NotConstructed, ShutDown, DeadlinePasses, Ready, Fail
  <2>5. ASSUME NEW b \in Boots, Attach(b) \/ SessionIsUp(b) \/ Hello(b) \/ LinkLost(b) \/ GuestComesUp(b) PROVE FALSE
    BY <2>5 DEF Attach, SessionIsUp, Hello, LinkLost, GuestComesUp, machineState
  <2> QED BY <2>2, <2>3, <2>4, <2>5 DEF VmNext, NotNow, StopBoot, PowerOff, Flushed, Destroy, Settle, machineState
<1> QED BY <1>1, <1>2, <1>3, PTL DEF VmSpec, StaysAsLeft

\* When the start() of a boot the person stopped runs into its catch, the machine
\* and its emulator stay as the stop left them, unless the person has booted again
\* before it got there (vm.ts: start, the catch).
THEOREM StopIsNotAFailure == ASSUME VmAssumption PROVE VmSpec => StopIsNoFailure
<1>1. VmInit => VmInv
  BY VmStarts
<1>2. VmInv /\ [VmNext]_vmVars => VmInv'
  BY VmStep
<1>3. VmInv /\ [VmNext]_vmVars =>
        [\A b \in stopped \ abreast : pc[b] # "failed" /\ pc'[b] = "failed" =>
           status' = status /\ emulator' = emulator]_vmVars
  <2> SUFFICES ASSUME VmInv, VmNext, NEW b \in stopped \ abreast, pc[b] # "failed", pc'[b] = "failed"
               PROVE  status' = status /\ emulator' = emulator
    BY DEF vmVars
  <2>1. b \in Boots /\ pc[b] # "none"
    BY DEF VmInv, VmTypeOK, CrossedTrue
  <2>2. ASSUME ~\E a \in Boots : Under(a) /\ Fail(a) PROVE FALSE
    <3>1. ASSUME NEW a \in Boots, NEW w, w # "failed", GoTo(a, w) PROVE FALSE
      BY <2>1, <3>1 DEF GoTo, VmInv, VmTypeOK
    <3>2. ~UNCHANGED pc
      OBVIOUS
    <3>3. ~Boot
      <4> SUFFICES ASSUME Boot PROVE FALSE
        OBVIOUS
      <4>1. pc' = [pc EXCEPT ![Cardinality(Begun) + 1] = "import"]
        BY <3>2 DEF Boot, Start, GoTo
      <4> QED BY <2>1, <4>1 DEF VmInv, VmTypeOK
    <3>4. ~(\E a \in Boots : Construct(a) \/ Attach(a) \/ SessionIsUp(a) \/ Ready(a))
      BY <3>1 DEF Construct, Attach, SessionIsUp, Ready
    <3>5. ~(\E a \in Boots : NotConstructed(a) \/ ShutDown(a) \/ DeadlinePasses(a))
      BY <2>2 DEF NotConstructed, ShutDown, DeadlinePasses, IsAt, Under, Over
    <3>6. ~(\E a \in Boots : Hello(a) \/ LinkLost(a) \/ GuestComesUp(a))
      BY <3>2 DEF Hello, LinkLost, GuestComesUp
    <3>7. ~(\E m \in Needs : AskFor(m) \/ Settle(m))
      BY <3>2, <3>3 DEF AskFor, Settle
    <3>8. ~(PowerOn \/ LoadLeftOn \/ NotNow \/ OpenConsole \/ StopBoot \/ PowerOff \/ Flushed)
      BY <3>2, <3>3 DEF PowerOn, LoadLeftOn, NotNow, OpenConsole, StopBoot, PowerOff, Flushed, Destroy
    <3> QED BY <3>4, <3>5, <3>6, <3>7, <3>8 DEF VmNext
  <2>3. PICK a \in Boots : Under(a) /\ Fail(a)
    BY <2>2
  <2>4. a = b
    BY <2>1, <2>3 DEF Fail, GoTo, VmInv, VmTypeOK
  <2>5. OffMeanwhile
    BY <2>1, <2>3, <2>4 DEF VmInv, UnderWayTrue, OneMachine, OffMeanwhile
  <2> QED BY <2>3, <2>5 DEF Fail
<1> QED BY <1>1, <1>2, <1>3, PTL DEF VmSpec, StopIsNoFailure

----------------------------------------------------------------------------
(* Windows lie as they were raised.                                         *)

\* The table is of windows there may be, each under the next number, which is in the band.
WindowsInv ==
  /\ z \in [Table -> Nat] /\ Table \subseteq Apps \cup Natives
  /\ IsFiniteSet(Table) /\ Cardinality(Table \cap Apps) <= MaxWindows
  /\ zNext \in (ZBase + 1) .. ZCeil /\ \A id \in Table : ZBase <= z[id] /\ z[id] < zNext
  /\ above \subseteq Table \X Table /\ \A pair \in above : z[pair[1]] < z[pair[2]]

\* Numbering again keeps the order and uses as many numbers as there are windows.
LEMMA RenumberKeepsOrder ==
  ASSUME ZBase \in Nat, NEW T, IsFiniteSet(T), NEW t \in [T -> Nat]
  PROVE  /\ Renumber(t) \in [T -> Nat]
         /\ \A id \in T : ZBase <= Renumber(t)[id] /\ Renumber(t)[id] < ZBase + Cardinality(T)
         /\ \A a, b \in T : t[a] < t[b] => Renumber(t)[a] < Renumber(t)[b]
<1> DEFINE Below(id) == {other \in T \ {id} : t[other] < t[id] \/ (t[other] = t[id] /\ id \in Natives /\ other \notin Natives)}
<1>1. DOMAIN t = T /\ Cardinality(T) \in Nat
  BY FS_CardinalityType
<1>2. Renumber(t) = [id \in T |-> ZBase + Cardinality(Below(id))]
  BY <1>1 DEF Renumber
<1>3. ASSUME NEW id \in T PROVE IsFiniteSet(Below(id)) /\ Cardinality(Below(id)) \in Nat /\ Cardinality(Below(id)) < Cardinality(T)
  <2>1. Below(id) \subseteq T /\ Below(id) # T
    OBVIOUS
  <2>2. IsFiniteSet(Below(id)) /\ Cardinality(Below(id)) <= Cardinality(T) /\ Cardinality(Below(id)) # Cardinality(T)
    BY <2>1, FS_Subset
  <2>3. Cardinality(Below(id)) \in Nat
    BY <2>2, FS_CardinalityType
  <2> HIDE DEF Below
  <2> QED BY <1>1, <2>2, <2>3
<1>4. ASSUME NEW a \in T, NEW b \in T, t[a] < t[b] PROVE Cardinality(Below(a)) < Cardinality(Below(b))
  <2>1. t[a] \in Nat /\ t[b] \in Nat /\ \A c \in T : t[c] \in Nat
    OBVIOUS
  <2>2. Below(a) \subseteq Below(b)
    BY <1>4, <2>1
  <2>3. a \in Below(b) /\ a \notin Below(a)
    BY <1>4, <2>1
  <2>4. Below(a) # Below(b) /\ Below(a) \in SUBSET Below(b) /\ IsFiniteSet(Below(b))
    BY <1>3, <2>2, <2>3
  <2>5. Cardinality(Below(a)) \in Nat /\ Cardinality(Below(b)) \in Nat
    BY <1>3
  <2> HIDE DEF Below
  <2>6. Cardinality(Below(a)) <= Cardinality(Below(b)) /\ Cardinality(Below(a)) # Cardinality(Below(b))
    BY <2>4, FS_Subset
  <2> QED BY <2>5, <2>6
<1> HIDE DEF Below
<1> QED BY <1>1, <1>2, <1>3, <1>4

\* There are no more windows than the band has numbers.
LEMMA TableFits ==
  ASSUME WindowsAssumption, NEW T, IsFiniteSet(T), T \subseteq Apps \cup Natives, Cardinality(T \cap Apps) <= MaxWindows
  PROVE  Cardinality(T) \in Nat /\ ZBase + Cardinality(T) <= ZCeil
<1>1. {MaxWindows, ZBase, ZCeil} \subseteq Nat /\ IsFiniteSet(Natives) /\ ZBase + MaxWindows + Cardinality(Natives) <= ZCeil
  BY DEF WindowsAssumption
<1>2. IsFiniteSet(T \cap Apps) /\ IsFiniteSet(T \cap Natives) /\ Cardinality(T \cap Natives) <= Cardinality(Natives)
  BY <1>1, FS_Subset
<1>3. (T \cap Apps) \cap (T \cap Natives) = {} /\ T = (T \cap Apps) \cup (T \cap Natives)
  BY DEF WindowsAssumption, Apps
<1>4. {Cardinality(T), Cardinality(T \cap Apps), Cardinality(T \cap Natives), Cardinality(Natives)} \subseteq Nat
  BY <1>1, <1>2, FS_CardinalityType
<1>5. Cardinality(T) = Cardinality(T \cap Apps) + Cardinality(T \cap Natives) - Cardinality({})
  BY <1>2, <1>3, FS_Union
<1>6. Cardinality({}) = 0
  BY FS_EmptySet
<1> QED BY <1>1, <1>2, <1>4, <1>5, <1>6

LEMMA RaiseKeeps ==
  ASSUME WindowsAssumption, NEW T, IsFiniteSet(T), T \subseteq Apps \cup Natives, Cardinality(T \cap Apps) <= MaxWindows,
         NEW t \in [T -> Nat], NEW id \in T, NEW n \in Nat, n > ZBase, \A i \in T : ZBase <= t[i] /\ t[i] < n,
         above \subseteq T \X T, \A pair \in above : t[pair[1]] < t[pair[2]],
         Raise(id, t, n)
  PROVE  WindowsInv'
<1> DEFINE lifted == [t EXCEPT ![id] = n]
<1>1. lifted \in [T -> Nat] /\ lifted[id] = n /\ \A i \in T \ {id} : lifted[i] = t[i]
  OBVIOUS
<1>2. {ZBase, ZCeil} \subseteq Nat /\ Cardinality(T) \in Nat /\ ZBase + Cardinality(T) <= ZCeil /\ Cardinality(T) # 0
  BY TableFits, FS_EmptySet DEF WindowsAssumption
<1>3. /\ above' \subseteq T \X T
      /\ \A pair \in above' : lifted[pair[1]] < lifted[pair[2]]
  <2>1. above' = {pair \in above : pair[2] # id /\ pair[1] # id} \cup ((T \ {id}) \X {id})
    BY DEF Raise
  <2>2. ASSUME NEW pair \in above, pair[2] # id, pair[1] # id PROVE lifted[pair[1]] < lifted[pair[2]]
    BY <1>1, <2>2
  <2>3. ASSUME NEW pair \in (T \ {id}) \X {id} PROVE lifted[pair[1]] < lifted[pair[2]]
    BY <1>1, <2>3
  <2> HIDE DEF lifted
  <2> QED BY <2>1, <2>2, <2>3
<1>4. /\ z' = IF n + 1 > ZCeil THEN Renumber(lifted) ELSE lifted
      /\ zNext' = IF n + 1 > ZCeil THEN ZBase + Cardinality(T) ELSE n + 1
  BY DEF Raise
<1>5. \A i \in T : ZBase <= lifted[i] /\ lifted[i] < n + 1 /\ lifted[i] \in Nat
  BY <1>1, <1>2
<1> HIDE DEF lifted
<1>6. /\ Renumber(lifted) \in [T -> Nat]
      /\ \A i \in T : ZBase <= Renumber(lifted)[i] /\ Renumber(lifted)[i] < ZBase + Cardinality(T)
      /\ \A a, b \in T : lifted[a] < lifted[b] => Renumber(lifted)[a] < Renumber(lifted)[b]
  BY <1>1, <1>2, RenumberKeepsOrder
<1>7. z' \in [T -> Nat] /\ Table' = T /\ zNext' \in (ZBase + 1) .. ZCeil
      /\ \A i \in T : ZBase <= z'[i] /\ z'[i] < zNext'
  BY <1>1, <1>2, <1>4, <1>5, <1>6 DEF Table
<1>8. \A pair \in above' : z'[pair[1]] < z'[pair[2]]
  BY <1>3, <1>4, <1>6
<1> QED BY <1>3, <1>7, <1>8 DEF WindowsInv

LEMMA LeaveKeeps == ASSUME WindowsAssumption, WindowsInv, NEW ids, Leave(ids) PROVE WindowsInv'
<1>1. Table' = Table \ ids /\ z' \in [Table' -> Nat] /\ zNext' = zNext /\ \A i \in Table' : z'[i] = z[i]
  BY DEF Leave, WindowsInv, Table
<1>2. IsFiniteSet(Table') /\ Cardinality(Table' \cap Apps) <= MaxWindows
  <2>1. IsFiniteSet(Table') /\ Table' \cap Apps \subseteq Table \cap Apps /\ IsFiniteSet(Table \cap Apps)
    BY <1>1, FS_Subset DEF WindowsInv
  <2>2. Cardinality(Table' \cap Apps) <= Cardinality(Table \cap Apps) /\ IsFiniteSet(Table' \cap Apps)
    BY <2>1, FS_Subset
  <2>3. Cardinality(Table' \cap Apps) \in Nat /\ Cardinality(Table \cap Apps) \in Nat /\ MaxWindows \in Nat
    BY <2>1, <2>2, FS_CardinalityType DEF WindowsAssumption
  <2> QED BY <2>1, <2>2, <2>3 DEF WindowsInv
<1>3. above' \subseteq Table' \X Table' /\ \A pair \in above' : z'[pair[1]] < z'[pair[2]]
  BY <1>1 DEF Leave, WindowsInv
<1> QED BY <1>1, <1>2, <1>3 DEF WindowsInv

LEMMA PlaceKeeps == ASSUME WindowsAssumption, WindowsInv, NEW id, Place(id) PROVE WindowsInv'
<1>0. {MaxWindows, ZBase, ZCeil} \subseteq Nat /\ zNext \in Nat /\ zNext > ZBase
  BY DEF WindowsAssumption, WindowsInv
<1>1. CASE id \in Table
  BY <1>0, <1>1, RaiseKeeps DEF Place, WindowsInv
<1>2. CASE id \notin Table
  <2> DEFINE T == Table \cup {id}
             t == [i \in Table \cup {id} |-> IF i = id THEN zNext ELSE z[i]]
  <2>1. id \in Apps /\ Raise(id, t, zNext + 1) /\ Cardinality(Table \cap Apps) < MaxWindows
    BY <1>2 DEF Place
  <2>2. t \in [T -> Nat] /\ \A i \in T : ZBase <= t[i] /\ t[i] < zNext + 1
    BY <1>0, <1>2 DEF WindowsInv
  <2>3. IsFiniteSet(T) /\ T \subseteq Apps \cup Natives /\ Cardinality(T \cap Apps) <= MaxWindows
    <3>1. IsFiniteSet(T) /\ IsFiniteSet(Table \cap Apps)
      BY FS_AddElement, FS_Subset DEF WindowsInv
    <3>2. T \cap Apps = (Table \cap Apps) \cup {id} /\ id \notin Table \cap Apps
      BY <1>2, <2>1
    <3>3. Cardinality(T \cap Apps) = Cardinality(Table \cap Apps) + 1
      BY <3>1, <3>2, FS_AddElement
    <3>4. Cardinality(Table \cap Apps) \in Nat
      BY <3>1, FS_CardinalityType
    <3> QED BY <1>0, <2>1, <3>1, <3>3, <3>4 DEF WindowsInv
  <2>4. above \subseteq T \X T /\ \A pair \in above : t[pair[1]] < t[pair[2]]
    BY <1>2 DEF WindowsInv
  <2>5. id \in T /\ zNext + 1 \in Nat /\ zNext + 1 > ZBase
    BY <1>0
  <2> HIDE DEF T, t
  <2> QED BY <2>1, <2>2, <2>3, <2>4, <2>5, RaiseKeeps
<1> QED BY <1>1, <1>2

LEMMA RegisterKeeps == ASSUME WindowsAssumption, WindowsInv, NEW id, RegisterNative(id) PROVE WindowsInv'
<1>1. id \in Natives /\ id \notin Table /\ id \notin Apps /\ ZBase \in Nat /\ ZCeil \in Nat
  BY DEF RegisterNative, WindowsAssumption, Apps
<1>2. Table' = Table \cup {id} /\ z' \in [Table' -> Nat] /\ zNext' = zNext /\ above' = above
      /\ z'[id] = ZBase /\ \A i \in Table : z'[i] = z[i]
  BY <1>1 DEF RegisterNative, WindowsInv, Table
<1>3. IsFiniteSet(Table') /\ Table' \cap Apps = Table \cap Apps
  BY <1>1, <1>2, FS_AddElement DEF WindowsInv
<1>4. \A i \in Table' : ZBase <= z'[i] /\ z'[i] < zNext'
  BY <1>1, <1>2 DEF WindowsInv
<1>5. above' \subseteq Table' \X Table' /\ \A pair \in above' : z'[pair[1]] < z'[pair[2]]
  BY <1>2 DEF WindowsInv
<1> QED BY <1>1, <1>2, <1>3, <1>4, <1>5 DEF WindowsInv

LEMMA WindowsStart == ASSUME WindowsAssumption, WindowsInit PROVE WindowsInv
<1>1. Table = Natives /\ z \in [Table -> Nat] /\ IsFiniteSet(Table) /\ zNext \in (ZBase + 1) .. ZCeil
      /\ \A id \in Table : ZBase <= z[id] /\ z[id] < zNext
  BY DEF WindowsAssumption, WindowsInit, Table
<1>2. Table \cap Apps = {}
  BY <1>1 DEF WindowsAssumption, Apps
<1>3. Cardinality(Table \cap Apps) <= MaxWindows
  BY <1>2, FS_EmptySet DEF WindowsAssumption
<1> QED BY <1>1, <1>3 DEF WindowsInit, WindowsInv

LEMMA WindowsStep == ASSUME WindowsAssumption, WindowsInv, [WindowsNext]_windowsVars PROVE WindowsInv'
<1>1. CASE UNCHANGED windowsVars
  BY <1>1 DEF WindowsInv, windowsVars, Table
<1>2. CASE DropAllStreams
  BY <1>2, LeaveKeeps DEF DropAllStreams
<1>3. ASSUME NEW id \in Apps \cup Natives, Tap(id) PROVE WindowsInv'
  <2>1. zNext \in Nat /\ zNext > ZBase
    BY DEF WindowsAssumption, WindowsInv
  <2> QED BY <1>3, <2>1, RaiseKeeps DEF Tap, WindowsInv
<1>4. ASSUME NEW id \in Apps \cup Natives, CloseWindow(id) \/ DropStream(id) \/ Unregister(id) PROVE WindowsInv'
  BY <1>4, LeaveKeeps DEF CloseWindow, DropStream, Unregister
<1>5. ASSUME NEW id \in Apps \cup Natives, Place(id) \/ RegisterNative(id) PROVE WindowsInv'
  BY <1>5, PlaceKeeps, RegisterKeeps
<1> QED BY <1>1, <1>2, <1>3, <1>4, <1>5 DEF WindowsNext

\* Whatever is opened, raised, closed and numbered again, a window lies above all
\* that were there when it was raised last, and every number is in the band: for
\* any number of windows the band has room for.
THEOREM WindowsLieAsRaised == ASSUME WindowsAssumption PROVE WindowsSpec => []StackTrue
<1>1. WindowsInit => WindowsInv
  BY WindowsStart
<1>2. WindowsInv /\ [WindowsNext]_windowsVars => WindowsInv'
  BY WindowsStep
<1>3. WindowsInv => StackTrue
  BY DEF WindowsInv, StackTrue, WindowsAssumption
<1> QED BY <1>1, <1>2, <1>3, PTL DEF WindowsSpec

----------------------------------------------------------------------------
(* Commands and the files they leave, and an executable that is rewritten.  *)

JobSteps == {"none", "asked", "running", "inline", "ref", "error"}

RunRecords ==
  [step : {"idle", "waiting", "putting", "calling", "collecting", "over"}, long : BOOLEAN, link : Nat,
   answer : {"none", "failed", "whole", "named", "unread"}]

ShellTypeOK ==
  /\ run \in [Runs -> RunRecords] /\ job \in [Runs -> JobSteps] /\ gen \in Nat
  /\ rewrite \in [Writers -> [step : {"idle", "creating"}, read : Modes]]
  /\ exec \in Modes /\ meant \in Modes

\* A command that was not asked has no job and no output; one that is over left
\* what its answer names, or what came of a reply that was not read.
Swept(r) ==
  /\ run[r].link <= gen
  /\ run[r].step \in {"idle", "waiting", "putting"} => job[r] = "none"
  /\ run[r].step \in {"idle", "waiting"} => <<"script", r>> \notin shared
  /\ job[r] \in {"none", "asked", "running", "inline"} => <<"out", r>> \notin shared
  /\ run[r].step = "collecting" => job[r] \in {"ref", "none"}
  /\ run[r].step = "over" =>
       /\ <<"script", r>> \notin shared /\ run[r].answer # "none"
       /\ run[r].answer = "whole" => <<"out", r>> \notin shared /\ job[r] \notin {"asked", "running"}
       /\ run[r].answer = "named" /\ Linked(r) => <<"out", r>> \in shared

\* A writer that is alone has the mode that is meant in hand.
ModeInHand ==
  ~mixed =>
    /\ (\A w \in Writers : rewrite[w].step = "idle") => exec = meant
    /\ \A w \in Writers : rewrite[w].step = "creating" =>
         rewrite[w].read = meant /\ \A v \in Writers \ {w} : rewrite[v].step = "idle"

ShellInv == ShellTypeOK /\ (\A r \in Runs : Swept(r)) /\ ModeInHand

\* A step of one command, among its own files and with its own job.
LEMMA RunMoves ==
  ASSUME ShellInv, NEW r \in Runs, NEW now \in RunRecords, run' = [run EXCEPT ![r] = now],
         NEW does \in JobSteps, job' = [job EXCEPT ![r] = does],
         \A f : f[2] # r => (f \in shared' <=> f \in shared),
         now.link <= gen,
         now.step \in {"idle", "waiting", "putting"} => does = "none",
         now.step \in {"idle", "waiting"} => <<"script", r>> \notin shared',
         does \in {"none", "asked", "running", "inline"} => <<"out", r>> \notin shared',
         now.step = "collecting" => does \in {"ref", "none"},
         now.step = "over" =>
           /\ <<"script", r>> \notin shared' /\ now.answer # "none"
           /\ now.answer = "whole" => <<"out", r>> \notin shared' /\ does \notin {"asked", "running"}
           /\ now.answer = "named" /\ box # "off" /\ now.link = gen => <<"out", r>> \in shared',
         UNCHANGED <<box, gen, modes>>
  PROVE  ShellInv'
<1>1. /\ run' \in [Runs -> RunRecords] /\ run'[r] = now /\ \A q \in Runs \ {r} : run'[q] = run[q]
      /\ job' \in [Runs -> JobSteps] /\ job'[r] = does /\ \A q \in Runs \ {r} : job'[q] = job[q]
  BY DEF ShellInv, ShellTypeOK
<1>2. ShellTypeOK'
  BY <1>1 DEF ShellInv, ShellTypeOK, modes
<1>3. ModeInHand'
  <2>1. ModeInHand /\ rewrite' = rewrite /\ exec' = exec /\ meant' = meant /\ mixed' = mixed
    BY DEF ShellInv, modes
  <2> QED BY <2>1, Zenon DEF ModeInHand
<1>4. ASSUME NEW q \in Runs  PROVE Swept(q)'
  <2>1. CASE q = r
    BY <1>1, <2>1 DEF Swept, Linked
  <2>2. CASE q # r
    <3>1. \A what : <<what, q>>[2] # r
      BY <2>2
    <3>2. \A what : <<what, q>> \in shared' <=> <<what, q>> \in shared
      BY <3>1
    <3>3. run'[q] = run[q] /\ job'[q] = job[q] /\ box' = box /\ gen' = gen /\ Swept(q)
      BY <1>1, <2>2 DEF ShellInv
    <3> QED BY <3>2, <3>3 DEF Swept, Linked
  <2> QED BY <2>1, <2>2
<1> QED BY <1>2, <1>3, <1>4 DEF ShellInv

\* However it ends, its script is gone, and its output when it was spent.
LEMMA SettlingKeeps ==
  ASSUME ShellInv, NEW r \in Runs, NEW answer \in {"failed", "whole", "named", "unread"}, NEW spent \in {{}, {<<"out", r>>}},
         SettleRun(r, answer, spent), run[r].step # "over",
         answer = "whole" => job[r] \notin {"asked", "running"} /\ (spent = {<<"out", r>>} \/ job[r] = "inline"),
         answer = "named" => spent = {} /\ <<"out", r>> \in shared,
         UNCHANGED <<box, gen, job, modes>>
  PROVE  ShellInv'
<1> DEFINE now == [run[r] EXCEPT !.step = "over", !.answer = answer]
<1>1. run[r] \in RunRecords /\ Swept(r) /\ job \in [Runs -> JobSteps]
  BY DEF ShellInv, ShellTypeOK
<1>2. now \in RunRecords /\ now.step = "over" /\ now.answer = answer /\ now.link = run[r].link
  BY <1>1 DEF RunRecords
<1>3. run' = [run EXCEPT ![r] = now] /\ shared' = shared \ (spent \cup {<<"script", r>>})
  BY DEF SettleRun
<1>4. \A f : f[2] # r => (f \in shared' <=> f \in shared)
  BY <1>3
<1>5. <<"script", r>> \notin shared' /\ (<<"out", r>> \in shared' <=> <<"out", r>> \in shared /\ spent = {})
  <2>1. <<"script", r>> # <<"out", r>>
    OBVIOUS
  <2> QED BY <1>3, <2>1
<1>6. job' = [job EXCEPT ![r] = job[r]] /\ job[r] \in JobSteps
  BY <1>1
<1>7. job[r] \in {"none", "asked", "running", "inline"} => <<"out", r>> \notin shared
  BY <1>1 DEF Swept
<1>8. now.link <= gen
  BY <1>1, <1>2 DEF Swept
<1>9. answer = "whole" => <<"out", r>> \notin shared'
  BY <1>5, <1>7
<1>10. answer = "named" => <<"out", r>> \in shared'
  BY <1>5
<1> HIDE DEF now
<1> QED BY <1>2, <1>3, <1>4, <1>5, <1>6, <1>7, <1>8, <1>9, <1>10, RunMoves

LEMMA RunStepKeeps ==
  ASSUME ShellInv, NEW r \in Runs, NEW yes \in BOOLEAN,
         Run(r, yes) \/ Wake(r) \/ PutScript(r) \/ ReplyRef(r)
  PROVE  ShellInv'
<1>0. run[r] \in RunRecords /\ job \in [Runs -> JobSteps] /\ gen \in Nat /\ Swept(r)
  BY DEF ShellInv, ShellTypeOK
<1>0a. job[r] \in JobSteps /\ job = [job EXCEPT ![r] = job[r]]
  BY <1>0
<1>0b. run[r].link <= gen /\ run[r].link \in Nat
  BY <1>0 DEF Swept, RunRecords
<1>1. CASE Run(r, yes)
  <2> DEFINE now == [NoRun EXCEPT !.step = IF box = "off" THEN "over" ELSE "waiting", !.long = yes,
                                  !.answer = IF box = "off" THEN "failed" ELSE "none"]
  <2>1. run[r].step = "idle" /\ run' = [run EXCEPT ![r] = now] /\ UNCHANGED <<box, gen, shared, job, modes>>
    BY <1>1 DEF Run
  <2>2. now.link = 0 /\ now.step \in {"over", "waiting"} /\ now.answer \in {"failed", "none"} /\ (now.step = "over" => now.answer = "failed")
    BY DEF NoRun
  <2>3. now \in RunRecords
    <3>1. NoRun \in RunRecords
      BY DEF RunRecords, NoRun
    <3>2. CASE box = "off"
      <4>1. now = [[NoRun EXCEPT !.step = "over", !.answer = "failed"] EXCEPT !.long = yes]
        BY <3>2 DEF NoRun
      <4>2. [NoRun EXCEPT !.step = "over", !.answer = "failed"] \in RunRecords
        BY <3>1 DEF RunRecords
      <4> QED BY <4>1, <4>2 DEF RunRecords
    <3>3. CASE box # "off"
      <4>1. now = [[NoRun EXCEPT !.step = "waiting", !.answer = "none"] EXCEPT !.long = yes]
        BY <3>3 DEF NoRun
      <4>2. [NoRun EXCEPT !.step = "waiting", !.answer = "none"] \in RunRecords
        BY <3>1 DEF RunRecords
      <4> QED BY <4>1, <4>2 DEF RunRecords
    <3> QED BY <3>2, <3>3
  <2>4. <<"script", r>> \notin shared' /\ <<"out", r>> \notin shared' /\ job[r] = "none" /\ job' = [job EXCEPT ![r] = "none"]
    BY <1>0, <1>0a, <2>1 DEF Swept
  <2>5. 0 <= gen
    BY <1>0
  <2> HIDE DEF now
  <2> QED BY <2>1, <2>2, <2>3, <2>4, <2>5, RunMoves DEF JobSteps
<1>2. CASE Wake(r)
  <2> DEFINE now == [run[r] EXCEPT !.step = IF run[r].long THEN "putting" ELSE "calling", !.link = gen]
             does == IF run[r].long THEN "none" ELSE "asked"
  <2>1. run[r].step = "waiting" /\ run' = [run EXCEPT ![r] = now] /\ UNCHANGED <<box, gen, shared, modes>>
    BY <1>2 DEF Wake
  <2>2. now \in RunRecords /\ now.step \in {"putting", "calling"} /\ now.link = gen /\ (now.step = "putting" => run[r].long)
    BY <1>0 DEF RunRecords
  <2>3. job[r] = "none" /\ <<"out", r>> \notin shared
    BY <1>0, <2>1 DEF Swept
  <2>4. job' = [job EXCEPT ![r] = does] /\ does \in JobSteps /\ (now.step = "putting" => does = "none") /\ does \in {"none", "asked"}
    BY <1>0, <1>2, <2>2, <2>3 DEF Wake, SendRun, JobSteps
  <2> HIDE DEF now, does
  <2>5. now.link <= gen /\ <<"out", r>> \notin shared'
    BY <1>0, <2>1, <2>2, <2>3
  <2>6. now.step \notin {"idle", "waiting", "collecting", "over"}
    BY <2>2
  <2> QED BY <2>1, <2>2, <2>4, <2>5, <2>6, RunMoves
<1>3. CASE PutScript(r)
  <2> DEFINE now == [run[r] EXCEPT !.step = "calling"]
             does == IF run[r].link = gen THEN "asked" ELSE "none"
  <2>1. run[r].step = "putting" /\ run' = [run EXCEPT ![r] = now] /\ shared' = shared \cup {<<"script", r>>} /\ UNCHANGED <<box, gen, modes>>
    BY <1>3 DEF PutScript, Goto
  <2>2. now \in RunRecords /\ now.step = "calling" /\ now.link = run[r].link
    BY <1>0 DEF RunRecords
  <2>3. \A f : f[2] # r => (f \in shared' <=> f \in shared)
    BY <2>1
  <2>4. job[r] = "none" /\ <<"out", r>> \notin shared'
    <3>1. job[r] = "none" /\ <<"out", r>> \notin shared
      BY <1>0, <2>1 DEF Swept
    <3>2. <<"script", r>> # <<"out", r>>
      OBVIOUS
    <3> QED BY <2>1, <3>1, <3>2
  <2>5. job' = [job EXCEPT ![r] = does] /\ does \in JobSteps /\ does \in {"none", "asked"}
    BY <1>0, <1>3, <2>4 DEF PutScript, SendRun, JobSteps
  <2> HIDE DEF now, does
  <2> QED BY <1>0b, <2>1, <2>2, <2>3, <2>4, <2>5, RunMoves
<1>4. CASE ReplyRef(r)
  <2> DEFINE now == [run[r] EXCEPT !.step = "collecting"]
  <2>1. run' = [run EXCEPT ![r] = now] /\ job[r] = "ref" /\ UNCHANGED <<box, gen, job, shared, modes>>
    BY <1>4 DEF ReplyRef, Goto
  <2>2. now \in RunRecords /\ now.step = "collecting" /\ now.link = run[r].link
    BY <1>0 DEF RunRecords
  <2> HIDE DEF now
  <2> QED BY <1>0a, <1>0b, <2>1, <2>2, RunMoves
<1> QED BY <1>1, <1>2, <1>3, <1>4

LEMMA RunEndKeeps ==
  ASSUME ShellInv, NEW r \in Runs, NEW yes \in BOOLEAN, NEW also \in BOOLEAN,
         RunFails(r) \/ ReplyInline(r) \/ Collect(r, yes, also)
  PROVE  ShellInv'
<1>1. CASE RunFails(r)
  BY <1>1, SettlingKeeps DEF RunFails
<1>2. CASE ReplyInline(r)
  BY <1>2, SettlingKeeps DEF ReplyInline
<1>3. CASE Collect(r, yes, also)
  <2>1. run[r].step = "collecting" /\ UNCHANGED <<box, gen, job, modes>> /\ job[r] \in {"ref", "none"}
    BY <1>3 DEF Collect, ShellInv, Swept
  <2>2. SettleRun(r, "whole", {<<"out", r>>}) \/ SettleRun(r, "unread", {}) \/ (SettleRun(r, "named", {}) /\ <<"out", r>> \in shared)
    BY <1>3 DEF Collect, Out
  <2> QED BY <2>1, <2>2, SettlingKeeps
<1> QED BY <1>1, <1>2, <1>3

\* The job's own steps; a page that gave the call up sees nothing of them.
LEMMA JobKeeps ==
  ASSUME ShellInv, NEW r \in Runs, NEW room \in BOOLEAN, NEW reply \in {"inline", "ref", "error"}, NEW wrote \in BOOLEAN,
         JobStarts(r, room) \/ JobEnds(r, reply, wrote)
  PROVE  ShellInv'
<1>0. run \in [Runs -> RunRecords] /\ run[r] \in RunRecords /\ job \in [Runs -> JobSteps] /\ Swept(r)
  BY DEF ShellInv, ShellTypeOK
<1>0a. run = [run EXCEPT ![r] = run[r]]
  BY <1>0
<1>1. CASE JobStarts(r, room)
  <2>1. job[r] = "asked" /\ UNCHANGED <<box, gen, shared, run, modes>>
    BY <1>1 DEF JobStarts
  <2>2. PICK does \in {"running", "error"} : job' = [job EXCEPT ![r] = does]
    BY <1>1 DEF JobStarts
  <2> QED BY <1>0, <1>0a, <2>1, <2>2, RunMoves DEF Swept, Linked, JobSteps
<1>2. CASE JobEnds(r, reply, wrote)
  <2>1. /\ job[r] = "running" /\ job' = [job EXCEPT ![r] = reply] /\ (reply = "inline" => ~wrote)
        /\ UNCHANGED <<box, gen, run, modes>> /\ shared' = IF wrote THEN shared \cup {<<"out", r>>} ELSE shared
    BY <1>2 DEF JobEnds
  <2>2. \A f : f[2] # r => (f \in shared' <=> f \in shared)
    BY <2>1
  <2>3. <<"script", r>> \in shared' <=> <<"script", r>> \in shared
    <3>1. <<"script", r>> # <<"out", r>>
      OBVIOUS
    <3> QED BY <2>1, <3>1
  <2>4. reply = "inline" => <<"out", r>> \notin shared'
    BY <1>0, <2>1 DEF Swept
  <2>5. <<"out", r>> \in shared => <<"out", r>> \in shared'
    BY <2>1
  <2>6. run[r].step \notin {"idle", "waiting", "putting", "collecting"} /\ (run[r].step = "over" => run[r].answer # "whole")
    BY <1>0, <2>1 DEF Swept
  <2> QED BY <1>0, <1>0a, <2>1, <2>2, <2>3, <2>4, <2>5, <2>6, RunMoves DEF Swept, Linked, JobSteps
<1> QED BY <1>1, <1>2

\* The machine goes, with whatever was being written; another comes up.
LEMMA GoingKeeps ==
  ASSUME ShellInv, DestroyBox \/ BootBox \/ BoxReady
  PROVE  ShellInv'
<1>0. ShellTypeOK /\ ModeInHand
  BY DEF ShellInv
<1>1. CASE DestroyBox
  <2>1. /\ shared' = {} /\ box' = "off" /\ job' = [r \in Runs |-> "none"] /\ rewrite' = [w \in Writers |-> NoWrite]
        /\ UNCHANGED <<gen, run, meant>> /\ exec' \in {exec, meant} /\ mixed' = (mixed \/ Rewriting) /\ (~Rewriting => exec' = exec)
    BY <1>1 DEF DestroyBox
  <2>2. ShellTypeOK'
    BY <1>0, <2>1 DEF ShellTypeOK, NoWrite, JobSteps, Modes
  <2>3. \A r \in Runs : Swept(r)'
    BY <2>1 DEF ShellInv, Swept, Linked
  <2>4. \A w \in Writers : rewrite'[w].step # "creating"
    BY <2>1 DEF NoWrite
  <2>5. ~mixed' => exec' = meant'
    <3>1. ~mixed' => ~mixed /\ ~Rewriting /\ exec' = exec /\ meant' = meant
      BY <2>1, Zenon
    <3>2. ~Rewriting => \A w \in Writers : rewrite[w].step = "idle"
      BY DEF Rewriting
    <3> QED BY <1>0, <3>1, <3>2, Zenon DEF ModeInHand
  <2>6. ModeInHand'
    BY <2>4, <2>5, Zenon DEF ModeInHand
  <2> QED BY <2>2, <2>3, <2>6 DEF ShellInv
<1>2. CASE BootBox \/ BoxReady
  <2>1. /\ gen' \in Nat /\ UNCHANGED <<shared, run, job, rewrite, exec, meant, mixed>>
        /\ (gen' = gen /\ box # "off") \/ (gen' > gen)
    BY <1>0, <1>2 DEF BootBox, BoxReady, modes, ShellTypeOK
  <2>2. ASSUME NEW r \in Runs  PROVE Swept(r)'
    <3>1. Swept(r) /\ run[r].link \in Nat /\ gen \in Nat
      BY <1>0 DEF ShellInv, ShellTypeOK, RunRecords
    <3> QED BY <2>1, <3>1 DEF Swept, Linked
  <2>3. ShellTypeOK'
    BY <1>0, <2>1 DEF ShellTypeOK
  <2>4. ModeInHand'
    BY <1>0, <2>1, Zenon DEF ModeInHand
  <2> QED BY <2>2, <2>3, <2>4 DEF ShellInv
<1> QED BY <1>1, <1>2

\* What a step of the modes leaves alone.
LEMMA SweptStays ==
  ASSUME ShellInv, UNCHANGED <<box, gen, shared, run, job>>
  PROVE  \A r \in Runs : Swept(r)'
  BY DEF ShellInv, Swept, Linked

\* A writer that meets nobody reads the mode that is meant, and gives it back.
LEMMA WritingKeeps ==
  ASSUME ShellInv, NEW w \in Writers, PutBytes(w) \/ PutMode(w)
  PROVE  ShellInv'
<1>0. ShellTypeOK /\ ModeInHand
  BY DEF ShellInv
<1>1. CASE PutBytes(w)
  <2>1. /\ rewrite[w].step = "idle" /\ mixed' = (mixed \/ Rewriting)
        /\ rewrite' = [rewrite EXCEPT ![w] = [step |-> "creating", read |-> exec]] /\ exec' = "plain"
        /\ UNCHANGED <<box, gen, shared, run, job, meant>>
    BY <1>1 DEF PutBytes
  <2>2. ~mixed' => exec = meant /\ \A v \in Writers : rewrite[v].step = "idle"
    <3>1. ~mixed' => ~mixed /\ ~Rewriting
      BY <2>1, Zenon
    <3>2. ~Rewriting => \A v \in Writers : rewrite[v].step = "idle"
      BY DEF Rewriting
    <3> QED BY <1>0, <3>1, <3>2, Zenon DEF ModeInHand
  <2>3. /\ rewrite'[w] = [step |-> "creating", read |-> exec]
        /\ \A v \in Writers \ {w} : rewrite'[v] = rewrite[v]
    BY <1>0, <2>1 DEF ShellTypeOK
  <2>4. rewrite'[w].step = "creating" /\ rewrite'[w].read = exec
    BY <2>3
  <2>5. ~mixed' => \A v \in Writers : rewrite'[v].step = "creating" => rewrite'[v].read = meant' /\ \A u \in Writers \ {v} : rewrite'[u].step = "idle"
    BY <2>1, <2>2, <2>3, <2>4
  <2>6. ~(\A v \in Writers : rewrite'[v].step = "idle")
    BY <2>4
  <2>7. ModeInHand'
    BY <2>5, <2>6, Zenon DEF ModeInHand
  <2>8. ShellTypeOK'
    BY <1>0, <2>1 DEF ShellTypeOK, Modes
  <2> QED BY <2>1, <2>7, <2>8, SweptStays DEF ShellInv
<1>2. CASE PutMode(w)
  <2>1. /\ rewrite[w].step = "creating" /\ exec' = rewrite[w].read
        /\ rewrite' = [rewrite EXCEPT ![w] = NoWrite] /\ UNCHANGED <<box, gen, shared, run, job, meant, mixed>>
    BY <1>2 DEF PutMode
  <2>2. ~mixed => rewrite[w].read = meant /\ \A v \in Writers \ {w} : rewrite[v].step = "idle"
    BY <1>0, <2>1, Zenon DEF ModeInHand
  <2>3. rewrite'[w].step = "idle" /\ \A v \in Writers \ {w} : rewrite'[v] = rewrite[v]
    BY <1>0, <2>1 DEF ShellTypeOK, NoWrite
  <2>4. ~mixed' => exec' = meant' /\ \A v \in Writers : rewrite'[v].step # "creating"
    BY <2>1, <2>2, <2>3
  <2>5. ModeInHand'
    BY <2>4, Zenon DEF ModeInHand
  <2>6. ShellTypeOK'
    BY <1>0, <2>1 DEF ShellTypeOK, NoWrite, Modes
  <2> QED BY <2>1, <2>5, <2>6, SweptStays DEF ShellInv
<1> QED BY <1>1, <1>2

LEMMA ChmodKeeps ==
  ASSUME ShellInv, NEW x \in Modes, Chmod(x)
  PROVE  ShellInv'
<1>1. exec' = x /\ meant' = x /\ mixed' = Rewriting /\ UNCHANGED <<box, gen, shared, run, job, rewrite>>
  BY DEF Chmod
<1>2. ~mixed' => \A v \in Writers : rewrite'[v].step = "idle"
  <2>1. ~mixed' => ~Rewriting
    BY <1>1, Zenon
  <2>2. ~Rewriting => \A v \in Writers : rewrite[v].step = "idle"
    BY DEF Rewriting
  <2> QED BY <1>1, <2>1, <2>2
<1>3. exec' = meant'
  BY <1>1
<1>4. ~mixed' => \A v \in Writers : rewrite'[v].step # "creating"
  BY <1>2
<1>5. ModeInHand'
  BY <1>3, <1>4, Zenon DEF ModeInHand
<1>6. ShellTypeOK'
  BY <1>1 DEF ShellInv, ShellTypeOK
<1> QED BY <1>1, <1>5, <1>6, SweptStays DEF ShellInv

\* However a command ends and whatever the machine did meanwhile, its script is
\* gone with it, its output is in the answer, named by it, or was never told of to
\* the page, and a rewritten file keeps its mode unless something else met the
\* rewrite: runShell, collectRun and putFile of vm.ts with job_finish of rund.c, for
\* any number of commands, writers and machines.
THEOREM ShellKeepsItsWord ==
  ShellSpec => []RunsSwept
<1>1. ShellInit => ShellInv
  <2> SUFFICES ASSUME ShellInit  PROVE ShellInv
    OBVIOUS
  <2>1. ShellTypeOK
    BY DEF ShellInit, ShellTypeOK, RunRecords, JobSteps, NoRun, NoWrite, Modes
  <2>2. \A r \in Runs : Swept(r)
    BY DEF ShellInit, Swept, NoRun
  <2>3. exec = meant /\ \A w \in Writers : rewrite[w].step # "creating"
    BY DEF ShellInit, NoWrite
  <2>4. ModeInHand
    BY <2>3, Zenon DEF ModeInHand
  <2> QED BY <2>1, <2>2, <2>4 DEF ShellInv
<1>2. ShellInv /\ [ShellNext]_shellVars => ShellInv'
  <2> SUFFICES ASSUME ShellInv, [ShellNext]_shellVars  PROVE ShellInv'
    OBVIOUS
  <2>1. CASE UNCHANGED <<box, gen, shared, run, job, modes>>
    <3>1. ShellTypeOK'
      BY <2>1 DEF ShellInv, ShellTypeOK, modes
    <3>2. ModeInHand /\ UNCHANGED <<exec, meant, mixed, rewrite>>
      BY <2>1 DEF ShellInv, modes
    <3>3. ModeInHand'
      BY <3>2, Zenon DEF ModeInHand
    <3> QED BY <2>1, <3>1, <3>3, SweptStays DEF ShellInv
  <2>2. ASSUME NEW r \in Runs, NEW yes \in BOOLEAN, NEW also \in BOOLEAN, NEW reply \in {"inline", "ref", "error"},
               Run(r, yes) \/ JobStarts(r, yes) \/ Collect(r, yes, also) \/ Wake(r) \/ RunFails(r) \/ PutScript(r)
                 \/ ReplyInline(r) \/ ReplyRef(r) \/ JobEnds(r, reply, also)
        PROVE  ShellInv'
    BY <2>2, RunStepKeeps, RunEndKeeps, JobKeeps
  <2>3. ASSUME NEW w \in Writers, PutBytes(w) \/ PutMode(w)  PROVE ShellInv'
    BY <2>3, WritingKeeps
  <2>4. ASSUME NEW x \in Modes, Chmod(x)  PROVE ShellInv'
    BY <2>4, ChmodKeeps
  <2>5. CASE DestroyBox \/ BootBox \/ BoxReady
    BY <2>5, GoingKeeps
  <2>6. CASE OpenShell \/ ShellOpened
    BY <2>1, <2>6 DEF OpenShell, ShellOpened
  <2>7. CASE UNCHANGED shellVars
    BY <2>1, <2>7 DEF shellVars, modes
  <2> QED BY <2>2, <2>3, <2>4, <2>5, <2>6, <2>7 DEF ShellNext
<1>3. ASSUME ShellInv  PROVE RunsSwept
  <2>1. FilesSpent
    <3>1. SUFFICES ASSUME NEW r \in Runs, run[r].step = "over"
          PROVE  /\ <<"script", r>> \notin shared
                 /\ <<"out", r>> \in shared => run[r].answer \in {"named", "unread", "failed"}
                 /\ run[r].answer = "named" /\ Linked(r) => <<"out", r>> \in shared
      BY DEF FilesSpent
    <3>2. Swept(r) /\ run[r].answer \in {"none", "failed", "whole", "named", "unread"}
      BY <1>3 DEF ShellInv, ShellTypeOK, RunRecords
    <3> QED BY <3>1, <3>2 DEF Swept
  <2>2. ModeKept
    <3>1. ModeInHand
      BY <1>3 DEF ShellInv
    <3>2. ~Rewriting => \A w \in Writers : rewrite[w].step = "idle"
      BY DEF Rewriting, ShellInv, ShellTypeOK
    <3> QED BY <3>1, <3>2, Zenon DEF ModeInHand, ModeKept
  <2> QED BY <2>1, <2>2 DEF RunsSwept
<1> QED BY <1>1, <1>2, <1>3, PTL DEF ShellSpec

----------------------------------------------------------------------------
(* The console: its veil and its width.                                     *)

ConsolesTypeOK ==
  /\ place \in {"terminal", "chat"} /\ con \in {"off", "booting", "ready", "failed"}
  /\ progress \in {"none", "download", "kernel"} /\ game \in {"no", "importing", "on"}
  /\ cols \in Cols /\ stty \in Seq(Cols)

\* Only a boot under way can be stalled, after a report or early, and "kernel"
\* with a report means that this boot's kernel prints.
VeilTrue ==
  /\ stalled => con = "booting" /\ place = "terminal" /\ (printing \/ early)
  /\ reported /\ progress = "kernel" => printing
  /\ place = "terminal" /\ con = "off" => progress = "none"
  /\ place = "terminal" /\ veilGone => ~VeilUp /\ game = "no"

\* The last stty on its way is of the terminal's width; before the terminal
\* page's machine is ready no width is taken for sent.
WidthTrue ==
  /\ con = "ready" /\ ~astray => IF stty = <<>> THEN tty = cols ELSE stty[Len(stty)] = cols
  /\ IF place = "terminal" THEN last = IF con = "ready" THEN cols ELSE 0 ELSE last \in {0, cols}

ConsolesInv == ConsolesTypeOK /\ VeilTrue /\ WidthTrue

----------------------------------------------------------------------------
LEMMA ConsolesInitInv == ASSUME ConsolesAssumption PROVE ConsolesInit => ConsolesInv
<1>1. Widest \in Cols
  BY DEF ConsolesAssumption, Widest
<1> QED
  BY <1>1 DEF ConsolesInit, ConsolesInv, ConsolesTypeOK, VeilTrue, WidthTrue, VeilUp, Booting

\* The steps of the veil leave the width alone.
LEMMA VeilSteps ==
  ASSUME ConsolesInv, Download \/ Kernel \/ Stall \/ Faded \/ Play \/ Imported
  PROVE  ConsolesInv'
<1> USE DEF ConsolesInv, ConsolesTypeOK
<1>1. UNCHANGED <<place, con, size>>
  BY DEF Download, Kernel, Stall, Faded, Play, Imported
<1>2. WidthTrue'
  BY <1>1 DEF size, WidthTrue
<1>3. CASE Download
  BY <1>1, <1>2, <1>3 DEF Download, VeilTrue, VeilUp, Booting, size
<1>4. CASE Kernel
  BY <1>1, <1>2, <1>4 DEF Kernel, VeilTrue, VeilUp, Booting, size
<1>5. CASE Stall
  BY <1>1, <1>2, <1>5 DEF Stall, VeilTrue, VeilUp, Booting, size
<1>6. CASE Faded
  BY <1>1, <1>2, <1>6 DEF Faded, VeilTrue, VeilUp, Booting, size
<1>7. CASE Play
  BY <1>1, <1>2, <1>7 DEF Play, VeilTrue, VeilUp, Booting, size
<1>8. CASE Imported
  BY <1>1, <1>2, <1>8 DEF Imported, VeilTrue, VeilUp, Booting, size
<1> QED  BY <1>3, <1>4, <1>5, <1>6, <1>7, <1>8

LEMMA BootConsoleKeeps == ConsolesInv /\ BootConsole => ConsolesInv'
<1> SUFFICES ASSUME ConsolesInv, BootConsole PROVE ConsolesInv'  OBVIOUS
<1> USE DEF ConsolesInv, ConsolesTypeOK
<1>1. VeilTrue'
  BY DEF BootConsole, VeilTrue, VeilUp, Booting
<1>2. WidthTrue'
  BY DEF BootConsole, WidthTrue
<1> QED  BY <1>1, <1>2 DEF BootConsole

LEMMA ConsoleFailsKeeps == ConsolesInv /\ ConsoleFails => ConsolesInv'
  BY DEF ConsolesInv, ConsolesTypeOK, VeilTrue, VeilUp, Booting, WidthTrue, ConsoleFails, size, Unstalled

LEMMA ConsoleReadyKeeps ==
  ASSUME ConsolesAssumption, ConsolesInv, ConsoleReady
  PROVE  ConsolesInv'
<1> USE DEF ConsolesInv, ConsolesTypeOK
<1>1. VeilTrue'
  BY DEF ConsoleReady, VeilTrue, VeilUp, Booting, Unstalled
<1>2. ~(place = "terminal" /\ cols = last)
  BY DEF ConsoleReady, WidthTrue, ConsolesAssumption
<1>3. stty' = Append(stty, cols) /\ UNCHANGED cols /\ con' = "ready"
  BY <1>2 DEF ConsoleReady, SetConsoleSize
<1>4. ConsolesTypeOK'
  BY <1>3 DEF ConsoleReady
<1>5. stty' # <<>> /\ stty'[Len(stty')] = cols
  BY <1>3
<1>6. WidthTrue'
  BY <1>3, <1>5 DEF ConsoleReady, WidthTrue
<1> QED  BY <1>1, <1>4, <1>6

\* A new width is sent, and is the last one on its way; or the machine is not
\* ready, and is told when it is.
LEMMA ResizeKeeps ==
  ASSUME ConsolesAssumption, ConsolesInv, NEW c \in Cols, Resize(c)
  PROVE  ConsolesInv'
<1> USE DEF ConsolesInv, ConsolesTypeOK
<1>1. VeilTrue'
  BY DEF Resize, veil, VeilTrue, VeilUp, Booting
<1>2. cols' = c /\ c # cols /\ c # 0 /\ c # last /\ UNCHANGED <<place, con, tty>>
  BY DEF Resize, WidthTrue, ConsolesAssumption
<1>3. stty' = IF con = "ready" THEN Append(stty, c) ELSE stty
  BY <1>2 DEF Resize, SetConsoleSize
<1>4. ConsolesTypeOK'
  BY <1>2, <1>3 DEF Resize, veil
<1>5. last' = IF place = "chat" \/ con = "ready" THEN c ELSE last
  BY DEF Resize, Remembers
<1>6. con = "ready" => stty' # <<>> /\ stty'[Len(stty')] = c
  BY <1>3
<1>7. WidthTrue'
  BY <1>2, <1>5, <1>6 DEF WidthTrue
<1> QED  BY <1>1, <1>4, <1>7

\* Without its i-th the sttys on their way keep the last, unless it is that one.
LEMMA WithoutKeepsLast ==
  ASSUME stty \in Seq(Cols), NEW i \in DOMAIN stty
  PROVE  /\ Without(i) \in Seq(Cols) /\ Len(Without(i)) = Len(stty) - 1
         /\ i # Len(stty) => Without(i)[Len(stty) - 1] = stty[Len(stty)]
<1> DEFINE n == Len(stty)
           first == SubSeq(stty, 1, i - 1)
           rest == SubSeq(stty, i + 1, n)
<1>1. n \in Nat /\ i \in 1 .. n
  OBVIOUS
<1>2. first \in Seq(Cols) /\ Len(first) = i - 1
  <2>1. CASE i = 1
    BY <1>1, <2>1, SubSeqProperties
  <2>2. CASE i > 1
    BY <1>1, <2>2, SubSeqProperties
  <2> QED BY <1>1, <2>1, <2>2
<1>3. rest \in Seq(Cols) /\ Len(rest) = n - i /\ (i # n => rest[n - i] = stty[n])
  <2>1. CASE i = n
    BY <1>1, <2>1, SubSeqProperties
  <2>2. CASE i < n
    <3>1. \A k \in i + 1 .. n : stty[k] \in Cols
      BY <1>1
    <3>2. rest \in Seq(Cols) /\ Len(rest) = n - i
      BY <1>1, <2>2, SubSeqProperties
    <3>3. \A m \in Nat, k \in Nat : k < m => m - k \in 1 .. (m - (k + 1) + 1) /\ (k + 1) + (m - k) - 1 = m
      OBVIOUS
    <3>4. n - i \in 1 .. (n - (i + 1) + 1) /\ (i + 1) + (n - i) - 1 = n
      <4>1. i \in Nat /\ n \in Nat /\ i < n
        BY <1>1, <2>2
      <4> HIDE DEF n, rest, first
      <4> QED BY <3>3, <4>1, Zenon
    <3>5. \A k \in 1 .. (n - (i + 1) + 1) : rest[k] = stty[(i + 1) + k - 1]
      BY <1>1, <2>2
    <3>6. rest[n - i] = stty[n]
      BY <3>4, <3>5
    <3> QED BY <3>2, <3>6
  <2> QED BY <1>1, <2>1, <2>2
<1> HIDE DEF first, rest
<1>4. /\ first \o rest \in Seq(Cols) /\ Len(first \o rest) = n - 1
      /\ i # n => (first \o rest)[n - 1] = rest[n - i]
  BY <1>1, <1>2, <1>3, ConcatProperties
<1> QED BY <1>1, <1>3, <1>4 DEF Without, first, rest

LEMMA SttyEnds ==
  ASSUME ConsolesInv, NEW i, SttyDone(i) \/ SttyFails(i)
  PROVE  ConsolesInv'
<1> USE DEF ConsolesInv, ConsolesTypeOK
<1>1. VeilTrue'
  BY DEF SttyDone, SttyFails, veil, VeilTrue, VeilUp, Booting
<1>2. /\ i \in 1 .. Len(stty) /\ i \in DOMAIN stty /\ stty # <<>> /\ Len(stty) \in Nat
      /\ stty' = Without(i) /\ UNCHANGED <<place, con, cols, last>>
  BY DEF SttyDone, SttyFails
<1>3. /\ stty' \in Seq(Cols) /\ Len(stty') = Len(stty) - 1
      /\ i # Len(stty) => stty' # <<>> /\ stty'[Len(stty')] = stty[Len(stty)]
  BY <1>2, WithoutKeepsLast
<1>4. ConsolesTypeOK'
  BY <1>2, <1>3 DEF SttyDone, SttyFails, veil
<1>5. ~astray' => ~astray /\ (i = Len(stty) => i = 1 /\ tty' = stty[1])
  <2>1. CASE SttyDone(i)
    <3>1. tty' = stty[i] /\ astray' = (astray \/ (i = Len(stty) /\ i > 1))
      BY <2>1 DEF SttyDone
    <3>2. ~astray' => ~astray /\ ~(i = Len(stty) /\ i > 1)
      BY <3>1, Zenon
    <3>3. i > 1 \/ i = 1
      BY <1>2
    <3> QED BY <3>1, <3>2, <3>3
  <2>2. CASE SttyFails(i)
    <3>1. astray' = (astray \/ i = Len(stty))
      BY <2>2 DEF SttyFails
    <3>2. ~astray' => ~astray /\ i # Len(stty)
      BY <3>1, Zenon
    <3> QED BY <3>2
  <2> QED BY <2>1, <2>2
<1>6. i = Len(stty) /\ i = 1 => stty' = <<>>
  BY <1>3
<1>7. WidthTrue'
  BY <1>2, <1>3, <1>5, <1>6 DEF WidthTrue
<1> QED  BY <1>1, <1>4, <1>7

LEMMA CapsuleKeeps == ConsolesInv /\ Capsule => ConsolesInv'
  BY DEF ConsolesInv, ConsolesTypeOK, VeilTrue, VeilUp, Booting, WidthTrue, Capsule, veil

\* The veil drops early only over a kernel that prints, or over a boot that had
\* reported nothing for thirty seconds after one that got to its kernel; the game
\* does not outlive the veil; the guest has the terminal's width once its sttys
\* are done, unless the one sent last failed or was overtaken: terminal.tsx and
\* vm-console.tsx, for any number of boots and sizes, in whatever order the guest
\* ends its sttys.
THEOREM ConsolesKeepTheirWord ==
  ASSUME ConsolesAssumption
  PROVE  ConsolesSpec => []ConsolesTrue
<1>1. ASSUME ConsolesInv, [ConsolesNext]_consolesVars PROVE ConsolesInv'
  <2>1. CASE UNCHANGED consolesVars
    BY <1>1, <2>1 DEF consolesVars, veil, size, ConsolesInv, ConsolesTypeOK, VeilTrue, VeilUp, Booting, WidthTrue
  <2> QED
    BY <1>1, <2>1, VeilSteps, BootConsoleKeeps, ConsoleFailsKeeps, ConsoleReadyKeeps, ResizeKeeps, SttyEnds,
       CapsuleKeeps DEF ConsolesNext
<1>2. ConsolesInv => ConsolesTrue
  BY DEF ConsolesInv, ConsolesTrue, ConsolesTypeOK, VeilTrue, WidthTrue, Booting
<1> QED  BY <1>1, <1>2, ConsolesInitInv, PTL DEF ConsolesSpec

----------------------------------------------------------------------------
(* Around a machine: its bar, the volume knob and the serial port.          *)

Whereabouts == {"idle", "waiting", "opening", "open", "closing"}

GearTypeOK ==
  /\ vm \in {"off", "booting", "ready", "failed"} /\ emu \in Nat
  /\ bar \in Nat /\ hit \in Nat /\ kernel \in BOOLEAN /\ fetched \in [1 .. Images -> Nat]
  /\ graph \in Nat /\ told \in Nat
  /\ attach \in [Ports -> Whereabouts] /\ awaits \in [Ports -> Ports \cup {"none"}] /\ crossed \subseteq Ports

\* A graph is that of the machine, which the knob did not reach before it was up.
SoundTrue ==
  /\ graph # 0 => graph = emu /\ vm \in {"booting", "ready"}
  /\ told <= emu /\ (vm \in {"booting", "ready"} => emu # 0 /\ (graph = 0 => told # emu))
  /\ graph # 0 /\ told = graph => gain.of = graph /\ gain.at = knob

\* A port that is opened over another one is crossed, and so is that one.
PortTrue ==
  /\ writer \in Ports \cup {"none"} /\ SerialTrue
  /\ \A p \in Ports : attach[p] = "opening" =>
       /\ \A q \in Ports \ {p} : attach[q] = "opening" => p \in crossed
       /\ writer # "none" => p \in crossed /\ writer \in crossed

\* A milestone is a line of the console; a file reports what it has.
HitTrue   == ~kernel => hit = 0
FetchTrue == \A i \in 1 .. Images : fetched[i] <= Grain

GearInv == GearTypeOK /\ BarTrue /\ HitTrue /\ FetchTrue /\ SoundTrue /\ PortTrue

----------------------------------------------------------------------------
LEMMA ShareFits ==
  ASSUME GearAssumption
  PROVE  DownloadShare \in Nat /\ Full = DownloadShare + Lines + 1 /\ Lines \in Nat
  BY DEF GearAssumption, DownloadShare, Full

\* No report takes the bar past the downloads' share.
LEMMA SumFits ==
  ASSUME GearAssumption, NEW f
  PROVE  Sum(f) \in Nat /\ Sum(f) <= DownloadShare
<1> DEFINE steps == (1 .. Images) \X (1 .. Grain)
           noted  == {step \in steps : step[2] <= f[step[1]]}
<1>1. Images \in Nat /\ Grain \in Nat
  BY DEF GearAssumption
<1>2. /\ IsFiniteSet(1 .. Images) /\ Cardinality(1 .. Images) = Images
      /\ IsFiniteSet(1 .. Grain) /\ Cardinality(1 .. Grain) = Grain
  BY <1>1, FS_Interval
<1>3. IsFiniteSet(steps) /\ Cardinality(steps) = Images * Grain
  <2>1. PICK A, B : A = 1 .. Images /\ B = 1 .. Grain
    OBVIOUS
  <2>2. IsFiniteSet(A \X B) /\ Cardinality(A \X B) = Cardinality(A) * Cardinality(B)
    BY <1>2, <2>1, FS_Product
  <2> QED  BY <1>2, <2>1, <2>2
<1>4. noted \subseteq steps
  OBVIOUS
<1> HIDE DEF steps, noted
<1>5. IsFiniteSet(noted) /\ Cardinality(noted) \in Nat /\ Cardinality(noted) <= Images * Grain
  BY <1>3, <1>4, FS_Subset, FS_CardinalityType
<1>6. Sum(f) = Cardinality(noted)
  BY DEF Sum, noted, steps
<1>7. Images * Grain = Grain * Images
  BY <1>1
<1> QED  BY <1>5, <1>6, <1>7 DEF DownloadShare

\* A report goes on from where the bar was.
LEMMA SumGrows ==
  ASSUME GearAssumption, NEW f, NEW g, f \in [1 .. Images -> Nat], g \in [1 .. Images -> Nat],
         \A i \in 1 .. Images : f[i] <= g[i]
  PROVE  Sum(f) <= Sum(g)
<1> DEFINE steps == (1 .. Images) \X (1 .. Grain)
           less  == {step \in steps : step[2] <= f[step[1]]}
           more  == {step \in steps : step[2] <= g[step[1]]}
<1>1. Images \in Nat /\ Grain \in Nat
  BY DEF GearAssumption
<1>2. less \subseteq more
  <2>1. ASSUME NEW step \in less PROVE step \in more
    <3>1. step[1] \in 1 .. Images /\ step[2] \in 1 .. Grain /\ step[2] <= f[step[1]]
      OBVIOUS
    <3>2. step[2] <= g[step[1]]
      BY <1>1, <3>1
    <3> QED  BY <3>2
  <2> QED  BY <2>1
<1>3. IsFiniteSet(more)
  <2>1. IsFiniteSet(1 .. Images) /\ IsFiniteSet(1 .. Grain)
    BY <1>1, FS_Interval
  <2>2. IsFiniteSet(steps)
    BY <2>1, FS_Product
  <2> QED  BY <2>2, FS_Subset
<1> HIDE DEF less, more, steps
<1>4. Cardinality(less) <= Cardinality(more)
  BY <1>2, <1>3, FS_Subset
<1> QED  BY <1>4 DEF Sum, less, more, steps

\* NoneFetched was reported of a boot that begins.
LEMMA SumOfNothing ==
  ASSUME GearAssumption
  PROVE  Sum(NoneFetched) = 0
<1>1. {step \in (1 .. Images) \X (1 .. Grain) : step[2] <= NoneFetched[step[1]]} = {}
  BY DEF GearAssumption, NoneFetched
<1> QED  BY <1>1, FS_EmptySet DEF Sum

LEMMA GearInitInv == ASSUME GearAssumption PROVE GearInit => GearInv
<1> SUFFICES ASSUME GearInit PROVE GearInv
  OBVIOUS
<1>1. GearTypeOK
  BY DEF GearInit, GearTypeOK, Whereabouts, NoneFetched, GearAssumption
<1>2. HitTrue /\ FetchTrue
  BY DEF GearInit, HitTrue, FetchTrue, NoneFetched, GearAssumption
<1>3. PortTrue
  BY DEF GearInit, PortTrue, SerialTrue
<1>4. BarTrue /\ SoundTrue
  BY DEF GearInit, BarTrue, SoundTrue
<1> QED  BY <1>1, <1>2, <1>3, <1>4 DEF GearInv

\* What the bar does is nothing to the sound and the port.
LEMMA BarApart ==
  ASSUME GearInv, vm = "booting", vm' \in {"booting", "ready"}, UNCHANGED <<emu, sound, serial>>
  PROVE  SoundTrue' /\ PortTrue' /\ (attach \in [Ports -> Whereabouts])' /\ (awaits \in [Ports -> Ports \cup {"none"}])'
         /\ crossed' \subseteq Ports /\ graph' \in Nat /\ told' \in Nat /\ emu' \in Nat
  BY DEF GearInv, GearTypeOK, SoundTrue, PortTrue, SerialTrue, sound, serial

LEMMA BarSteps ==
  ASSUME GearAssumption, GearInv,
         FirstByte \/ GearReady \/ (\E i \in 1 .. Images, done \in 0 .. Grain : Progress(i, done))
           \/ (\E k \in 1 .. Lines : Milestone(k))
  PROVE  GearInv'
<1> DEFINE BarTypes == bar' \in Nat /\ hit' \in Nat /\ kernel' \in BOOLEAN /\ fetched' \in [1 .. Images -> Nat]
<1>0. DownloadShare \in Nat /\ Full = DownloadShare + Lines + 1 /\ Lines \in Nat /\ Images \in Nat /\ Grain \in Nat
  BY ShareFits DEF GearAssumption
<1>h. Sum(fetched) \in Nat /\ Sum(fetched) <= DownloadShare
  BY SumFits
<1>t. /\ bar \in Nat /\ hit \in Nat /\ kernel \in BOOLEAN /\ fetched \in [1 .. Images -> Nat]
      /\ vm = "booting" => bar = (IF kernel THEN DownloadShare + hit ELSE Sum(fetched)) /\ bar < Full
  BY DEF GearInv, GearTypeOK, BarTrue
<1>1. ASSUME FirstByte PROVE BarTypes /\ BarTrue'
  <2>1. vm = "booting" /\ vm' = vm /\ ~kernel /\ kernel' = TRUE /\ bar' = DownloadShare /\ fetched' = fetched /\ hit' = hit
    BY <1>1, <1>0, <1>h, <1>t DEF FirstByte, EmitProgress
  <2>2. hit = 0
    BY <2>1 DEF GearInv, HitTrue
  <2> QED  BY <1>0, <1>t, <2>1, <2>2 DEF BarTrue
<1>2. ASSUME GearReady PROVE BarTypes /\ BarTrue'
  <2>1. vm' = "ready" /\ bar' = Full /\ UNCHANGED <<fetched, kernel, hit>>
    BY <1>2, <1>0, <1>t DEF GearReady, EmitProgress
  <2> QED  BY <1>0, <1>t, <2>1 DEF BarTrue
<1>3. ASSUME NEW i \in 1 .. Images, NEW done \in 0 .. Grain, Progress(i, done) PROVE BarTypes /\ BarTrue'
  <2>1. PICK f : f = fetched'
    OBVIOUS
  <2>2. f = [j \in 1 .. Images |-> IF j < i THEN Grain ELSE IF j = i /\ done > fetched[i] THEN done ELSE fetched[j]]
        /\ EmitProgress(Sum(f)) /\ vm = "booting" /\ UNCHANGED <<vm, kernel, hit>>
    BY <1>3, <2>1 DEF Progress
  <2>3. f \in [1 .. Images -> Nat] /\ \A j \in 1 .. Images : j >= i => fetched[j] <= f[j]
    BY <1>0, <1>t, <2>2
  <2>4. \A j \in 1 .. Images : fetched[j] <= f[j]
    BY <1>0, <2>2, <2>3 DEF GearInv, FetchTrue
  <2>5. Sum(f) \in Nat /\ Sum(f) <= DownloadShare /\ Sum(fetched) <= Sum(f)
    BY <1>t, <2>3, <2>4, SumFits, SumGrows
  <2>6. bar' = IF kernel THEN bar ELSE Sum(f)
    BY <1>0, <1>h, <1>t, <2>2, <2>5 DEF EmitProgress
  <2>7. CASE kernel
    BY <1>t, <2>1, <2>2, <2>3, <2>6, <2>7 DEF BarTrue
  <2>8. CASE ~kernel
    <3>1. bar' = Sum(f) /\ Sum(f) < Full
      BY <1>0, <2>5, <2>6, <2>8
    <3> QED  BY <1>t, <2>1, <2>2, <2>3, <2>5, <2>8, <3>1 DEF BarTrue
  <2> QED  BY <2>7, <2>8
<1>4. ASSUME NEW k \in 1 .. Lines, Milestone(k) PROVE BarTypes /\ BarTrue'
  <2>1. vm = "booting" /\ kernel /\ k > hit /\ hit' = k /\ EmitProgress(DownloadShare + k) /\ UNCHANGED <<vm, fetched, kernel>>
    BY <1>4, <1>0, <1>t DEF Milestone
  <2>2. bar' = DownloadShare + k
    BY <1>0, <1>t, <2>1 DEF EmitProgress
  <2> QED  BY <1>0, <1>t, <2>1, <2>2 DEF BarTrue
<1>5. vm = "booting" /\ vm' \in {"booting", "ready"} /\ UNCHANGED <<emu, sound, serial>>
  BY DEF FirstByte, GearReady, Progress, Milestone
<1>6. BarTypes /\ BarTrue'
  BY <1>1, <1>2, <1>3, <1>4
<1>7. HitTrue' /\ FetchTrue'
  <2>1. HitTrue'
    BY <1>t DEF GearInv, HitTrue, FirstByte, GearReady, Progress, Milestone
  <2>2. FetchTrue'
    <3>1. CASE UNCHANGED fetched
      BY <3>1 DEF GearInv, FetchTrue
    <3>2. ASSUME NEW i \in 1 .. Images, NEW done \in 0 .. Grain, Progress(i, done) PROVE FetchTrue'
      <4>1. fetched' = [j \in 1 .. Images |-> IF j < i THEN Grain ELSE IF j = i /\ done > fetched[i] THEN done ELSE fetched[j]]
        BY <3>2 DEF Progress
      <4> QED  BY <1>0, <1>t, <4>1 DEF GearInv, FetchTrue
    <3> QED  BY <3>1, <3>2 DEF FirstByte, GearReady, Milestone
  <2> QED  BY <2>1, <2>2
<1> QED  BY <1>5, <1>6, <1>7, BarApart DEF GearInv, GearTypeOK

LEMMA StartBootKeeps ==
  ASSUME GearAssumption, GearInv, StartBoot
  PROVE  GearInv'
<1>1. vm' = "booting" /\ bar' = 0 /\ fetched' = NoneFetched /\ kernel' = FALSE /\ hit' = 0
  BY DEF StartBoot
<1>2. BarTrue'
  <2>1. 0 < Full /\ Sum(NoneFetched) = 0
    BY ShareFits, SumOfNothing
  <2> QED  BY <1>1, <2>1 DEF BarTrue
<1>3. SoundTrue'
  BY DEF GearInv, GearTypeOK, StartBoot, SoundTrue, sound
<1>4. PortTrue'
  BY DEF GearInv, StartBoot, PortTrue, SerialTrue, serial
<1>5. HitTrue' /\ FetchTrue' /\ fetched' \in [1 .. Images -> Nat]
  BY <1>1 DEF HitTrue, FetchTrue, NoneFetched, GearAssumption
<1>6. (attach \in [Ports -> Whereabouts])' /\ (awaits \in [Ports -> Ports \cup {"none"}])' /\ crossed' \subseteq Ports
      /\ graph' \in Nat /\ told' \in Nat /\ emu' \in Nat
  BY DEF GearInv, GearTypeOK, StartBoot, sound, serial
<1> QED  BY <1>1, <1>2, <1>3, <1>4, <1>5, <1>6 DEF GearInv, GearTypeOK

\* A machine that ends takes its graph along; the knob stays.
LEMMA SoundEnds ==
  ASSUME GearInv, graph' = 0, vm' \in {"off", "failed"}, UNCHANGED <<emu, boot, gain, knob, told>>
  PROVE  BarTrue' /\ HitTrue' /\ FetchTrue' /\ SoundTrue'
  BY DEF GearInv, GearTypeOK, BarTrue, HitTrue, FetchTrue, SoundTrue, boot

\* What a port's end leaves open outside the crossed ones was not the serial port.
LEMMA PortLetGo ==
  ASSUME GearAssumption, GearInv, NEW p \in Ports, attach[p] = "open", Detaching(p)
  PROVE  PortTrue' /\ attach' \in [Ports -> Whereabouts] /\ crossed' \subseteq Ports /\ UNCHANGED awaits
<1>1. /\ attach \in [Ports -> Whereabouts] /\ crossed \subseteq Ports /\ writer \in Ports \cup {"none"} /\ PortTrue /\ SerialTrue
      /\ "none" \notin Ports
  BY DEF GearAssumption, GearInv, GearTypeOK, PortTrue
<1>2. attach' = [attach EXCEPT ![p] = "closing"] /\ writer' = "none" /\ detacher' = "none" /\ UNCHANGED awaits
  BY DEF Detaching, LetGo
<1>3. CASE p \in crossed
  <2>1. crossed' = (crossed \cup ({writer} \cap Ports)) \ {p}
    BY <1>3 DEF Detaching, LetGo
  <2> QED  BY <1>1, <1>2, <2>1 DEF PortTrue, SerialTrue, Whereabouts
<1>4. CASE p \notin crossed
  <2>1. crossed' = crossed /\ writer = p
    BY <1>1, <1>4 DEF Detaching, LetGo, SerialTrue
  <2> QED  BY <1>1, <1>2, <2>1 DEF PortTrue, SerialTrue, Whereabouts
<1> QED  BY <1>3, <1>4

LEMMA DestroyGearKeeps ==
  ASSUME GearAssumption, GearInv, NEW by \in {"person", "failure"}, DestroyGear(by)
  PROVE  GearInv'
<1>1. graph' = 0 /\ vm' \in {"off", "failed"} /\ UNCHANGED <<emu, boot, gain, knob, told>>
  BY DEF DestroyGear
<1>2. BarTrue' /\ HitTrue' /\ FetchTrue' /\ SoundTrue'
  BY <1>1, SoundEnds
<1>3. UNCHANGED serial \/ (detacher # "none" /\ Detaching(detacher))
  BY DEF DestroyGear
<1>4. PortTrue' /\ attach' \in [Ports -> Whereabouts] /\ crossed' \subseteq Ports /\ awaits' \in [Ports -> Ports \cup {"none"}]
  <2>1. CASE UNCHANGED serial
    BY <2>1 DEF serial, PortTrue, SerialTrue, GearInv, GearTypeOK
  <2>2. CASE detacher # "none" /\ Detaching(detacher)
    <3>1. detacher \in Ports /\ attach[detacher] = "open"
      BY <2>2 DEF GearInv, PortTrue, SerialTrue
    <3> QED  BY <2>2, <3>1, PortLetGo DEF GearInv, GearTypeOK
  <2> QED  BY <1>3, <2>1, <2>2
<1> QED  BY <1>1, <1>2, <1>4 DEF boot, GearInv, GearTypeOK

LEMMA GraphUpKeeps == GearInv /\ GraphUp => GearInv'
  BY DEF GearInv, GearTypeOK, GraphUp, BarTrue, HitTrue, FetchTrue, SoundTrue, PortTrue, SerialTrue, boot, serial

\* The knob reaches the graph that is up, or knows that none is.
LEMMA ApplyKeeps ==
  ASSUME GearInv, NEW level, Apply(level), knob' = level, UNCHANGED <<vm, emu, boot, graph, serial>>
  PROVE  GearInv'
<1>1. BarTrue' /\ HitTrue' /\ FetchTrue' /\ PortTrue'
  BY DEF GearInv, BarTrue, HitTrue, FetchTrue, PortTrue, SerialTrue, boot, serial
<1>2. SoundTrue' /\ told' \in Nat
  BY DEF GearInv, GearTypeOK, Apply, Splice, SoundTrue
<1> QED  BY <1>1, <1>2 DEF GearInv, GearTypeOK, boot, serial

LEMMA KnobSteps ==
  ASSUME GearInv, Poll \/ \E level \in Levels : Turn(level)
  PROVE  GearInv'
  BY ApplyKeeps DEF Poll, Turn

----------------------------------------------------------------------------
\* A port whose attach goes on crosses those that are on their way, and closes
\* the one that is attached.
LEMMA ReplaceKeeps ==
  ASSUME GearAssumption, GearInv, NEW p \in Ports, Replace(p)
  PROVE  PortTrue' /\ attach' \in [Ports -> Whereabouts] /\ crossed' \subseteq Ports /\ awaits' \in [Ports -> Ports \cup {"none"}]
<1>1. /\ attach \in [Ports -> Whereabouts] /\ crossed \subseteq Ports /\ awaits \in [Ports -> Ports \cup {"none"}]
      /\ writer \in Ports \cup {"none"} /\ writer = detacher /\ "none" \notin Ports /\ PortTrue /\ SerialTrue
  BY DEF GearAssumption, GearInv, GearTypeOK, PortTrue, SerialTrue
<1>2. attach[p] = "waiting"
  BY DEF Replace
<1>3. Crossing(p) \subseteq Ports /\ \A q \in Ports \ {p} : attach[q] = "opening" => q \in Crossing(p) /\ p \in Crossing(p)
  BY DEF Crossing, Beside
<1> HIDE DEF Crossing
<1>4. CASE detacher = "none"
  <2>1. attach' = [attach EXCEPT ![p] = "opening"] /\ crossed' = crossed \cup Crossing(p) /\ UNCHANGED <<awaits, writer, detacher>>
    BY <1>4 DEF Replace
  <2> QED  BY <1>1, <1>2, <1>3, <1>4, <2>1 DEF PortTrue, SerialTrue, Whereabouts
<1>5. CASE detacher # "none"
  <2>1. detacher \in Ports /\ attach[detacher] = "open" /\ detacher # p
    BY <1>1, <1>2, <1>5 DEF SerialTrue
  <2>2. /\ attach' = [q \in Ports |-> IF q = p THEN "opening" ELSE IF q = detacher THEN "closing" ELSE attach[q]]
        /\ awaits' = [awaits EXCEPT ![p] = detacher]
        /\ writer' = "none" /\ detacher' = "none" /\ crossed' = (crossed \ {detacher}) \cup Crossing(p)
    BY <1>5 DEF Replace
  <2>3. attach' \in [Ports -> Whereabouts] /\ crossed' \subseteq Ports /\ awaits' \in [Ports -> Ports \cup {"none"}]
    BY <1>1, <1>3, <2>1, <2>2 DEF Whereabouts
  <2>4. SerialTrue'
    BY <1>1, <2>1, <2>2 DEF SerialTrue
  <2>5. \A a, b \in Ports : a # b /\ attach'[a] = "opening" /\ attach'[b] = "opening" => a \in crossed'
    BY <1>1, <1>3, <2>1, <2>2 DEF PortTrue
  <2> QED  BY <2>2, <2>3, <2>4, <2>5 DEF PortTrue
<1> QED  BY <1>4, <1>5

\* Steps of a port, with the rest as it is.
LEMMA PortSteps ==
  ASSUME GearAssumption, GearInv, NEW p \in Ports,
         AttachPort(p) \/ Replace(p) \/ AttachRefused(p) \/ Detach(p) \/ PortClosed(p) \/ (\E ok \in BOOLEAN : Opened(p, ok))
  PROVE  GearInv'
<1>1. UNCHANGED <<vm, emu, boot, sound>>
  BY DEF AttachPort, Replace, AttachRefused, Detach, PortClosed, Opened
<1>2. BarTrue' /\ HitTrue' /\ FetchTrue' /\ SoundTrue'
  BY <1>1 DEF GearInv, BarTrue, HitTrue, FetchTrue, SoundTrue, boot, sound
<1>3. /\ attach \in [Ports -> Whereabouts] /\ crossed \subseteq Ports /\ awaits \in [Ports -> Ports \cup {"none"}]
      /\ writer \in Ports \cup {"none"} /\ "none" \notin Ports /\ PortTrue /\ SerialTrue
  BY DEF GearAssumption, GearInv, GearTypeOK, PortTrue
<1> DEFINE Kept == PortTrue' /\ attach' \in [Ports -> Whereabouts] /\ crossed' \subseteq Ports /\ awaits' \in [Ports -> Ports \cup {"none"}]
<1>4. Kept
  <2>1. CASE AttachPort(p)
    BY <1>3, <2>1 DEF AttachPort, PortTrue, SerialTrue, Whereabouts
  <2>2. CASE Replace(p)
    BY <2>2, ReplaceKeeps
  <2>3. CASE AttachRefused(p)
    BY <1>3, <2>3 DEF AttachRefused, PortTrue, SerialTrue, Whereabouts
  <2>4. CASE Detach(p)
    BY <1>3, <2>4, PortLetGo DEF Detach
  <2>5. CASE PortClosed(p)
    BY <1>3, <2>5 DEF PortClosed, PortTrue, SerialTrue, Whereabouts
  <2>6. ASSUME NEW ok \in BOOLEAN, Opened(p, ok) PROVE Kept
    <3>0. attach[p] = "opening" /\ UNCHANGED awaits
      BY <2>6 DEF Opened
    <3>1. CASE ok
      <4>1. attach' = [attach EXCEPT ![p] = "open"] /\ writer' = p /\ detacher' = p /\ crossed' = crossed
        BY <2>6, <3>1 DEF Opened
      <4> QED  BY <1>3, <3>0, <4>1 DEF PortTrue, SerialTrue, Whereabouts
    <3>2. CASE ~ok
      <4>1. attach' = [attach EXCEPT ![p] = "idle"] /\ crossed' = crossed \ {p} /\ UNCHANGED <<writer, detacher>>
        BY <2>6, <3>2 DEF Opened
      <4> QED  BY <1>3, <3>0, <4>1 DEF PortTrue, SerialTrue, Whereabouts
    <3> QED  BY <3>1, <3>2
  <2> QED  BY <2>1, <2>2, <2>3, <2>4, <2>5, <2>6
<1> QED  BY <1>1, <1>2, <1>4 DEF boot, sound, GearInv, GearTypeOK

\* The bar is where the boot is, a machine the knob once reached plays as loud as
\* it says, and the guest's serial bytes go to a port that is open, the only one
\* unless another was opened meanwhile: emitProgress, setVolume and attachSerial of
\* vm.ts, for any number of images, machines, levels and ports, whichever attaches overlap.
THEOREM GearKeepsItsWord == ASSUME GearAssumption PROVE GearSpec => []GearTrue
<1>1. ASSUME GearInv, [GearNext]_gearVars PROVE GearInv'
  <2>1. CASE UNCHANGED gearVars
    BY <1>1, <2>1 DEF gearVars, boot, sound, serial, GearInv, GearTypeOK, BarTrue, HitTrue, FetchTrue, SoundTrue, PortTrue, SerialTrue
  <2> QED
    BY <1>1, <2>1, BarSteps, StartBootKeeps, DestroyGearKeeps, GraphUpKeeps, KnobSteps, PortSteps DEF GearNext
<1>2. ASSUME GearInv PROVE GearTrue
  BY <1>2 DEF GearInv, GearTrue, SoundTrue, PortTrue, LoudAsTold, Heard
<1> QED  BY <1>1, <1>2, GearInitInv, PTL DEF GearSpec
----------------------------------------------------------------------------
(* /data/apps, whoever else edits it.                                       *)

Hands == {"tool", "seed"}
FileSets  == [Parts -> SUBSET Ids]
Landings  == [step : {"rows", "live"}, id : Ids, auto : BOOLEAN, read : FileSets, parts : SUBSET Parts]
PageEdits == [step : {"enable", "disable", "remove", "delete"}, id : Ids, read : FileSets]

AppsTypeOK ==
  /\ machine \in {"off", "booting", "replaying", "whole"} /\ owns \in BOOLEAN
  /\ rows \in FileSets /\ tree \in FileSets /\ wish \in FileSets
  /\ replay \in [rows : FileSets, left : SUBSET Parts] /\ windows \in SUBSET Ids
  /\ seeded \in SUBSET Ids /\ crossing \in SUBSET Ids
  /\ DOMAIN op = Callers
  /\ \A a \in Hands : op[a] = NoEdit \/ op[a] \in Landings
  /\ op["page"] = NoEdit \/ op["page"] \in PageEdits

\* An edit under way: whose it may be, and what it is to write.
EditsTrue ==
  /\ ~Free("page") => owns
  /\ ~Free("seed") => owns
  /\ ~owns => rows.given = seeded
  /\ \A a \in Hands : ~Free(a) =>
       /\ ~owns => op[a].read = rows
       /\ a = "tool" => op[a].parts = {"pkg"} \cup IF op[a].auto \/ (op[a].id \notin op[a].read.pkg /\ op[a].id \in op[a].read.on)
                                                   THEN {"on"} ELSE {}
       /\ a = "seed" => ~op[a].auto /\ op[a].id \notin op[a].read.given /\ op[a].parts = {"given"} \cup IF op[a].id \in op[a].read.pkg THEN {} ELSE {"pkg"}

\* What the person has asked for an app, up to now: a remove has first disabled it.
Deleting(id) == op["page"].step = "delete" /\ op["page"].id = id
Asked(part, id) == IF part = "given" THEN id \in seeded
                   ELSE IF part = "on" THEN id \in wish.on /\ ~Deleting(id) ELSE id \in wish.pkg

\* A line that has landed in the rows and not in the machine, and what it says.
Holds(a, id) == ~Free(a) /\ op[a].id = id
Moves(a, part, id) == op[a].step = "live" /\ op[a].id = id /\ part \in op[a].parts
Moving(part, id) == \E a \in Hands : Moves(a, part, id)
Lands(o, part) == part # "on" \/ o.auto \/ (o.id \in o.read.pkg /\ o.id \in o.read.on)

\* What the machine has once the replay is over.
Replayed(part, id) == IF part \in replay.left THEN id \in replay.rows[part] \/ (part = "pkg" /\ id \in tree.pkg) ELSE id \in tree[part]

TreeTrue(part, id)   == machine = "whole" => Moving(part, id) \/ (id \in tree[part] <=> Asked(part, id))
RowTrue(part, id)    == machine # "whole" => (owns /\ Moving(part, id)) \/ (id \in rows[part] <=> Asked(part, id))
ReplayTrue(part, id) == machine = "replaying" => Moving(part, id) \/ (Replayed(part, id) <=> Asked(part, id))
ReadTrue(a, part, id) ==
  Holds(a, id) => /\ id \in op[a].read[part] <=> Asked(part, id)
                  /\ Moves(a, part, id) /\ owns /\ machine # "whole" => (id \in rows[part] <=> Lands(op[a], part))
AloneTrue(id) == \A a, b \in Callers : Holds(a, id) /\ Holds(b, id) => a = b
WindowTrue(id) ==
  id \in windows /\ owns => /\ id \in wish.pkg \/ \E a \in Hands : Holds(a, id)
                            /\ Holds("page", id) => op["page"].step \notin {"remove", "delete"}

PartTrue(part, id) == TreeTrue(part, id) /\ RowTrue(part, id) /\ ReplayTrue(part, id) /\ \A a \in Hands : ReadTrue(a, part, id)
AppTrue(id) == AloneTrue(id) /\ WindowTrue(id) /\ \A part \in Parts : PartTrue(part, id)

AppsInv == AppsTypeOK /\ EditsTrue /\ (machine \in {"off", "booting"} => tree = NoFiles) /\ \A id \in Ids \ crossing : AppTrue(id)

----------------------------------------------------------------------------
LEMMA PartsAre ==
  ASSUME NEW f \in FileSets
  PROVE  /\ f.pkg \in SUBSET Ids /\ f.on \in SUBSET Ids /\ f.given \in SUBSET Ids
         /\ \A part \in Parts : f[part] \in SUBSET Ids
  BY DEF FileSets, Parts

LEMMA NoFilesIsEmpty == NoFiles \in FileSets /\ \A part \in Parts : NoFiles[part] = {}
  BY DEF NoFiles, FileSets, Parts

LEMMA InstallIs ==
  ASSUME NEW f \in FileSets, NEW id \in Ids, NEW auto \in BOOLEAN
  PROVE  /\ InstallIn(f, id, auto) \in FileSets
         /\ InstallIn(f, id, auto).pkg = f.pkg \cup {id} /\ InstallIn(f, id, auto).given = f.given
         /\ InstallIn(f, id, auto).on = IF auto THEN f.on \cup {id} ELSE IF id \in f.pkg THEN f.on ELSE f.on \ {id}
  BY DEF InstallIn, FileSets, Parts

LEMMA RemoveIs ==
  ASSUME NEW f \in FileSets, NEW id \in Ids
  PROVE  /\ RemoveFrom(f, id) \in FileSets /\ RemoveFrom(f, id).given = f.given
         /\ RemoveFrom(f, id).pkg = f.pkg \ {id} /\ RemoveFrom(f, id).on = f.on \ {id}
  BY DEF RemoveFrom, FileSets, Parts

LEMMA SetEnabledIs ==
  ASSUME NEW f \in FileSets, NEW id \in Ids, NEW on \in BOOLEAN
  PROVE  /\ SetEnabled(f, id, on) \in FileSets /\ SetEnabled(f, id, on).given = f.given
         /\ SetEnabled(f, id, on).pkg = f.pkg /\ SetEnabled(f, id, on).on = IF on THEN f.on \cup {id} ELSE f.on \ {id}
  BY DEF SetEnabled, FileSets, Parts

\* What a landing writes of a part.
LEMMA LandingIs ==
  ASSUME NEW a, op[a] \in Landings
  PROVE  /\ DOMAIN Landing(a) = op[a].parts
         /\ \A part \in op[a].parts :
              Landing(a)[part] = IF part = "pkg" THEN {op[a].id}
                                 ELSE IF part = "given" THEN op[a].read.given \cup {op[a].id}
                                 ELSE InstallIn(op[a].read, op[a].id, op[a].auto).on
<1>1. PICK o \in Landings : o = op[a]
  OBVIOUS
<1>2. o.id \in Ids /\ o.read \in FileSets /\ o.auto \in BOOLEAN /\ o.parts \in SUBSET Parts
  BY DEF Landings
<1>3. PICK new : new = InstallIn(o.read, o.id, o.auto)
  OBVIOUS
<1>4. new \in FileSets
  BY <1>2, <1>3 DEF InstallIn, FileSets, Parts
<1>5. PICK given : given = [new EXCEPT !.given = o.read.given \cup {o.id}]
  OBVIOUS
<1>6. given.on = new.on /\ given.given = o.read.given \cup {o.id}
  BY <1>4, <1>5 DEF FileSets, Parts
<1>7. Landing(a) = [part \in o.parts |-> IF part = "pkg" THEN {o.id} ELSE given[part]]
  BY <1>1, <1>3, <1>5 DEF Landing
<1>8. \A part \in o.parts : part = "pkg" \/ part = "given" \/ part = "on"
  BY <1>2 DEF Parts
<1> QED  BY <1>1, <1>3, <1>6, <1>7, <1>8

\* Its own app's line is as it says, another's as it was read.
LEMMA LandingSays ==
  ASSUME NEW a, op[a] \in Landings, NEW part \in op[a].parts, NEW id \in Ids
  PROVE  id \in Landing(a)[part] <=> IF id = op[a].id THEN Lands(op[a], part) ELSE part # "pkg" /\ id \in op[a].read[part]
<1>1. PICK o \in Landings : o = op[a]
  OBVIOUS
<1>2. o.id \in Ids /\ o.read \in FileSets /\ o.auto \in BOOLEAN /\ part \in Parts
  BY <1>1 DEF Landings
<1>3. /\ part = "pkg" => Landing(a)[part] = {o.id}
      /\ part = "given" => Landing(a)[part] = o.read.given \cup {o.id}
      /\ part = "on" => Landing(a)[part] = IF o.auto THEN o.read.on \cup {o.id} ELSE IF o.id \in o.read.pkg THEN o.read.on ELSE o.read.on \ {o.id}
  <2>1. InstallIn(o.read, o.id, o.auto).on = IF o.auto THEN o.read.on \cup {o.id} ELSE IF o.id \in o.read.pkg THEN o.read.on ELSE o.read.on \ {o.id}
    BY <1>2, InstallIs
  <2>2. Landing(a)[part] = IF part = "pkg" THEN {o.id} ELSE IF part = "given" THEN o.read.given \cup {o.id}
                           ELSE InstallIn(o.read, o.id, o.auto).on
    BY <1>1, LandingIs
  <2> QED  BY <2>1, <2>2
<1> QED  BY <1>1, <1>2, <1>3 DEF Lands, Parts

LEMMA LandedSays ==
  ASSUME NEW a, NEW files \in FileSets, op[a] \in Landings
  PROVE  /\ Landed(files, a) \in FileSets
         /\ \A part \in Parts, id \in Ids :
              id \in Landed(files, a)[part]
                <=> IF part \notin op[a].parts \/ (part = "pkg" /\ id # op[a].id) THEN id \in files[part]
                    ELSE IF id = op[a].id THEN Lands(op[a], part) ELSE id \in op[a].read[part]
<1>1. PICK w : w = Landing(a)
  OBVIOUS
<1>2. Landed(files, a) = [part \in Parts |-> IF part \notin op[a].parts THEN files[part] ELSE Land(files, part, w[part])[part]]
  BY <1>1, LandingIs DEF Landed
<1>3. \A part \in Parts : Land(files, part, w[part])[part] = IF part = "pkg" THEN files.pkg \cup w[part] ELSE w[part]
  BY DEF Land, FileSets
<1>4. PICK new : new = Landed(files, a)
  OBVIOUS
<1>5. \A part \in Parts : new[part] = IF part \notin op[a].parts THEN files[part] ELSE IF part = "pkg" THEN files.pkg \cup w[part] ELSE w[part]
  BY <1>2, <1>3, <1>4
<1>6. ASSUME NEW part \in Parts, NEW id \in Ids
      PROVE  id \in new[part]
               <=> IF part \notin op[a].parts \/ (part = "pkg" /\ id # op[a].id) THEN id \in files[part]
                   ELSE IF id = op[a].id THEN Lands(op[a], part) ELSE id \in op[a].read[part]
  <2>1. CASE part \notin op[a].parts
    BY <1>5, <2>1
  <2>2. CASE part \in op[a].parts
    <3>1. id \in w[part] <=> IF id = op[a].id THEN Lands(op[a], part) ELSE part # "pkg" /\ id \in op[a].read[part]
      BY <1>1, <2>2, LandingSays
    <3>2. part = "pkg" => Lands(op[a], part)
      BY DEF Lands
    <3>3. CASE part = "pkg"
      BY <1>5, <2>2, <3>1, <3>2, <3>3
    <3>4. CASE part # "pkg"
      BY <1>5, <2>2, <3>1, <3>4
    <3> QED  BY <3>3, <3>4
  <2> QED  BY <2>1, <2>2
<1>7. new \in FileSets
  <2>1. ASSUME NEW part \in Parts  PROVE new[part] \in SUBSET Ids
    <3>1. part \in op[a].parts => w[part] \in SUBSET Ids
      <4>1. PICK o \in Landings : o = op[a]
        OBVIOUS
      <4>2. o.id \in Ids /\ o.read \in FileSets /\ o.auto \in BOOLEAN
        BY DEF Landings
      <4>3. InstallIn(o.read, o.id, o.auto).on \in SUBSET Ids /\ o.read.given \in SUBSET Ids
        BY <4>2, InstallIs, PartsAre
      <4>4. part \in o.parts => w[part] = IF part = "pkg" THEN {o.id} ELSE IF part = "given" THEN o.read.given \cup {o.id}
                                          ELSE InstallIn(o.read, o.id, o.auto).on
        BY <1>1, <4>1, LandingIs
      <4> QED  BY <4>1, <4>2, <4>3, <4>4
    <3> QED  BY <1>5, <3>1, PartsAre
  <2>2. DOMAIN new = Parts /\ new = [part \in Parts |-> new[part]]
    BY <1>2, <1>4
  <2> QED  BY <2>1, <2>2 DEF FileSets
<1> QED  BY <1>4, <1>6, <1>7

----------------------------------------------------------------------------
LEMMA AppsInitInv == ASSUME AppsAssumption PROVE AppsInit => AppsInv
<1> SUFFICES ASSUME AppsInit PROVE AppsInv  OBVIOUS
<1>1. PICK p \in SUBSET Ids : rows = [pkg |-> p, on |-> Ids \ p, given |-> Bundled \cap p]
  BY DEF AppsInit
<1>2. rows \in FileSets
  BY <1>1 DEF FileSets, Parts
<1>3. /\ machine = "off" /\ owns \in BOOLEAN /\ tree = NoFiles /\ replay = [rows |-> NoFiles, left |-> {}]
      /\ op = [a \in Callers |-> NoEdit] /\ windows = {} /\ wish = rows /\ seeded = rows.given /\ crossing = {}
  BY DEF AppsInit
<1>4. \A a \in Callers : Free(a) /\ op[a] = NoEdit
  BY <1>3 DEF Free, NoEdit
<1>5. AppsTypeOK
  BY <1>2, <1>3, <1>4, NoFilesIsEmpty, PartsAre DEF AppsTypeOK, Callers, Hands
<1>6. EditsTrue
  BY <1>3, <1>4 DEF EditsTrue, Callers, Hands
<1>7. ASSUME NEW id \in Ids  PROVE AppTrue(id)
  <2>1. op["page"].step = "idle" /\ \A a \in Callers : ~Holds(a, id)
    BY <1>4 DEF Holds, Free, Callers
  <2>2. ASSUME NEW part \in Parts  PROVE PartTrue(part, id)
    <3>1. id \in rows[part] <=> Asked(part, id)
      BY <1>3, <2>1 DEF Asked, Deleting, Parts
    <3> QED  BY <1>3, <2>1, <3>1 DEF PartTrue, TreeTrue, RowTrue, ReplayTrue, ReadTrue, Hands, Callers
  <2> QED  BY <1>3, <2>1, <2>2 DEF AppTrue, AloneTrue, WindowTrue
<1> QED  BY <1>3, <1>5, <1>6, <1>7 DEF AppsInv

\* A boot begins, and reads the rows once it is up.
LEMMA BootAppsKeeps ==
  ASSUME AppsInv, BootApps \/ ReplayBegins
  PROVE  AppsInv'
<1>1. /\ UNCHANGED <<owns, rows, tree, op, windows, wish, seeded, crossing>> /\ tree = NoFiles
      /\ \/ machine = "off" /\ machine' = "booting" /\ UNCHANGED replay
         \/ machine = "booting" /\ machine' = "replaying" /\ replay' = [rows |-> rows, left |-> Parts]
  BY DEF BootApps, ReplayBegins, AppsInv
<1>2. AppsTypeOK' /\ EditsTrue'
  BY <1>1 DEF AppsInv, AppsTypeOK, EditsTrue, Free
<1>3. ASSUME NEW id \in Ids \ crossing  PROVE AppTrue(id)'
  <2>1. AppTrue(id)
    BY DEF AppsInv
  <2>2. AloneTrue(id)' /\ WindowTrue(id)'
    BY <1>1, <2>1 DEF AppTrue, AloneTrue, WindowTrue, Holds, Free
  <2>3. ASSUME NEW part \in Parts  PROVE PartTrue(part, id)'
    <3>1. PartTrue(part, id) /\ id \notin tree.pkg
      BY <1>1, <2>1, NoFilesIsEmpty DEF AppTrue, Parts
    <3>2. (Asked(part, id)' <=> Asked(part, id)) /\ (Moving(part, id)' <=> Moving(part, id))
      BY <1>1 DEF Asked, Deleting, Moving, Moves
    <3>3. RowTrue(part, id)' /\ TreeTrue(part, id)'
      BY <1>1, <3>1, <3>2 DEF PartTrue, RowTrue, TreeTrue
    <3>4. \A a \in Hands : ReadTrue(a, part, id)'
      BY <1>1, <3>1, <3>2 DEF PartTrue, ReadTrue, Holds, Free, Moves
    <3>5. ReplayTrue(part, id)'
      BY <1>1, <3>1, <3>2 DEF PartTrue, RowTrue, ReplayTrue, Replayed
    <3> QED  BY <3>3, <3>4, <3>5 DEF PartTrue
  <2> QED  BY <2>2, <2>3 DEF AppTrue
<1> QED  BY <1>1, <1>2, <1>3 DEF AppsInv

\* A part that lands is as the boot read it, packages beside what is there.
LEMMA ReplayKeeps ==
  ASSUME AppsInv, NEW part \in Parts, Replay(part)
  PROVE  AppsInv'
<1>1. /\ machine = "replaying" /\ part \in replay.left /\ UNCHANGED <<owns, rows, op, windows, wish, seeded, crossing>>
      /\ replay \in [rows : FileSets, left : SUBSET Parts] /\ tree \in FileSets
  BY DEF Replay, AppsInv, AppsTypeOK
<1>2. /\ replay'.rows = replay.rows /\ replay'.left = replay.left \ {part} /\ replay' \in [rows : FileSets, left : SUBSET Parts]
      /\ machine' = IF replay'.left = {} THEN "whole" ELSE "replaying"
  BY <1>1 DEF Replay
<1>3. tree' \in FileSets /\ \A p \in Parts : tree'[p] = IF p # part THEN tree[p] ELSE IF part = "pkg" THEN tree.pkg \cup replay.rows.pkg ELSE replay.rows[p]
  <2>1. tree' = Land(tree, part, replay.rows[part])
    BY DEF Replay
  <2>2. tree' = [tree EXCEPT ![part] = IF part = "pkg" THEN tree.pkg \cup replay.rows.pkg ELSE replay.rows[part]]
    <3>1. CASE part = "pkg"
      BY <2>1, <3>1 DEF Land
    <3>2. CASE part # "pkg"
      BY <2>1, <3>2 DEF Land
    <3> QED  BY <3>1, <3>2
  <2>3. (IF part = "pkg" THEN tree.pkg \cup replay.rows.pkg ELSE replay.rows[part]) \in SUBSET Ids
    BY <1>1, PartsAre
  <2> QED  BY <1>1, <2>2, <2>3 DEF FileSets
<1>4. AppsTypeOK' /\ EditsTrue'
  BY <1>1, <1>2, <1>3 DEF AppsInv, AppsTypeOK, EditsTrue, Free
<1>5. ASSUME NEW id \in Ids \ crossing  PROVE AppTrue(id)'
  <2>1. AppTrue(id)
    BY DEF AppsInv
  <2>2. AloneTrue(id)' /\ WindowTrue(id)'
    BY <1>1, <2>1 DEF AppTrue, AloneTrue, WindowTrue, Holds, Free
  <2>3. ASSUME NEW p \in Parts  PROVE PartTrue(p, id)'
    <3>1. PartTrue(p, id)
      BY <2>1 DEF AppTrue
    <3>2. (Asked(p, id)' <=> Asked(p, id)) /\ (Moving(p, id)' <=> Moving(p, id)) /\ (id \in rows'[p] <=> id \in rows[p])
      BY <1>1 DEF Asked, Deleting, Moving, Moves
    <3>3. Replayed(p, id)' <=> Replayed(p, id)
      <4>1. CASE p # part
        <5>1. p # "pkg" \/ part # "pkg"
          BY <4>1
        <5>2. p = "pkg" => tree'.pkg = tree.pkg
          BY <1>3, <4>1
        <5> QED  BY <1>2, <1>3, <4>1, <5>2 DEF Replayed
      <4>2. CASE p = part
        BY <1>1, <1>2, <1>3, <4>2 DEF Replayed
      <4> QED  BY <4>1, <4>2
    <3>4. machine' = "whole" => (id \in tree'[p] <=> Replayed(p, id)')
      BY <1>2 DEF Replayed
    <3>5. TreeTrue(p, id)' /\ ReplayTrue(p, id)'
      BY <1>1, <3>1, <3>2, <3>3, <3>4 DEF PartTrue, TreeTrue, ReplayTrue
    <3>6. RowTrue(p, id)'
      BY <1>1, <3>1, <3>2 DEF PartTrue, RowTrue
    <3>7. \A a \in Hands : ReadTrue(a, p, id)'
      BY <1>1, <3>1, <3>2 DEF PartTrue, ReadTrue, Holds, Free, Moves
    <3> QED  BY <3>5, <3>6, <3>7 DEF PartTrue
  <2> QED  BY <2>2, <2>3 DEF AppTrue
<1> QED  BY <1>1, <1>2, <1>4, <1>5 DEF AppsInv

\* The rows of a machine that is up do not count, and windows touch no file.
LEMMA SnapshotKeeps ==
  ASSUME AppsInv, Snapshot
  PROVE  AppsInv'
<1>1. machine = "whole" /\ owns /\ rows' = tree /\ UNCHANGED <<machine, owns, tree, replay, op, windows, wish, seeded, crossing>>
  BY DEF Snapshot
<1>2. AppsTypeOK' /\ EditsTrue'
  BY <1>1 DEF AppsInv, AppsTypeOK, EditsTrue, Free
<1>3. ASSUME NEW id \in Ids \ crossing  PROVE AppTrue(id)'
  <2>1. AppTrue(id)
    BY DEF AppsInv
  <2>2. AloneTrue(id)' /\ WindowTrue(id)'
    BY <1>1, <2>1 DEF AppTrue, AloneTrue, WindowTrue, Holds, Free
  <2>3. ASSUME NEW part \in Parts  PROVE PartTrue(part, id)'
    <3>1. PartTrue(part, id)
      BY <2>1 DEF AppTrue
    <3>2. (Asked(part, id)' <=> Asked(part, id)) /\ (Moving(part, id)' <=> Moving(part, id))
      BY <1>1 DEF Asked, Deleting, Moving, Moves
    <3>3. \A a \in Hands : ReadTrue(a, part, id)'
      BY <1>1, <3>1, <3>2 DEF PartTrue, ReadTrue, Holds, Free, Moves
    <3> QED  BY <1>1, <3>1, <3>2, <3>3 DEF PartTrue, RowTrue, TreeTrue, ReplayTrue
  <2> QED  BY <2>2, <2>3 DEF AppTrue
<1> QED  BY <1>1, <1>2, <1>3 DEF AppsInv

LEMMA OpenWebKeeps ==
  ASSUME AppsInv, NEW w \in Ids, OpenWeb(w) \/ CloseWeb(w)
  PROVE  AppsInv'
<1>1. /\ UNCHANGED <<machine, owns, rows, tree, replay, op, wish, seeded>> /\ crossing \subseteq crossing' /\ crossing' \subseteq crossing \cup {w}
      /\ \/ windows' \subseteq windows
         \/ /\ windows' = windows \cup {w} /\ w \in rows.pkg
            /\ w \notin crossing' => w \in Counts.pkg /\ (Free("page") \/ w # op["page"].id)
  BY DEF OpenWeb, CloseWeb, Cross
<1>2. AppsTypeOK' /\ EditsTrue'
  BY <1>1 DEF AppsInv, AppsTypeOK, EditsTrue, Free
<1>3. ASSUME NEW id \in Ids \ crossing'  PROVE AppTrue(id)'
  <2>1. AppTrue(id)
    BY <1>1 DEF AppsInv
  <2>2. AloneTrue(id)'
    BY <1>1, <2>1 DEF AppTrue, AloneTrue, Holds, Free
  <2>3. ASSUME NEW part \in Parts  PROVE PartTrue(part, id)'
    BY <1>1, <2>1 DEF AppTrue, PartTrue, TreeTrue, RowTrue, ReplayTrue, Replayed, ReadTrue, Asked, Deleting, Moving, Moves, Holds, Free
  <2>4. WindowTrue(id)'
    <3>1. CASE id \in windows \/ id \notin windows'
      BY <1>1, <2>1, <3>1 DEF AppTrue, WindowTrue, Holds, Free
    <3>2. CASE id \notin windows /\ id \in windows'
      <4>1. id = w /\ id \in rows.pkg /\ id \in Counts.pkg /\ ~Holds("page", id)
        BY <1>1, <3>2 DEF Holds
      <4>2. Moving("pkg", id) => \E a \in Hands : Holds(a, id)
        BY DEF Moving, Moves, Holds, Free
      <4>3. TreeTrue("pkg", id) /\ RowTrue("pkg", id)
        BY <2>1 DEF AppTrue, PartTrue, Parts
      <4>4. id \in wish.pkg \/ \E a \in Hands : Holds(a, id)
        BY <4>1, <4>2, <4>3 DEF TreeTrue, RowTrue, Counts, Asked
      <4> QED  BY <1>1, <4>1, <4>4 DEF WindowTrue, Holds, Free
    <3> QED  BY <3>1, <3>2
  <2> QED  BY <2>2, <2>3, <2>4 DEF AppTrue
<1> QED  BY <1>1, <1>2, <1>3 DEF AppsInv

\* What is flushed is what counted; an install the flush runs over is crossed.
LEMMA AppsOffKeeps ==
  ASSUME AppsInv, AppsOff
  PROVE  AppsInv'
<1>1. /\ machine \in {"replaying", "whole"} /\ machine' = "off" /\ tree' = NoFiles /\ UNCHANGED <<owns, op, windows, seeded>>
      /\ rows' = (IF machine = "whole" /\ owns THEN tree ELSE rows) /\ wish' = (IF owns THEN wish ELSE rows)
      /\ replay' \in [rows : FileSets, left : SUBSET Parts]
  BY DEF AppsOff, AppsUp, AppsInv, AppsTypeOK
<1>2. /\ crossing \subseteq crossing'
      /\ \A a \in Hands : machine = "whole" /\ owns /\ op[a].step = "live" /\ op[a].id \notin crossing' => ~Missed(a, op[a].parts, tree)
  BY DEF AppsOff, Cross, Hands
<1>3. \A a \in Hands : op[a].step = "live" => op[a] \in Landings
  BY DEF AppsInv, AppsTypeOK, NoEdit
<1>4. AppsTypeOK' /\ EditsTrue'
  <2>1. crossing' \in SUBSET Ids
    <3>1. \A a \in Hands : op[a].step = "live" => op[a].id \in Ids
      BY <1>3 DEF Landings
    <3> QED  BY <3>1 DEF AppsOff, Cross, Hands, AppsInv, AppsTypeOK
  <2> QED  BY <1>1, <2>1, NoFilesIsEmpty DEF AppsInv, AppsTypeOK, EditsTrue, Free
<1>5. ASSUME NEW id \in Ids \ crossing'  PROVE AppTrue(id)'
  <2>1. AppTrue(id)
    BY <1>2 DEF AppsInv
  <2>2. AloneTrue(id)' /\ WindowTrue(id)'
    BY <1>1, <2>1 DEF AppTrue, AloneTrue, WindowTrue, Holds, Free
  <2>3. ASSUME NEW part \in Parts  PROVE PartTrue(part, id)'
    <3>1. PartTrue(part, id)
      BY <2>1 DEF AppTrue
    <3>2. \A a \in Hands : (Holds(a, id)' <=> Holds(a, id)) /\ (Moves(a, part, id)' <=> Moves(a, part, id))
      BY <1>1 DEF Holds, Free, Moves
    <3>3. Moving(part, id)' <=> Moving(part, id)
      BY <3>2 DEF Moving
    <3>4. TreeTrue(part, id)' /\ ReplayTrue(part, id)'
      BY <1>1 DEF TreeTrue, ReplayTrue
    <3>5. CASE owns
      <4>1. Asked(part, id)' <=> Asked(part, id)
        BY <1>1, <3>5 DEF Asked, Deleting
      <4>2. RowTrue(part, id)'
        BY <1>1, <3>1, <3>3, <3>5, <4>1 DEF PartTrue, TreeTrue, RowTrue
      <4>3. ASSUME NEW a \in Hands  PROVE ReadTrue(a, part, id)'
        <5>1. ASSUME Moves(a, part, id), machine = "whole"  PROVE id \in tree[part] <=> Lands(op[a], part)
          <6>1. ~Missed(a, op[a].parts, tree) /\ op[a] \in Landings /\ op[a].id = id /\ part \in op[a].parts
            BY <1>2, <1>3, <3>5, <5>1 DEF Moves
          <6>2. (id \in Landing(a)[part]) = (id \in tree[part])
            BY <6>1 DEF Missed
          <6>3. id \in Landing(a)[part] <=> Lands(op[a], part)
            BY <6>1, LandingSays
          <6> QED  BY <6>2, <6>3
        <5>2. Lands(op[a], part)' <=> Lands(op[a], part)
          BY <1>1 DEF Lands
        <5> QED  BY <1>1, <3>1, <3>2, <3>5, <4>1, <5>1, <5>2 DEF PartTrue, ReadTrue
      <4> QED  BY <3>4, <4>2, <4>3 DEF PartTrue
    <3>6. CASE ~owns
      <4>1. Free("page") /\ ~Deleting(id) /\ rows' = rows /\ wish' = rows
        BY <1>1, <3>6 DEF AppsInv, EditsTrue, Free, Deleting
      <4>2. part # "given" => (Asked(part, id)' <=> id \in rows[part])
        BY <1>1, <4>1 DEF Asked, Deleting, Parts
      <4>3. Asked("given", id)' <=> Asked("given", id)
        BY <1>1 DEF Asked
      <4>4. part = "given" => (id \in rows[part] <=> Asked(part, id)')
        BY <1>1, <3>6 DEF Asked, AppsInv, EditsTrue
      <4>5. RowTrue(part, id)'
        BY <4>1, <4>2, <4>4 DEF RowTrue
      <4>6. ASSUME NEW a \in Hands  PROVE ReadTrue(a, part, id)'
        <5>1. Holds(a, id) => op[a].read = rows
          BY <3>6 DEF AppsInv, EditsTrue, Holds
        <5> QED  BY <1>1, <3>2, <3>6, <4>1, <4>2, <4>4, <5>1 DEF ReadTrue
      <4> QED  BY <3>4, <4>5, <4>6 DEF PartTrue
    <3> QED  BY <3>5, <3>6
  <2> QED  BY <2>2, <2>3 DEF AppTrue
<1> QED  BY <1>1, <1>4, <1>5 DEF AppsInv

\* A command of the guest's does to the machine's files what was asked.
Alike(f, ordered, id, new, wanted) ==
  /\ new \in FileSets /\ wanted \in FileSets /\ new.given = f.given
  /\ \A i \in Ids \ {id} : /\ (i \in new.pkg <=> i \in f.pkg) /\ (i \in new.on <=> i \in f.on)
                           /\ (i \in wanted.pkg <=> i \in ordered.pkg) /\ (i \in wanted.on <=> i \in ordered.on)
  /\ (id \in f.pkg <=> id \in ordered.pkg) /\ (id \in f.on <=> id \in ordered.on)
       => (id \in new.pkg <=> id \in wanted.pkg) /\ (id \in new.on <=> id \in wanted.on)

LEMMA VerbIs ==
  ASSUME NEW f \in FileSets, NEW ordered \in FileSets, NEW id \in Ids
  PROVE  /\ Alike(f, ordered, id, InstallIn(f, id, FALSE), InstallIn(ordered, id, FALSE))
         /\ Alike(f, ordered, id, RemoveFrom(f, id), RemoveFrom(ordered, id))
         /\ Alike(f, ordered, id, SetEnabled(f, id, TRUE), SetEnabled(ordered, id, TRUE))
         /\ Alike(f, ordered, id, SetEnabled(f, id, FALSE), SetEnabled(ordered, id, FALSE))
<1>1. Alike(f, ordered, id, InstallIn(f, id, FALSE), InstallIn(ordered, id, FALSE))
  <2>1. PICK new, wanted : new = InstallIn(f, id, FALSE) /\ wanted = InstallIn(ordered, id, FALSE)
    OBVIOUS
  <2>2. /\ new \in FileSets /\ new.given = f.given /\ new.pkg = f.pkg \cup {id} /\ new.on = (IF id \in f.pkg THEN f.on ELSE f.on \ {id})
        /\ wanted \in FileSets /\ wanted.pkg = ordered.pkg \cup {id} /\ wanted.on = (IF id \in ordered.pkg THEN ordered.on ELSE ordered.on \ {id})
    BY <2>1, InstallIs
  <2> QED  BY <2>1, <2>2 DEF Alike
<1>2. Alike(f, ordered, id, RemoveFrom(f, id), RemoveFrom(ordered, id))
  <2>1. PICK new, wanted : new = RemoveFrom(f, id) /\ wanted = RemoveFrom(ordered, id)
    OBVIOUS
  <2>2. /\ new \in FileSets /\ new.given = f.given /\ new.pkg = f.pkg \ {id} /\ new.on = f.on \ {id}
        /\ wanted \in FileSets /\ wanted.pkg = ordered.pkg \ {id} /\ wanted.on = ordered.on \ {id}
    BY <2>1, RemoveIs
  <2> QED  BY <2>1, <2>2 DEF Alike
<1>3. Alike(f, ordered, id, SetEnabled(f, id, TRUE), SetEnabled(ordered, id, TRUE))
  <2>1. PICK new, wanted : new = SetEnabled(f, id, TRUE) /\ wanted = SetEnabled(ordered, id, TRUE)
    OBVIOUS
  <2>2. /\ new \in FileSets /\ new.given = f.given /\ new.pkg = f.pkg /\ new.on = f.on \cup {id}
        /\ wanted \in FileSets /\ wanted.pkg = ordered.pkg /\ wanted.on = ordered.on \cup {id}
    BY <2>1, SetEnabledIs
  <2> QED  BY <2>1, <2>2 DEF Alike
<1>4. Alike(f, ordered, id, SetEnabled(f, id, FALSE), SetEnabled(ordered, id, FALSE))
  <2>1. PICK new, wanted : new = SetEnabled(f, id, FALSE) /\ wanted = SetEnabled(ordered, id, FALSE)
    OBVIOUS
  <2>2. /\ new \in FileSets /\ new.given = f.given /\ new.pkg = f.pkg /\ new.on = f.on \ {id}
        /\ wanted \in FileSets /\ wanted.pkg = ordered.pkg /\ wanted.on = ordered.on \ {id}
    BY <2>1, SetEnabledIs
  <2> QED  BY <2>1, <2>2 DEF Alike
<1> QED  BY <1>1, <1>2, <1>3, <1>4

LEMMA GuestCliKeeps ==
  ASSUME AppsInv, NEW done \in Ids, NEW verb \in {"install", "remove", "enable", "disable"}, GuestCli(verb, done) \/ ConsoleCli(verb, done)
  PROVE  AppsInv'
<1>1. /\ machine \in {"replaying", "whole"} /\ UNCHANGED <<machine, owns, rows, replay, op, seeded>>
      /\ windows' = (IF verb = "remove" THEN windows \ {done} ELSE windows)
      /\ crossing \subseteq crossing' /\ crossing' \subseteq crossing \cup {done}
      /\ done \notin crossing' => machine = "whole" /\ done \notin InHand
  BY DEF GuestCli, ConsoleCli, CliEdit, Cross, AppsUp
<1>2. PICK f \in FileSets, ordered \in FileSets : f = tree /\ ordered = wish
  BY DEF AppsInv, AppsTypeOK
<1>3. /\ tree' \in FileSets /\ wish' \in FileSets /\ tree'.given = f.given
      /\ \A i \in Ids \ {done} : /\ (i \in tree'.pkg <=> i \in f.pkg) /\ (i \in tree'.on <=> i \in f.on)
                                 /\ (i \in wish'.pkg <=> i \in ordered.pkg) /\ (i \in wish'.on <=> i \in ordered.on)
      /\ (done \in f.pkg <=> done \in ordered.pkg) /\ (done \in f.on <=> done \in ordered.on)
           => (done \in tree'.pkg <=> done \in wish'.pkg) /\ (done \in tree'.on <=> done \in wish'.on)
  <2>1. \/ tree' = InstallIn(f, done, FALSE) /\ wish' = InstallIn(ordered, done, FALSE)
        \/ tree' = RemoveFrom(f, done) /\ wish' = RemoveFrom(ordered, done)
        \/ tree' = SetEnabled(f, done, TRUE) /\ wish' = SetEnabled(ordered, done, TRUE)
        \/ tree' = SetEnabled(f, done, FALSE) /\ wish' = SetEnabled(ordered, done, FALSE)
    <3>1. CASE verb = "install"
      BY <1>2, <3>1 DEF GuestCli, ConsoleCli, CliEdit
    <3>2. CASE verb = "remove"
      BY <1>2, <3>2 DEF GuestCli, ConsoleCli, CliEdit
    <3>3. CASE verb = "enable"
      BY <1>2, <3>3 DEF GuestCli, ConsoleCli, CliEdit
    <3>4. CASE verb = "disable"
      BY <1>2, <3>4 DEF GuestCli, ConsoleCli, CliEdit
    <3> QED  BY <3>1, <3>2, <3>3, <3>4
  <2>2. Alike(f, ordered, done, tree', wish')
    BY <2>1, VerbIs
  <2> QED  BY <2>2 DEF Alike
<1>4. AppsTypeOK' /\ EditsTrue'
  BY <1>1, <1>3 DEF AppsInv, AppsTypeOK, EditsTrue, Free
<1>5. ASSUME NEW id \in Ids \ crossing'  PROVE AppTrue(id)'
  <2>1. AppTrue(id)
    BY <1>1 DEF AppsInv
  <2>2. \A a \in Callers : Holds(a, id)' <=> Holds(a, id)
    BY <1>1 DEF Holds, Free
  <2>3. id = done => \A a \in Callers : ~Holds(a, id)
    BY <1>1 DEF InHand, Holds
  <2>4. AloneTrue(id)'
    BY <2>1, <2>2 DEF AppTrue, AloneTrue
  <2>5. id # done => (id \in wish'.pkg <=> id \in wish.pkg) /\ (id \in wish'.on <=> id \in wish.on)
    BY <1>2, <1>3
  <2>6. WindowTrue(id)'
    <3>1. CASE id # done
      <4>1. id \in windows' => id \in windows
        BY <1>1
      <4> QED  BY <1>1, <2>1, <2>2, <2>5, <3>1, <4>1 DEF AppTrue, WindowTrue, Hands, Callers
    <3>2. CASE id = done
      <4>1. verb = "remove" => id \notin windows'
        BY <1>1, <3>2
      <4>2. verb # "remove" /\ id \in wish.pkg => id \in wish'.pkg
        <5>1. verb = "install" => wish' = InstallIn(ordered, done, FALSE)
          BY <1>2 DEF GuestCli, ConsoleCli, CliEdit
        <5>2. verb = "enable" => wish' = SetEnabled(ordered, done, TRUE)
          BY <1>2 DEF GuestCli, ConsoleCli, CliEdit
        <5>3. verb = "disable" => wish' = SetEnabled(ordered, done, FALSE)
          BY <1>2 DEF GuestCli, ConsoleCli, CliEdit
        <5>4. /\ InstallIn(ordered, done, FALSE).pkg = ordered.pkg \cup {done}
              /\ SetEnabled(ordered, done, TRUE).pkg = ordered.pkg /\ SetEnabled(ordered, done, FALSE).pkg = ordered.pkg
          BY InstallIs, SetEnabledIs
        <5> QED  BY <1>2, <5>1, <5>2, <5>3, <5>4
      <4>3. id \in windows' => id \in windows
        BY <1>1
      <4>4. owns' = owns /\ "page" \in Callers /\ Hands \subseteq Callers
        BY <1>1 DEF Hands, Callers
      <4> QED  BY <2>1, <2>2, <2>3, <3>2, <4>1, <4>2, <4>3, <4>4 DEF AppTrue, WindowTrue
    <3> QED  BY <3>1, <3>2
  <2>7. ASSUME NEW part \in Parts  PROVE PartTrue(part, id)'
    <3>1. PartTrue(part, id)
      BY <2>1 DEF AppTrue
    <3>2. \A a \in Hands : (Holds(a, id)' <=> Holds(a, id)) /\ (Moves(a, part, id)' <=> Moves(a, part, id))
      BY <1>1 DEF Holds, Free, Moves
    <3>3. Moving(part, id)' <=> Moving(part, id)
      BY <3>2 DEF Moving
    <3>4. CASE id # done
      <4>1. Asked(part, id)' <=> Asked(part, id)
        BY <1>1, <2>5, <3>4 DEF Asked, Deleting
      <4>2. id \in tree'[part] <=> id \in tree[part]
        BY <1>2, <1>3, <3>4 DEF Parts
      <4>3. id \in tree'.pkg <=> id \in tree.pkg
        BY <1>2, <1>3, <3>4
      <4>4. Replayed(part, id)' <=> Replayed(part, id)
        BY <1>1, <4>2, <4>3 DEF Replayed
      <4>5. TreeTrue(part, id)' /\ RowTrue(part, id)' /\ ReplayTrue(part, id)'
        BY <1>1, <3>1, <3>3, <4>1, <4>2, <4>4 DEF PartTrue, TreeTrue, RowTrue, ReplayTrue
      <4>6. \A a \in Hands : ReadTrue(a, part, id)'
        BY <1>1, <3>1, <3>2, <4>1 DEF PartTrue, ReadTrue, Lands
      <4> QED  BY <4>5, <4>6 DEF PartTrue
    <3>5. CASE id = done
      <4>1. machine = "whole" /\ machine' = "whole"
        BY <1>1, <3>5
      <4>2. ~Moving(part, id) /\ \A a \in Hands : ~Holds(a, id)'
        BY <2>2, <2>3, <3>5 DEF Moving, Moves, Holds, Free, Hands, Callers
      <4>3. ~Deleting(id) /\ ~Deleting(id)'
        BY <1>1, <2>3, <3>5 DEF Deleting, Holds, Free, Callers
      <4>4. \A p \in Parts : id \in f[p] <=> Asked(p, id)
        <5>1. \A p \in Parts : ~Moving(p, id)
          BY <2>3, <3>5 DEF Moving, Moves, Holds, Free, Hands, Callers
        <5> QED  BY <1>2, <2>1, <4>1, <5>1 DEF AppTrue, PartTrue, TreeTrue
      <4>5. (id \in f.pkg <=> id \in ordered.pkg) /\ (id \in f.on <=> id \in ordered.on) /\ (id \in f.given <=> id \in seeded)
        BY <1>2, <4>3, <4>4 DEF Asked, Parts
      <4>6. id \in tree'[part] <=> Asked(part, id)'
        BY <1>1, <1>3, <3>5, <4>3, <4>5 DEF Asked, Parts
      <4> QED  BY <4>1, <4>2, <4>6 DEF PartTrue, TreeTrue, RowTrue, ReplayTrue, ReadTrue
    <3> QED  BY <3>4, <3>5
  <2> QED  BY <2>4, <2>6, <2>7 DEF AppTrue
<1> QED  BY <1>1, <1>4, <1>5 DEF AppsInv

----------------------------------------------------------------------------
\* An edit begins, on what is so, or is crossed.
LEMMA BeginKeeps ==
  ASSUME AppsInv, NEW a \in Callers, NEW what, Begin(a, what), Free(a),
         what \in IF a = "page" THEN PageEdits ELSE Landings, what.step \notin {"live", "delete"}, what.read = rows,
         UNCHANGED <<machine, owns, rows, tree, replay, wish, seeded>>,
         windows' = IF what.step = "remove" THEN windows \ {what.id} ELSE windows,
         what.step = "remove" => a = "page", EditsTrue'
  PROVE  AppsInv'
<1>1. /\ op' = [op EXCEPT ![a] = what] /\ crossing \subseteq crossing' /\ crossing' \subseteq crossing \cup {what.id}
      /\ what.id \notin crossing' => what.id \notin InHand /\ \A part \in Parts : what.id \notin Differ(rows, Counts, part)
  BY DEF Begin, Cross
<1>2. what.id \in Ids /\ what.step # "idle"
  BY DEF PageEdits, Landings
<1>3. op'[a] = what /\ DOMAIN op' = Callers /\ \A b \in Callers \ {a} : op'[b] = op[b]
  BY <1>1 DEF AppsInv, AppsTypeOK
<1>4. AppsTypeOK'
  BY <1>1, <1>2, <1>3 DEF AppsInv, AppsTypeOK, Callers, Hands
<1>5. ASSUME NEW id \in Ids \ crossing'  PROVE AppTrue(id)'
  <2>1. AppTrue(id)
    BY <1>1 DEF AppsInv
  <2>2. /\ \A b \in Callers : Holds(b, id)' <=> (IF b = a THEN id = what.id ELSE Holds(b, id))
        /\ ~Holds(a, id)
    BY <1>2, <1>3 DEF Holds, Free
  <2>3. \A b \in Callers, part \in Parts : Moves(b, part, id)' <=> Moves(b, part, id)
    BY <1>3 DEF Moves, Free
  <2>4. \A part \in Parts : Moving(part, id)' <=> Moving(part, id)
    BY <2>3 DEF Moving, Hands, Callers
  <2>5. Deleting(id)' <=> Deleting(id)
    BY <1>3 DEF Deleting, Free, Callers
  <2>6. \A part \in Parts : Asked(part, id)' <=> Asked(part, id)
    BY <2>5 DEF Asked
  <2>7. id = what.id => \A b \in Callers : ~Holds(b, id)
    BY <1>1 DEF InHand, Holds
  <2>8. AloneTrue(id)'
    BY <2>1, <2>2, <2>7 DEF AppTrue, AloneTrue
  <2>9. WindowTrue(id)'
    <3>1. id \in windows' => id \in windows
      OBVIOUS
    <3>2. Holds("page", id)' /\ id \in windows' /\ owns => op'["page"].step \notin {"remove", "delete"}
      <4>1. CASE a = "page"
        BY <1>3, <2>2, <4>1 DEF Callers
      <4>2. CASE a # "page"
        BY <1>3, <2>1, <2>2, <3>1, <4>2 DEF AppTrue, WindowTrue, Callers
      <4> QED  BY <4>1, <4>2
    <3>3. (\E b \in Hands : Holds(b, id)) => \E b \in Hands : Holds(b, id)'
      BY <2>2 DEF Hands, Callers
    <3> QED  BY <2>1, <3>1, <3>2, <3>3 DEF AppTrue, WindowTrue
  <2>10. ASSUME NEW part \in Parts  PROVE PartTrue(part, id)'
    <3>1. PartTrue(part, id)
      BY <2>1 DEF AppTrue
    <3>2. TreeTrue(part, id)' /\ RowTrue(part, id)' /\ ReplayTrue(part, id)'
      BY <2>4, <2>6, <3>1 DEF PartTrue, TreeTrue, RowTrue, ReplayTrue, Replayed
    <3>3. ASSUME NEW b \in Hands  PROVE ReadTrue(b, part, id)'
      <4>1. CASE b # a
        BY <1>3, <2>2, <2>3, <2>6, <3>1, <4>1 DEF PartTrue, ReadTrue, Hands, Callers, Lands
      <4>2. CASE b = a /\ id = what.id
        <5>1. ~Moving(part, id) /\ ~Moves(b, part, id)'
          BY <2>3, <2>7, <4>2 DEF Moving, Moves, Holds, Free, Hands, Callers
        <5>2. id \in Counts[part] <=> Asked(part, id)
          BY <3>1, <5>1 DEF PartTrue, TreeTrue, RowTrue, Counts
        <5>3. id \in rows[part] <=> id \in Counts[part]
          BY <1>1, <4>2 DEF Differ
        <5> QED  BY <1>3, <2>6, <4>2, <5>1, <5>2, <5>3 DEF ReadTrue
      <4>3. CASE b = a /\ id # what.id
        BY <2>2, <4>3 DEF ReadTrue
      <4> QED  BY <4>1, <4>2, <4>3
    <3> QED  BY <3>2, <3>3 DEF PartTrue
  <2> QED  BY <2>8, <2>9, <2>10 DEF AppTrue
<1> QED  BY <1>4, <1>5 DEF AppsInv

LEMMA InstallWebAppKeeps ==
  ASSUME AppsInv, NEW id \in Ids, NEW auto \in BOOLEAN, InstallWebApp(id, auto)
  PROVE  AppsInv'
<1>1. PICK what : what = [step |-> "rows", id |-> id, auto |-> auto, read |-> rows,
                          parts |-> {"pkg"} \cup IF auto \/ (id \notin rows.pkg /\ id \in rows.on) THEN {"on"} ELSE {}]
  OBVIOUS
<1>2. what \in Landings
  BY <1>1 DEF Landings, Parts, AppsInv, AppsTypeOK
<1>3. Begin("tool", what) /\ Free("tool") /\ op' = [op EXCEPT !["tool"] = what] /\ UNCHANGED <<machine, owns, rows, tree, replay, windows, wish, seeded>>
  BY <1>1 DEF InstallWebApp, Begin
<1>4. what.step = "rows" /\ what.id = id /\ what.read = rows /\ what.auto = auto
      /\ what.parts = {"pkg"} \cup IF auto \/ (id \notin rows.pkg /\ id \in rows.on) THEN {"on"} ELSE {}
  BY <1>1
<1>5. op'["tool"] = what /\ op'["page"] = op["page"] /\ op'["seed"] = op["seed"]
  BY <1>3 DEF AppsInv, AppsTypeOK, Callers
<1>6. EditsTrue'
  BY <1>3, <1>4, <1>5 DEF AppsInv, EditsTrue, Hands, Free
<1> QED  BY <1>2, <1>3, <1>4, <1>6, BeginKeeps DEF Callers

LEMMA SeedKeeps ==
  ASSUME AppsInv, NEW id \in Ids, Seed(id)
  PROVE  AppsInv'
<1>1. PICK what : what = [step |-> "rows", id |-> id, auto |-> FALSE, read |-> rows,
                          parts |-> {"given"} \cup IF id \in rows.pkg THEN {} ELSE {"pkg"}]
  OBVIOUS
<1>2. what \in Landings
  BY <1>1 DEF Landings, Parts, AppsInv, AppsTypeOK
<1>3. Begin("seed", what) /\ Free("seed") /\ owns /\ id \notin rows.given /\ op' = [op EXCEPT !["seed"] = what] /\ UNCHANGED <<machine, owns, rows, tree, replay, windows, wish, seeded>>
  BY <1>1 DEF Seed, Begin, Todo
<1>4. what.step = "rows" /\ what.id = id /\ what.read = rows /\ ~what.auto
      /\ what.parts = {"given"} \cup IF id \in rows.pkg THEN {} ELSE {"pkg"}
  BY <1>1
<1>5. op'["seed"] = what /\ op'["page"] = op["page"] /\ op'["tool"] = op["tool"]
  BY <1>3 DEF AppsInv, AppsTypeOK, Callers
<1>6. EditsTrue'
  BY <1>3, <1>4, <1>5 DEF AppsInv, EditsTrue, Hands, Free
<1> QED  BY <1>2, <1>3, <1>4, <1>6, BeginKeeps DEF Callers

LEMMA MirrorEditKeeps ==
  ASSUME AppsInv, NEW id \in Ids, NEW verb \in {"remove", "enable", "disable"}, MirrorEdit(id, verb)
  PROVE  AppsInv'
<1>1. PICK what : what = [step |-> verb, id |-> id, read |-> rows]
  OBVIOUS
<1>2. what \in PageEdits /\ what.step = verb /\ what.id = id /\ what.read = rows
  BY <1>1 DEF PageEdits, AppsInv, AppsTypeOK
<1>3. /\ Begin("page", what) /\ Free("page") /\ owns /\ op' = [op EXCEPT !["page"] = what]
      /\ UNCHANGED <<machine, owns, rows, tree, replay, wish, seeded>>
      /\ windows' = IF verb = "remove" THEN windows \ {id} ELSE windows
  BY <1>1 DEF MirrorEdit, Begin
<1>4. op'["page"] = what /\ op'["seed"] = op["seed"] /\ op'["tool"] = op["tool"]
  BY <1>3 DEF AppsInv, AppsTypeOK, Callers
<1>5. EditsTrue'
  BY <1>3, <1>4 DEF AppsInv, EditsTrue, Hands, Free
<1> QED  BY <1>2, <1>3, <1>5, BeginKeeps DEF Callers

----------------------------------------------------------------------------
\* What lands puts other apps' lines back only where they were read so.
LEMMA OthersStay ==
  ASSUME AppsInv, NEW a \in Hands, op[a] \in Landings, NEW files \in FileSets, NEW parts \in SUBSET Parts,
         NEW id \in Ids \ {op[a].id}, id \notin Lost(op[a], parts, files), NEW part \in Parts, part \in op[a].parts => part \in parts
  PROVE  id \in Landed(files, a)[part] <=> id \in files[part]
<1>1. CASE part \notin op[a].parts \/ part = "pkg"
  BY <1>1, LandedSays
<1>2. CASE part \in op[a].parts /\ part # "pkg"
  <2>1. id \notin Differ(op[a].read, files, part)
    BY <1>2 DEF Lost
  <2> QED  BY <1>2, <2>1, LandedSays DEF Differ
<1> QED  BY <1>1, <1>2

LEMMA LandRowsKeeps ==
  ASSUME AppsInv, NEW a \in Hands, LandRows(a)
  PROVE  AppsInv'
<1>1. /\ op[a].step = "rows" /\ op' = [op EXCEPT ![a].step = "live"] /\ UNCHANGED <<machine, owns, tree, replay, windows, wish, seeded>>
      /\ rows' = (IF owns THEN Landed(rows, a) ELSE rows)
      /\ crossing' = crossing \cup (IF owns /\ machine # "whole" THEN Lost(op[a], op[a].parts, rows) ELSE {})
  BY DEF LandRows, After, Cross
<1>2. op[a] \in Landings /\ a \in Callers /\ ~Free(a) /\ rows \in FileSets
  BY <1>1 DEF AppsInv, AppsTypeOK, NoEdit, Hands, Callers, Free
<1>3. PICK o \in Landings : o = op[a]
  BY <1>2
<1>4. PICK new : new = [o EXCEPT !.step = "live"]
  OBVIOUS
<1>5. new \in Landings /\ new.step = "live" /\ new.id = o.id /\ new.parts = o.parts /\ new.read = o.read /\ new.auto = o.auto
  BY <1>4 DEF Landings
<1>6. op'[a] = new /\ DOMAIN op' = Callers /\ \A b \in Callers \ {a} : op'[b] = op[b]
  BY <1>1, <1>2, <1>3, <1>4 DEF AppsInv, AppsTypeOK
<1>7. AppsTypeOK'
  <2>1. crossing' \in SUBSET Ids
    BY <1>1 DEF AppsInv, AppsTypeOK, Lost, Differ
  <2>2. rows' \in FileSets
    BY <1>1, <1>2, LandedSays
  <2> QED  BY <1>1, <1>5, <1>6, <2>1, <2>2 DEF AppsInv, AppsTypeOK, Hands, Callers
<1>8. EditsTrue'
  BY <1>1, <1>2, <1>3, <1>5, <1>6 DEF AppsInv, EditsTrue, Hands, Callers, Free
<1>9. ASSUME NEW id \in Ids \ crossing'  PROVE AppTrue(id)'
  <2>1. AppTrue(id)
    BY <1>1 DEF AppsInv
  <2>2. \A b \in Callers : Holds(b, id)' <=> Holds(b, id)
    BY <1>2, <1>3, <1>5, <1>6 DEF Holds, Free
  <2>3. AloneTrue(id)'
    BY <2>1, <2>2 DEF AppTrue, AloneTrue
  <2>4. op'["page"] = op["page"] /\ Hands \subseteq Callers /\ "page" \in Callers
    BY <1>6 DEF Hands, Callers
  <2>5. WindowTrue(id)'
    BY <1>1, <2>1, <2>2, <2>4 DEF AppTrue, WindowTrue
  <2>6. ASSUME NEW part \in Parts  PROVE PartTrue(part, id)'
    <3>1. PartTrue(part, id)
      BY <2>1 DEF AppTrue
    <3>2. Asked(part, id)' <=> Asked(part, id)
      BY <1>1, <2>4 DEF Asked, Deleting
    <3>3. /\ Moves(a, part, id)' <=> (o.id = id /\ part \in o.parts)
          /\ \A b \in Hands \ {a} : Moves(b, part, id)' <=> Moves(b, part, id)
          /\ ~Moves(a, part, id)
      BY <1>1, <1>3, <1>5, <1>6, <2>4 DEF Moves
    <3>4. /\ Lands(op'[a], part) <=> Lands(o, part)
          /\ op'[a].read = o.read
          /\ \A b \in Hands \ {a} : op'[b] = op[b]
      BY <1>3, <1>5, <1>6, <2>4 DEF Lands
    <3>5. CASE id = o.id
      <4>1. Holds(a, id) /\ \A b \in Hands \ {a} : ~Holds(b, id)
        BY <1>2, <1>3, <2>1, <2>4, <3>5 DEF AppTrue, AloneTrue, Holds
      <4>2. ~Moving(part, id) /\ (Moving(part, id)' <=> part \in o.parts)
        BY <3>3, <3>5, <4>1 DEF Moving, Moves, Holds, Free
      <4>3. owns => (id \in rows'[part] <=> IF part \in o.parts THEN Lands(o, part) ELSE id \in rows[part])
        BY <1>1, <1>2, <1>3, <3>5, LandedSays
      <4>4. TreeTrue(part, id)' /\ ReplayTrue(part, id)'
        BY <1>1, <3>1, <3>2, <4>2 DEF PartTrue, TreeTrue, ReplayTrue, Replayed
      <4>5. RowTrue(part, id)'
        BY <1>1, <3>1, <3>2, <4>2, <4>3 DEF PartTrue, RowTrue
      <4>6. ReadTrue(a, part, id)'
        BY <1>1, <1>3, <2>2, <3>1, <3>2, <3>3, <3>4, <3>5, <4>1, <4>3 DEF PartTrue, ReadTrue
      <4>7. \A b \in Hands \ {a} : ReadTrue(b, part, id)'
        BY <2>2, <2>4, <4>1 DEF ReadTrue
      <4> QED  BY <4>4, <4>5, <4>6, <4>7 DEF PartTrue
    <3>6. CASE id # o.id
      <4>1. Moving(part, id)' <=> Moving(part, id)
        BY <3>3, <3>6 DEF Moving
      <4>2. machine # "whole" => (id \in rows'[part] <=> id \in rows[part])
        <5>1. CASE owns /\ machine # "whole"
          <6>1. id \notin Lost(op[a], op[a].parts, rows) /\ op[a].parts \in SUBSET Parts
            BY <1>1, <1>2, <5>1 DEF Landings
          <6> QED  BY <1>1, <1>2, <1>3, <3>6, <5>1, <6>1, OthersStay
        <5> QED  BY <1>1, <5>1
      <4>3. TreeTrue(part, id)' /\ ReplayTrue(part, id)' /\ RowTrue(part, id)'
        BY <1>1, <3>1, <3>2, <4>1, <4>2 DEF PartTrue, TreeTrue, ReplayTrue, Replayed, RowTrue
      <4>4. ReadTrue(a, part, id)'
        BY <1>3, <1>5, <1>6, <3>6 DEF ReadTrue, Holds
      <4>5. \A b \in Hands \ {a} : ReadTrue(b, part, id)'
        BY <1>1, <2>2, <2>4, <3>1, <3>2, <3>3, <3>4, <4>2 DEF PartTrue, ReadTrue
      <4> QED  BY <4>3, <4>4, <4>5 DEF PartTrue
    <3> QED  BY <3>5, <3>6
  <2> QED  BY <2>3, <2>5, <2>6 DEF AppTrue
<1> QED  BY <1>1, <1>7, <1>8, <1>9 DEF AppsInv

\* What is asked for, once a landing is over: what it says.
LEMMA AskedAfter ==
  ASSUME AppsInv, NEW a \in Hands, LandLive(a), NEW id \in Ids \ crossing, NEW part \in Parts
  PROVE  Asked(part, id)' <=> IF id = op[a].id /\ (owns \/ AppsUp) /\ part \in op[a].parts THEN Lands(op[a], part) ELSE Asked(part, id)
<1>1. /\ op[a].step = "live" /\ op' = [op EXCEPT ![a] = NoEdit] /\ op[a] \in Landings /\ ~Free(a) /\ a \in Callers
      /\ wish' = IF owns \/ AppsUp THEN [AskedFor(a) EXCEPT !.given = IF a = "seed" THEN @ \cup {op[a].id} ELSE @] ELSE wish
      /\ seeded' = IF a = "seed" THEN seeded \cup {op[a].id} ELSE seeded
  BY DEF LandLive, AppsInv, AppsTypeOK, NoEdit, Free, Hands, Callers
<1>2. PICK o \in Landings : o = op[a]
  BY <1>1
<1>3. o.id \in Ids /\ o.auto \in BOOLEAN /\ o.read \in FileSets /\ wish \in FileSets /\ seeded \in SUBSET Ids
  BY DEF Landings, AppsInv, AppsTypeOK
<1>4. op'["page"] = op["page"]
  BY <1>1 DEF AppsInv, AppsTypeOK, Hands, Callers
<1>5. Deleting(id)' <=> Deleting(id)
  BY <1>4 DEF Deleting
<1>6. /\ a = "tool" => ~(owns \/ AppsUp) \/ (wish'.pkg = wish.pkg \cup {o.id} /\ wish'.on = InstallIn(wish, o.id, o.auto).on)
      /\ a = "seed" => (owns \/ AppsUp) /\ wish'.on = wish.on /\ wish'.pkg = IF o.id \in seeded THEN wish.pkg ELSE wish.pkg \cup {o.id}
  <2>1. CASE a = "tool"
    <3>0. PICK ordered \in FileSets : ordered = wish
      BY <1>3
    <3>3. PICK i \in Ids, au \in BOOLEAN : i = o.id /\ au = o.auto
      BY <1>3
    <3>4. InstallIn(ordered, i, au) \in FileSets /\ InstallIn(ordered, i, au).pkg = ordered.pkg \cup {i}
      BY DEF InstallIn, FileSets, Parts
    <3>1. PICK new \in FileSets : new = InstallIn(wish, o.id, o.auto) /\ new.pkg = wish.pkg \cup {o.id}
      BY <3>0, <3>3, <3>4
    <3>2. owns \/ AppsUp => wish' = [new EXCEPT !.given = new.given]
      BY <1>1, <1>2, <2>1, <3>1 DEF AskedFor
    <3> QED  BY <2>1, <3>1, <3>2 DEF FileSets, Parts
  <2>2. CASE a = "seed"
    <3>1. owns
      BY <1>1, <2>2 DEF AppsInv, EditsTrue
    <3>2. PICK new \in FileSets : new = (IF o.id \in seeded THEN wish ELSE [wish EXCEPT !.pkg = wish.pkg \cup {o.id}])
      BY <1>3 DEF FileSets, Parts
    <3>3. new.on = wish.on /\ new.pkg = IF o.id \in seeded THEN wish.pkg ELSE wish.pkg \cup {o.id}
      BY <1>3, <3>2 DEF FileSets, Parts
    <3>4. wish' = [new EXCEPT !.given = new.given \cup {o.id}]
      BY <1>1, <1>2, <2>2, <3>1, <3>2 DEF AskedFor
    <3> QED  BY <2>2, <3>1, <3>3, <3>4 DEF FileSets, Parts
  <2> QED  BY <2>1, <2>2 DEF Hands
<1>7. PICK on : on = InstallIn(wish, o.id, o.auto).on
  OBVIOUS
<1>8. on = IF o.auto THEN wish.on \cup {o.id} ELSE IF o.id \in wish.pkg THEN wish.on ELSE wish.on \ {o.id}
  <2>1. PICK ordered \in FileSets : ordered = wish
    BY <1>3
  <2> QED  BY <1>3, <1>7, <2>1, InstallIs
<1>9. ~(owns \/ AppsUp) => a = "tool" /\ wish' = wish /\ seeded' = seeded
  BY <1>1, <1>6 DEF Hands
<1>10. CASE ~(owns \/ AppsUp)
  BY <1>5, <1>9, <1>10 DEF Asked
<1>11. CASE id # o.id /\ (owns \/ AppsUp)
  <2>1. (id \in wish'.pkg <=> id \in wish.pkg) /\ (id \in wish'.on <=> id \in wish.on)
    BY <1>6, <1>7, <1>8, <1>11 DEF Hands
  <2>2. id \in seeded' <=> id \in seeded
    BY <1>1, <1>2, <1>11
  <2> QED  BY <1>2, <1>5, <1>11, <2>1, <2>2 DEF Asked
<1>12. CASE id = o.id /\ (owns \/ AppsUp)
  <2>1. AppTrue(id) /\ Holds(a, id)
    BY <1>1, <1>2, <1>12 DEF AppsInv, Holds
  <2>2. ~Deleting(id)
    <3>1. ~Holds("page", id)
      BY <2>1, <1>1 DEF AppTrue, AloneTrue, Hands, Callers
    <3> QED  BY <3>1 DEF Holds, Deleting, Free
  <2>3. \A p \in Parts : id \in o.read[p] <=> Asked(p, id)
    BY <1>2, <2>1 DEF AppTrue, PartTrue, ReadTrue
  <2>4. (id \in o.read.pkg <=> id \in wish.pkg) /\ (id \in o.read.on <=> id \in wish.on) /\ (id \in o.read.given <=> id \in seeded)
    BY <2>2, <2>3 DEF Asked, Parts
  <2>5. /\ a = "tool" => o.parts = {"pkg"} \cup IF o.auto \/ (id \notin o.read.pkg /\ id \in o.read.on) THEN {"on"} ELSE {}
        /\ a = "seed" => ~o.auto /\ id \notin o.read.given /\ o.parts = {"given"} \cup IF id \in o.read.pkg THEN {} ELSE {"pkg"}
    BY <1>1, <1>2, <1>12 DEF AppsInv, EditsTrue
  <2>6. CASE a = "tool"
    <3>1. id \in wish'.pkg /\ (id \in wish'.on <=> (o.auto \/ (id \in wish.pkg /\ id \in wish.on))) /\ seeded' = seeded
      BY <1>1, <1>6, <1>7, <1>8, <1>12, <2>6
    <3>2. "pkg" \in o.parts /\ "given" \notin o.parts /\ ("on" \in o.parts <=> o.auto \/ (id \notin o.read.pkg /\ id \in o.read.on))
      BY <2>5, <2>6
    <3>3. CASE part = "pkg"
      BY <1>2, <1>12, <3>1, <3>2, <3>3 DEF Asked, Lands
    <3>4. CASE part = "given"
      BY <1>2, <1>12, <3>1, <3>2, <3>4 DEF Asked
    <3>5. CASE part = "on"
      BY <1>2, <1>5, <1>12, <2>2, <2>4, <3>1, <3>2, <3>5 DEF Asked, Lands
    <3> QED  BY <3>3, <3>4, <3>5 DEF Parts
  <2>7. CASE a = "seed"
    <3>1. id \in wish'.pkg /\ wish'.on = wish.on /\ id \in seeded'
      BY <1>1, <1>2, <1>6, <1>12, <2>4, <2>5, <2>7
    <3>2. "given" \in o.parts /\ "on" \notin o.parts /\ ("pkg" \notin o.parts => id \in wish.pkg)
      BY <2>4, <2>5, <2>7
    <3>3. CASE part = "pkg"
      BY <1>2, <1>12, <3>1, <3>2, <3>3 DEF Asked, Lands
    <3>4. CASE part = "given"
      BY <1>2, <1>12, <3>1, <3>2, <3>4 DEF Asked, Lands
    <3>5. CASE part = "on"
      BY <1>2, <1>5, <1>12, <3>1, <3>2, <3>5 DEF Asked
    <3> QED  BY <3>3, <3>4, <3>5 DEF Parts
  <2> QED  BY <2>6, <2>7 DEF Hands
<1> QED  BY <1>2, <1>10, <1>11, <1>12

\* The wish a landing leaves is a set of files.
LEMMA WishStays ==
  ASSUME AppsInv, NEW a \in Hands, LandLive(a)
  PROVE  wish' \in FileSets /\ seeded' \in SUBSET Ids
<1>1. op[a] \in Landings /\ wish \in FileSets /\ seeded \in SUBSET Ids
  BY DEF LandLive, AppsInv, AppsTypeOK, NoEdit
<1>2. PICK i \in Ids, au \in BOOLEAN : i = op[a].id /\ au = op[a].auto
  BY <1>1 DEF Landings
<1>3. AskedFor(a) \in FileSets
  <2>1. InstallIn(wish, i, au) \in FileSets /\ [wish EXCEPT !.pkg = wish.pkg \cup {i}] \in FileSets
    BY <1>1 DEF InstallIn, FileSets, Parts
  <2> QED  BY <1>1, <1>2, <2>1 DEF AskedFor
<1>4. PICK new \in FileSets : new = AskedFor(a)
  BY <1>3
<1>5. wish' = wish \/ \E given \in SUBSET Ids : wish' = [new EXCEPT !.given = given]
  <2>1. new.given \in SUBSET Ids /\ new.given \cup {i} \in SUBSET Ids
    BY DEF FileSets, Parts
  <2>2. wish' = wish \/ wish' = [new EXCEPT !.given = new.given \cup {i}] \/ wish' = [new EXCEPT !.given = new.given]
    BY <1>2, <1>4 DEF LandLive
  <2> QED  BY <2>1, <2>2
<1>6. wish' \in FileSets
  BY <1>1, <1>5 DEF FileSets, Parts
<1>7. seeded' \in SUBSET Ids
  BY <1>1, <1>2 DEF LandLive
<1> QED  BY <1>6, <1>7

LEMMA LandLiveKeeps ==
  ASSUME AppsInv, NEW a \in Hands, LandLive(a)
  PROVE  AppsInv'
<1>1. /\ op[a].step = "live" /\ machine # "booting" /\ op' = [op EXCEPT ![a] = NoEdit]
      /\ UNCHANGED <<machine, owns, rows, replay, windows>> /\ tree' = (IF AppsUp THEN Landed(tree, a) ELSE tree)
      /\ crossing' = crossing \cup (IF AppsUp THEN Crossed(a) ELSE {})
  BY DEF LandLive, Cross
<1>2. op[a] \in Landings /\ a \in Callers /\ ~Free(a) /\ tree \in FileSets /\ wish \in FileSets
  BY <1>1 DEF AppsInv, AppsTypeOK, NoEdit, Hands, Callers, Free
<1>3. PICK o \in Landings : o = op[a]
  BY <1>2
<1>4. o.id \in Ids /\ o.parts \in SUBSET Parts
  BY <1>3 DEF Landings
<1>5. op'[a] = NoEdit /\ DOMAIN op' = Callers /\ \A b \in Callers \ {a} : op'[b] = op[b]
  BY <1>1, <1>2 DEF AppsInv, AppsTypeOK
<1>6. AppsTypeOK'
  <2>1. wish' \in FileSets /\ seeded' \in SUBSET Ids
    BY <1>2, WishStays
  <2>2. tree' \in FileSets
    BY <1>1, <1>2, LandedSays
  <2>3. crossing' \in SUBSET Ids
    BY <1>1, <1>3, <1>4 DEF AppsInv, AppsTypeOK, Crossed, Lost
  <2> QED  BY <1>1, <1>5, <2>1, <2>2, <2>3 DEF AppsInv, AppsTypeOK, Hands, Callers
<1>7. EditsTrue'
  <2>1. ~owns => seeded' = seeded
    BY <1>2 DEF LandLive, AppsInv, EditsTrue
  <2> QED  BY <1>1, <1>5, <2>1 DEF AppsInv, EditsTrue, Hands, Callers, Free, NoEdit
<1>8. (machine \in {"off", "booting"} => tree = NoFiles)'
  BY <1>1 DEF AppsInv, AppsUp
<1>9. ASSUME NEW id \in Ids \ crossing'  PROVE AppTrue(id)'
  <2>1. AppTrue(id)
    BY <1>1 DEF AppsInv
  <2>2. \A b \in Callers : Holds(b, id)' <=> (b # a /\ Holds(b, id))
    BY <1>5 DEF Holds, Free, NoEdit
  <2>3. \A b \in Callers, part \in Parts : Moves(b, part, id)' <=> (b # a /\ Moves(b, part, id))
    BY <1>5 DEF Moves, NoEdit
  <2>4. AloneTrue(id)'
    BY <2>1, <2>2 DEF AppTrue, AloneTrue
  <2>5. op'["page"] = op["page"] /\ Hands \subseteq Callers /\ "page" \in Callers
    BY <1>5 DEF Hands, Callers
  <2>6. \A part \in Parts : Asked(part, id)' <=> IF id = o.id /\ (owns \/ AppsUp) /\ part \in o.parts THEN Lands(o, part) ELSE Asked(part, id)
    BY <1>1, <1>3, AskedAfter
  <2>7. id = o.id => Holds(a, id) /\ \A b \in Callers \ {a} : ~Holds(b, id)
    BY <1>2, <1>3, <2>1 DEF AppTrue, AloneTrue, Holds
  <2>8. WindowTrue(id)'
    <3>1. CASE id = o.id
      <4>1. owns => (Asked("pkg", id))'
        <5>1. ReadTrue(a, "pkg", id)
          BY <2>1 DEF AppTrue, PartTrue, Parts
        <5>2. "pkg" \notin o.parts => id \in o.read.pkg
          BY <1>2, <1>3, <3>1 DEF AppsInv, EditsTrue, Hands
        <5>3. Lands(o, "pkg") /\ "pkg" \in Parts
          BY DEF Lands, Parts
        <5> QED  BY <1>3, <2>6, <2>7, <3>1, <5>1, <5>2, <5>3 DEF ReadTrue
      <4>2. ~Holds("page", id)'
        BY <2>2, <2>5, <2>7, <3>1 DEF Hands
      <4> QED  BY <1>1, <4>1, <4>2 DEF WindowTrue, Asked
    <3>2. CASE id # o.id
      <4>1. id \in wish'.pkg <=> id \in wish.pkg
        BY <2>6, <3>2 DEF Asked, Parts
      <4>2. \A b \in Callers : Holds(b, id)' <=> Holds(b, id)
        BY <1>3, <2>2, <3>2 DEF Holds
      <4> QED  BY <1>1, <2>1, <2>5, <4>1, <4>2 DEF AppTrue, WindowTrue
    <3> QED  BY <3>1, <3>2
  <2>9. ASSUME NEW part \in Parts  PROVE PartTrue(part, id)'
    <3>1. PartTrue(part, id)
      BY <2>1 DEF AppTrue
    <3>2. AppsUp => id \notin Crossed(a)
      BY <1>1
    <3>3. CASE id = o.id
      <4>1. ~Moving(part, id)' /\ (Moving(part, id) <=> part \in o.parts)
        BY <1>1, <1>3, <2>3, <2>5, <2>7, <3>3 DEF Moving, Moves, Holds, Free
      <4>2. \A b \in Hands : ReadTrue(b, part, id)'
        BY <2>2, <2>5, <2>7, <3>3 DEF ReadTrue
      <4>3. Moves(a, part, id) <=> part \in o.parts
        BY <1>1, <1>3, <3>3 DEF Moves
      <4>4. AppsUp => (id \in tree'[part] <=> IF part \in o.parts THEN Lands(o, part) ELSE id \in tree[part])
        <5>1. ASSUME AppsUp  PROVE id \in tree'[part] <=> IF part \in o.parts THEN Lands(o, part) ELSE id \in tree[part]
          BY <1>1, <1>2, <1>3, <3>3, <5>1, LandedSays
        <5> QED  BY <5>1
      <4>5. RowTrue(part, id)'
        <5>1. ReadTrue(a, part, id) /\ RowTrue(part, id)
          BY <3>1 DEF PartTrue
        <5>2. machine = "replaying" => owns
          BY <1>3, <3>2, <3>3 DEF Crossed, AppsUp
        <5>3. machine # "whole" /\ owns => (id \in rows[part] <=> IF part \in o.parts THEN Lands(o, part) ELSE Asked(part, id))
          BY <1>3, <2>7, <3>3, <4>1, <4>3, <5>1 DEF ReadTrue, RowTrue
        <5>4. machine = "off" /\ ~owns => (id \in rows[part] <=> Asked(part, id))
          BY <5>1 DEF RowTrue
        <5>5. machine = "off" => ~AppsUp
          BY DEF AppsUp
        <5>6. machine \in {"off", "replaying", "whole"}
          BY <1>1 DEF AppsInv, AppsTypeOK
        <5> QED  BY <1>1, <2>6, <3>3, <5>2, <5>3, <5>4, <5>5, <5>6 DEF RowTrue
      <4>6. TreeTrue(part, id)'
        <5>1. ASSUME machine = "whole"  PROVE id \in tree'[part] <=> Asked(part, id)'
          BY <2>6, <3>1, <3>3, <4>1, <4>4, <5>1 DEF PartTrue, TreeTrue, AppsUp
        <5> QED  BY <1>1, <5>1 DEF TreeTrue
      <4>7. ReplayTrue(part, id)'
        <5>1. ASSUME machine = "replaying"  PROVE Replayed(part, id)' <=> Asked(part, id)'
          <6>1. AppsUp /\ owns /\ ~Missed(a, Coming(a), replay.rows)
            BY <1>3, <3>2, <3>3, <5>1 DEF Crossed, AppsUp
          <6>2. Asked(part, id)' <=> IF part \in o.parts THEN Lands(o, part) ELSE Asked(part, id)
            BY <2>6, <3>3, <6>1
          <6>3. CASE part \in o.parts
            <7>1. part \in replay.left /\ part # "pkg" => (id \in replay.rows[part] <=> Lands(o, part))
              <8>1. ASSUME part \in replay.left, part # "pkg"  PROVE id \in replay.rows[part] <=> Lands(o, part)
                <9>1. part \in Coming(a)
                  BY <1>3, <5>1, <6>3, <8>1 DEF Coming
                <9>2. (id \in Landing(a)[part]) = (id \in replay.rows[part])
                  BY <1>3, <3>3, <6>1, <9>1 DEF Missed
                <9>3. id \in Landing(a)[part] <=> Lands(o, part)
                  BY <1>2, <1>3, <3>3, <6>3, LandingSays
                <9> QED  BY <9>2, <9>3
              <8> QED  BY <8>1
            <7>2. part = "pkg" => Lands(o, part)
              BY DEF Lands
            <7> QED  BY <1>1, <4>4, <6>1, <6>2, <6>3, <7>1, <7>2 DEF Replayed
          <6>4. CASE part \notin o.parts
            <7>1. Replayed(part, id)' <=> Replayed(part, id)
              BY <1>1, <4>4, <6>1, <6>4 DEF Replayed
            <7> QED  BY <3>1, <4>1, <5>1, <6>2, <6>4, <7>1 DEF PartTrue, ReplayTrue
          <6> QED  BY <6>3, <6>4
        <5> QED  BY <1>1, <5>1 DEF ReplayTrue
      <4> QED  BY <4>2, <4>5, <4>6, <4>7 DEF PartTrue
    <3>4. CASE id # o.id
      <4>1. \A b \in Hands : (Moves(b, part, id)' <=> Moves(b, part, id)) /\ (Holds(b, id)' <=> Holds(b, id))
        BY <1>3, <2>2, <2>3, <2>5, <3>4 DEF Moves, Holds
      <4>2. Moving(part, id)' <=> Moving(part, id)
        BY <4>1 DEF Moving
      <4>3. Asked(part, id)' <=> Asked(part, id)
        BY <2>6, <3>4
      <4>4. part \notin Coming(a) => (id \in tree'[part] <=> id \in tree[part])
        <5>1. CASE AppsUp /\ part \notin Coming(a)
          <6>1. id \notin Lost(op[a], op[a].parts \ Coming(a), tree) /\ op[a].parts \ Coming(a) \in SUBSET Parts
            BY <1>3, <1>4, <3>2, <5>1 DEF Crossed
          <6>2. part \in op[a].parts => part \in op[a].parts \ Coming(a)
            BY <5>1
          <6>3. id \in Landed(tree, a)[part] <=> id \in tree[part]
            BY <1>2, <1>3, <3>4, <6>1, <6>2, OthersStay
          <6> QED  BY <1>1, <5>1, <6>3
        <5>2. CASE ~AppsUp
          BY <1>1, <5>2
        <5> QED  BY <5>1, <5>2
      <4>5. part \in Coming(a) => machine = "replaying" /\ part \in replay.left /\ part # "pkg"
        BY DEF Coming
      <4>6. Replayed(part, id)' <=> Replayed(part, id)
        BY <1>1, <4>4, <4>5 DEF Replayed
      <4>7. TreeTrue(part, id)' /\ RowTrue(part, id)' /\ ReplayTrue(part, id)'
        BY <1>1, <3>1, <4>2, <4>3, <4>4, <4>5, <4>6 DEF PartTrue, TreeTrue, RowTrue, ReplayTrue
      <4>8. ASSUME NEW b \in Hands  PROVE ReadTrue(b, part, id)'
        <5>1. CASE b = a
          BY <2>2, <2>5, <5>1 DEF ReadTrue
        <5>2. CASE b # a
          <6>1. op'[b] = op[b]
            BY <1>5, <2>5, <5>2
          <6> QED  BY <1>1, <3>1, <4>1, <4>3, <6>1 DEF PartTrue, ReadTrue, Lands
        <5> QED  BY <5>1, <5>2
      <4> QED  BY <4>7, <4>8 DEF PartTrue
    <3> QED  BY <3>3, <3>4
  <2> QED  BY <2>4, <2>8, <2>9 DEF AppTrue
<1> QED  BY <1>1, <1>6, <1>7, <1>8, <1>9 DEF AppsInv

\* What a step of the page's own edit changes: its app's lines, as asked.
LEMMA PageKeeps ==
  ASSUME AppsInv, NEW o \in PageEdits, op["page"] = o, NEW next, op' = [op EXCEPT !["page"] = next],
         next = NoEdit \/ (next \in PageEdits /\ next.id = o.id /\ o.step = "remove"),
         UNCHANGED <<machine, owns, tree, replay, windows, seeded>>, rows' \in FileSets, wish' \in FileSets,
         crossing \subseteq crossing', crossing' \in SUBSET Ids, o.id \in crossing' \/ ~AppsUp,
         \A part \in Parts, id \in Ids \ {o.id} :
           /\ id \in wish'[part] <=> id \in wish[part]
           /\ id \in crossing' \/ machine = "whole" \/ (id \in rows'[part] <=> id \in rows[part]),
         \A part \in Parts : o.id \in crossing' \/ (o.id \in rows'[part] <=> Asked(part, o.id)'),
         o.step \in {"remove", "delete"} \/ wish'.pkg = wish.pkg
  PROVE  AppsInv'
<1>1. op'["page"] = next /\ DOMAIN op' = Callers /\ \A a \in Hands : op'[a] = op[a]
  BY DEF AppsInv, AppsTypeOK, Hands, Callers
<1>2. o.id \in Ids /\ ~Free("page") /\ owns
  BY DEF PageEdits, Free, AppsInv, EditsTrue
<1>3. AppsTypeOK'
  BY <1>1 DEF AppsInv, AppsTypeOK
<1>4. EditsTrue'
  BY <1>1, <1>2 DEF AppsInv, EditsTrue, Hands, Free
<1>5. ASSUME NEW id \in Ids \ crossing'  PROVE AppTrue(id)'
  <2>1. AppTrue(id)
    BY DEF AppsInv
  <2>2. /\ Holds("page", id) <=> id = o.id
        /\ Holds("page", id)' => id = o.id
    BY <1>1, <1>2 DEF Holds, Free, NoEdit
  <2>3. \A a \in Hands : Holds(a, id)' <=> Holds(a, id)
    BY <1>1 DEF Holds, Free
  <2>4. \A a \in Hands, part \in Parts : Moves(a, part, id)' <=> Moves(a, part, id)
    BY <1>1 DEF Moves
  <2>5. \A part \in Parts : Moving(part, id)' <=> Moving(part, id)
    BY <2>4 DEF Moving
  <2>6. AloneTrue(id)'
    <3>1. \A a \in Callers : Holds(a, id)' => Holds(a, id)
      BY <2>2, <2>3 DEF Hands, Callers
    <3> QED  BY <2>1, <3>1 DEF AppTrue, AloneTrue
  <2>7. CASE id = o.id
    <3>1. machine \in {"off", "booting"} /\ \A a \in Hands : ~Holds(a, id)
      <4>1. machine \in {"off", "booting"}
        BY <2>7 DEF AppsUp, AppsInv, AppsTypeOK
      <4>2. \A a \in Hands : Holds(a, id) => a = "page"
        BY <2>1, <2>2, <2>7 DEF AppTrue, AloneTrue, Hands, Callers
      <4> QED  BY <4>1, <4>2 DEF Hands
    <3>2. WindowTrue(id)'
      <4>1. id \in windows => id \in wish.pkg /\ o.step \notin {"remove", "delete"}
        BY <1>2, <2>1, <2>2, <2>7, <3>1 DEF AppTrue, WindowTrue
      <4>2. id \in windows => id \in wish'.pkg
        BY <4>1
      <4>3. Holds("page", id)' => o.step = "remove"
        BY <1>1 DEF Holds, Free, NoEdit
      <4> QED  BY <4>1, <4>2, <4>3 DEF WindowTrue
    <3>3. ASSUME NEW part \in Parts  PROVE PartTrue(part, id)'
      <4>1. TreeTrue(part, id)' /\ ReplayTrue(part, id)'
        BY <3>1 DEF TreeTrue, ReplayTrue
      <4>2. RowTrue(part, id)'
        BY <2>7 DEF RowTrue
      <4>3. \A a \in Hands : ReadTrue(a, part, id)'
        BY <2>3, <3>1 DEF ReadTrue
      <4> QED  BY <4>1, <4>2, <4>3 DEF PartTrue
    <3> QED  BY <2>6, <3>2, <3>3 DEF AppTrue
  <2>8. CASE id # o.id
    <3>1. ~Deleting(id) /\ ~Deleting(id)'
      BY <1>1, <2>8 DEF Deleting, NoEdit
    <3>2. \A part \in Parts : Asked(part, id)' <=> Asked(part, id)
      <4>1. (id \in wish'.pkg <=> id \in wish.pkg) /\ (id \in wish'.on <=> id \in wish.on)
        BY <2>8 DEF Parts
      <4> QED  BY <3>1, <4>1 DEF Asked
    <3>3. WindowTrue(id)'
      <4>1. id \in wish'.pkg <=> id \in wish.pkg
        BY <2>8 DEF Parts
      <4> QED  BY <2>1, <2>2, <2>3, <2>8, <4>1 DEF AppTrue, WindowTrue
    <3>4. ASSUME NEW part \in Parts  PROVE PartTrue(part, id)'
      <4>1. PartTrue(part, id)
        BY <2>1 DEF AppTrue
      <4>2. TreeTrue(part, id)' /\ ReplayTrue(part, id)'
        BY <2>5, <3>2, <4>1 DEF PartTrue, TreeTrue, ReplayTrue, Replayed
      <4>3. machine # "whole" => (id \in rows'[part] <=> id \in rows[part])
        BY <2>8
      <4>4. RowTrue(part, id)'
        BY <2>5, <3>2, <4>1, <4>3 DEF PartTrue, RowTrue
      <4>5. ASSUME NEW a \in Hands  PROVE ReadTrue(a, part, id)'
        <5>1. op'[a] = op[a]
          BY <1>1
        <5> QED  BY <2>3, <2>4, <3>2, <4>1, <4>3, <5>1 DEF PartTrue, ReadTrue, Lands
      <4> QED  BY <4>2, <4>4, <4>5 DEF PartTrue
    <3> QED  BY <2>6, <3>3, <3>4 DEF AppTrue
  <2> QED  BY <2>7, <2>8
<1> QED  BY <1>3, <1>4, <1>5 DEF AppsInv

LEMMA StoreListKeeps ==
  ASSUME AppsInv, NEW verb \in {"remove", "enable", "disable"}, StoreList(verb)
  PROVE  AppsInv'
<1>1. PICK o \in PageEdits : o = op["page"]
  BY DEF StoreList, AppsInv, AppsTypeOK, NoEdit
<1>2. o.step = verb /\ o.id \in Ids /\ o.read \in FileSets
  BY <1>1 DEF StoreList, PageEdits
<1>3. /\ UNCHANGED <<machine, owns, tree, replay, windows, seeded>>
      /\ rows' = [rows EXCEPT !.on = IF verb = "enable" THEN o.read.on \cup {o.id} ELSE o.read.on \ {o.id}]
      /\ wish' = (IF verb = "remove" THEN wish ELSE SetEnabled(wish, o.id, verb = "enable"))
      /\ crossing' = crossing \cup ((IF AppsUp THEN {o.id} ELSE {}) \cup IF machine = "whole" THEN {} ELSE Lost(o, {"on"}, rows))
  BY <1>1 DEF StoreList, Cross
<1>4. PICK next : /\ op' = [op EXCEPT !["page"] = next]
                  /\ next = NoEdit \/ (next \in PageEdits /\ next.id = o.id /\ verb = "remove")
                  /\ verb = "remove" => next.step = "delete" /\ next.id = o.id
  <2>1. CASE verb = "remove"
    <3>1. PICK new : new = [o EXCEPT !.step = "delete"]
      OBVIOUS
    <3>2. new \in PageEdits /\ new.id = o.id /\ new.step = "delete"
      BY <3>1 DEF PageEdits
    <3>3. op' = [op EXCEPT !["page"] = new]
      BY <1>1, <2>1, <3>1 DEF StoreList, After
    <3> QED  BY <2>1, <3>2, <3>3
  <2>2. CASE verb # "remove"
    BY <2>2 DEF StoreList
  <2> QED  BY <2>1, <2>2
<1>5. op'["page"] = next
  BY <1>4 DEF AppsInv, AppsTypeOK, Callers
<1>6. rows \in FileSets /\ wish \in FileSets
  BY DEF AppsInv, AppsTypeOK
<1>7. rows' \in FileSets /\ rows'.pkg = rows.pkg /\ rows'.given = rows.given
      /\ rows'.on = IF verb = "enable" THEN o.read.on \cup {o.id} ELSE o.read.on \ {o.id}
  BY <1>2, <1>3, <1>6 DEF FileSets, Parts
<1>8. wish' \in FileSets /\ wish'.pkg = wish.pkg /\ wish'.given = wish.given
      /\ wish'.on = IF verb = "remove" THEN wish.on ELSE IF verb = "enable" THEN wish.on \cup {o.id} ELSE wish.on \ {o.id}
  <2>1. CASE verb = "enable"
    BY <1>2, <1>3, <1>6, <2>1 DEF SetEnabled, FileSets, Parts
  <2>2. CASE verb = "disable"
    BY <1>2, <1>3, <1>6, <2>2 DEF SetEnabled, FileSets, Parts
  <2>3. CASE verb = "remove"
    BY <1>3, <1>6, <2>3
  <2> QED  BY <2>1, <2>2, <2>3
<1>9. ASSUME NEW part \in Parts, NEW id \in Ids \ {o.id}
      PROVE  /\ id \in wish'[part] <=> id \in wish[part]
             /\ id \in crossing' \/ machine = "whole" \/ (id \in rows'[part] <=> id \in rows[part])
  <2>1. id \in crossing' \/ machine = "whole" \/ (id \in o.read.on <=> id \in rows.on)
    BY <1>3 DEF Lost, Differ
  <2> QED  BY <1>7, <1>8, <2>1 DEF Parts
<1>10. ASSUME NEW part \in Parts, o.id \notin crossing'  PROVE o.id \in rows'[part] <=> Asked(part, o.id)'
  <2>1. AppTrue(o.id) /\ machine # "whole" /\ Holds("page", o.id) /\ ~Deleting(o.id)
    BY <1>1, <1>2, <1>3, <1>10 DEF AppsInv, AppsUp, Holds, Free, Deleting
  <2>2. ~Moving(part, o.id)
    BY <2>1 DEF AppTrue, AloneTrue, Moving, Moves, Holds, Free, Hands, Callers
  <2>3. o.id \in rows[part] <=> Asked(part, o.id)
    BY <2>1, <2>2 DEF AppTrue, PartTrue, RowTrue
  <2>4. Deleting(o.id)' <=> verb = "remove"
    BY <1>4, <1>5 DEF Deleting, NoEdit
  <2>5. CASE part = "on"
    BY <1>2, <1>7, <1>8, <2>4, <2>5 DEF Asked
  <2>6. CASE part # "on"
    BY <1>3, <1>7, <1>8, <2>3, <2>6 DEF Asked, Parts
  <2> QED  BY <2>5, <2>6
<1>11. crossing' \in SUBSET Ids /\ crossing \subseteq crossing' /\ (o.id \in crossing' \/ ~AppsUp)
  BY <1>2, <1>3 DEF AppsInv, AppsTypeOK, Lost
<1> QED  BY <1>1, <1>2, <1>3, <1>4, <1>7, <1>8, <1>9, <1>10, <1>11, PageKeeps

LEMMA DeleteKeeps ==
  ASSUME AppsInv, Delete
  PROVE  AppsInv'
<1>1. PICK o \in PageEdits : o = op["page"]
  BY DEF Delete, AppsInv, AppsTypeOK, NoEdit
<1>2. o.step = "delete" /\ o.id \in Ids
  BY <1>1 DEF Delete, PageEdits
<1>3. /\ UNCHANGED <<machine, owns, tree, replay, windows, seeded>>
      /\ rows' = [rows EXCEPT !.pkg = @ \ {o.id}] /\ wish' = RemoveFrom(wish, o.id)
      /\ crossing' = crossing \cup (IF AppsUp THEN {o.id} ELSE {}) /\ op' = [op EXCEPT !["page"] = NoEdit]
  BY <1>1 DEF Delete, Cross
<1>4. rows \in FileSets /\ wish \in FileSets
  BY DEF AppsInv, AppsTypeOK
<1>5. rows' \in FileSets /\ rows'.pkg = rows.pkg \ {o.id} /\ rows'.given = rows.given /\ rows'.on = rows.on
  BY <1>2, <1>3, <1>4 DEF FileSets, Parts
<1>6. wish' \in FileSets /\ wish'.pkg = wish.pkg \ {o.id} /\ wish'.given = wish.given /\ wish'.on = wish.on \ {o.id}
  BY <1>2, <1>3, <1>4 DEF RemoveFrom, FileSets, Parts
<1>7. ASSUME NEW part \in Parts, NEW id \in Ids \ {o.id}
      PROVE  /\ id \in wish'[part] <=> id \in wish[part]
             /\ id \in crossing' \/ machine = "whole" \/ (id \in rows'[part] <=> id \in rows[part])
  BY <1>5, <1>6 DEF Parts
<1>8. ASSUME NEW part \in Parts, o.id \notin crossing'  PROVE o.id \in rows'[part] <=> Asked(part, o.id)'
  <2>1. AppTrue(o.id) /\ machine # "whole" /\ Holds("page", o.id) /\ Deleting(o.id)
    BY <1>1, <1>2, <1>3, <1>8 DEF AppsInv, AppsUp, Holds, Free, Deleting
  <2>2. \A p \in Parts : ~Moving(p, o.id)
    BY <2>1 DEF AppTrue, AloneTrue, Moving, Moves, Holds, Free, Hands, Callers
  <2>3. \A p \in Parts : o.id \in rows[p] <=> Asked(p, o.id)
    BY <2>1, <2>2 DEF AppTrue, PartTrue, RowTrue
  <2>4. o.id \notin rows.on /\ (o.id \in rows.given <=> o.id \in seeded)
    BY <2>1, <2>3 DEF Asked, Parts
  <2> QED  BY <1>3, <1>5, <1>6, <2>4 DEF Asked, Parts
<1>9. crossing' \in SUBSET Ids /\ crossing \subseteq crossing' /\ (o.id \in crossing' \/ ~AppsUp)
  BY <1>2, <1>3 DEF AppsInv, AppsTypeOK
<1> QED  BY <1>1, <1>2, <1>3, <1>5, <1>6, <1>7, <1>8, <1>9, PageKeeps

----------------------------------------------------------------------------
\* In the copy that counts, an app nobody has in hand is as the person last asked,
\* and no removed one has a window, whatever edits, boots, replays and power-offs
\* go on, unless an edit of it crossed another write.
THEOREM AppsKeepTheirWord == ASSUME AppsAssumption PROVE AppsSpec => []AsAsked
<1>1. AppsInit => AppsInv
  BY AppsInitInv
<1>2. AppsInv /\ [AppsNext]_appsVars => AppsInv'
  <2> SUFFICES ASSUME AppsInv, [AppsNext]_appsVars PROVE AppsInv'  OBVIOUS
  <2>1. CASE BootApps \/ ReplayBegins
    BY <2>1, BootAppsKeeps
  <2>2. CASE Snapshot
    BY <2>2, SnapshotKeeps
  <2>3. CASE AppsOff
    BY <2>3, AppsOffKeeps
  <2>4. CASE \E part \in Parts : Replay(part)
    BY <2>4, ReplayKeeps
  <2>5. CASE \E id \in Ids, verb \in {"install", "remove", "enable", "disable"} : GuestCli(verb, id) \/ ConsoleCli(verb, id)
    BY <2>5, GuestCliKeeps
  <2>6. CASE \E id \in Ids, auto \in BOOLEAN : InstallWebApp(id, auto)
    BY <2>6, InstallWebAppKeeps
  <2>7. CASE \E id \in Ids, verb \in {"remove", "enable", "disable"} : MirrorEdit(id, verb)
    BY <2>7, MirrorEditKeeps
  <2>8. CASE \E id \in Ids : Seed(id)
    BY <2>8, SeedKeeps
  <2>9. CASE \E id \in Ids : OpenWeb(id) \/ CloseWeb(id)
    BY <2>9, OpenWebKeeps
  <2>10. CASE \E a \in Hands : LandRows(a)
    BY <2>10, LandRowsKeeps
  <2>11. CASE \E a \in Hands : LandLive(a)
    BY <2>11, LandLiveKeeps
  <2>12. CASE \E verb \in {"remove", "enable", "disable"} : StoreList(verb)
    BY <2>12, StoreListKeeps
  <2>13. CASE Delete
    BY <2>13, DeleteKeeps
  <2>14. CASE UNCHANGED appsVars
    <3>1. UNCHANGED <<machine, owns, rows, tree, replay, op, windows, wish, seeded, crossing>>
      BY <2>14 DEF appsVars
    <3>2. AppsTypeOK' /\ EditsTrue' /\ \A id \in Ids \ crossing : AppTrue(id)'
      BY <3>1 DEF AppsInv, AppsTypeOK, EditsTrue, Free, AppTrue, AloneTrue, WindowTrue, PartTrue, TreeTrue, RowTrue,
                  ReplayTrue, Replayed, ReadTrue, Asked, Deleting, Moving, Moves, Holds, Lands
    <3> QED  BY <3>1, <3>2 DEF AppsInv
  <2> QED
    BY <2>1, <2>2, <2>3, <2>4, <2>5, <2>6, <2>7, <2>8, <2>9, <2>10, <2>11, <2>12, <2>13, <2>14 DEF AppsNext, Hands
<1>3. AppsInv => AsAsked
  <2> SUFFICES ASSUME AppsInv PROVE AsAsked  OBVIOUS
  <2>1. ASSUME machine \in {"off", "whole"}, NEW id \in Ids \ (crossing \cup InHand)
        PROVE  (id \in Counts.pkg <=> id \in wish.pkg) /\ (id \in Counts.on <=> id \in wish.on)
    <3>1. AppTrue(id) /\ \A a \in Callers : ~Holds(a, id)
      BY DEF AppsInv, InHand, Holds
    <3>2. ~Deleting(id) /\ \A part \in Parts : ~Moving(part, id)
      BY <3>1 DEF Deleting, Moving, Moves, Holds, Free, Hands, Callers
    <3>3. \A part \in Parts : id \in Counts[part] <=> Asked(part, id)
      BY <2>1, <3>1, <3>2 DEF AppTrue, PartTrue, TreeTrue, RowTrue, Counts
    <3> QED  BY <3>2, <3>3 DEF Asked, Parts
  <2>2. owns => windows \subseteq wish.pkg \cup crossing \cup InHand
    <3>1. ASSUME owns, NEW id \in windows, id \notin crossing \cup InHand  PROVE id \in wish.pkg
      <4>1. id \in Ids /\ WindowTrue(id)
        BY <3>1 DEF AppsInv, AppsTypeOK, AppTrue
      <4>2. \A a \in Hands : ~Holds(a, id)
        BY <3>1 DEF InHand, Holds, Hands, Callers
      <4> QED  BY <3>1, <4>1, <4>2 DEF WindowTrue
    <3> QED  BY <3>1
  <2> QED  BY <2>1, <2>2 DEF AsAsked
<1> QED  BY <1>1, <1>2, <1>3, PTL DEF AppsSpec
----------------------------------------------------------------------------
(* The pointer's arithmetic.                                                *)

LEMMA Quotient ==
  ASSUME NEW a \in Nat, NEW b \in Nat \ {0}
  PROVE  a \div b \in Nat /\ (a \div b) * b <= a /\ a < (a \div b) * b + b
<1>1. a \div b \in Int /\ a % b \in 0 .. b - 1
  OBVIOUS
<1>2. a = b * (a \div b) + (a % b)
  OBVIOUS
<1>3. PICK q \in Int, r \in 0 .. b - 1 : q = a \div b /\ a = b * q + r
  BY <1>1, <1>2
<1>4. q >= 0
  BY <1>3
<1>5. q * b = b * q
  BY <1>3
<1> QED  BY <1>3, <1>4, <1>5

LEMMA TruncLeaves ==
  ASSUME Scale \in Nat \ {0}, NEW t \in Int
  PROVE  /\ Trunc(t) \in Int /\ t - Trunc(t) * Scale \in -(Scale - 1) .. Scale - 1
         /\ Trunc(t) > 0 => t - Trunc(t) * Scale >= 0
         /\ Trunc(t) < 0 => t - Trunc(t) * Scale <= 0
<1>1. CASE t >= 0
  <2>1. PICK q \in Nat : q = t \div Scale /\ q * Scale <= t /\ t < q * Scale + Scale
    BY <1>1, Quotient
  <2>2. Trunc(t) = q
    BY <1>1, <2>1 DEF Trunc
  <2>3. q * Scale \in Nat
    BY <2>1
  <2> QED  BY <2>1, <2>2, <2>3
<1>2. CASE t < 0
  <2>1. PICK a \in Nat : a = -t
    BY <1>2
  <2>2. PICK q \in Nat : q = a \div Scale /\ q * Scale <= a /\ a < q * Scale + Scale
    BY Quotient
  <2>3. Trunc(t) = -q
    BY <1>2, <2>1, <2>2 DEF Trunc
  <2>4. q * Scale \in Nat /\ (-q) * Scale = -(q * Scale)
    BY <2>2
  <2> QED  BY <2>1, <2>2, <2>3, <2>4
<1> QED  BY <1>1, <1>2

\* The guest's pixel that is nearest to where the hand is.
LEMMA RoundIsNearest ==
  ASSUME Scale \in Nat \ {0}, NEW x \in Nat
  PROVE  Round(x) \in Nat /\ 2 * (Round(x) * Scale - x) <= Scale /\ -Scale < 2 * (Round(x) * Scale - x)
<1>1. 2 * x + Scale \in Nat /\ 2 * Scale \in Nat \ {0}
  OBVIOUS
<1>2. PICK q \in Nat : /\ q = (2 * x + Scale) \div (2 * Scale) /\ q * (2 * Scale) <= 2 * x + Scale
                       /\ 2 * x + Scale < q * (2 * Scale) + 2 * Scale
  BY <1>1, Quotient
<1>3. q * (2 * Scale) = 2 * (q * Scale) /\ q * Scale \in Nat
  BY <1>2
<1>4. Round(x) = q
  BY <1>2 DEF Round
<1> QED  BY <1>2, <1>3, <1>4

LEMMA ClampIs ==
  ASSUME Width \in Nat \ {0}, NEW n \in Int
  PROVE  Clamp(n) \in 0 .. Width - 1 /\ (n \in 0 .. Width - 1 => Clamp(n) = n)
         /\ (n < 0 => Clamp(n) = 0) /\ (n >= Width => Clamp(n) = Width - 1)
  BY DEF Clamp

\* Larger pixels lie further on.
LEMMA Further ==
  ASSUME NEW a \in Int, NEW b \in Int, NEW s \in Nat, a <= b
  PROVE  a * s <= b * s /\ a * s \in Int /\ b * s \in Int
<1>1. PICK d \in Nat : b = a + d
  <2>1. b - a \in Nat /\ b = a + (b - a)
    OBVIOUS
  <2> QED  BY <2>1
<1>2. d * s \in Nat
  BY <1>1
<1>3. b * s = a * s + d * s
  BY <1>1
<1> QED  BY <1>2, <1>3

LEMMA LastPixel ==
  ASSUME Scale \in Nat \ {0}, Width \in Nat \ {0}
  PROVE  (Width - 1) * Scale = Width * Scale - Scale /\ Width * Scale \in Nat
  OBVIOUS

Near == -(Scale - 1) .. Scale \div 2

LEMMA AnchorIsNear ==
  ASSUME Scale \in Nat \ {0}, Width \in Nat \ {0}, NEW x \in Points
  PROVE  Clamp(Round(x)) \in 0 .. Width - 1 /\ Clamp(Round(x)) * Scale - x \in Near
<1>1. x \in Nat /\ x <= Width * Scale - 1 /\ Width * Scale \in Nat
  BY LastPixel DEF Points
<1>2. PICK r \in Nat : r = Round(x) /\ 2 * (r * Scale - x) <= Scale /\ -Scale < 2 * (r * Scale - x)
  BY <1>1, RoundIsNearest
<1>3. r * Scale \in Nat /\ Scale \div 2 \in Nat /\ 2 * (Scale \div 2) <= Scale /\ Scale < 2 * (Scale \div 2) + 2
  BY <1>2
<1>4. Clamp(r) \in 0 .. Width - 1
  BY ClampIs
<1>5. CASE r \in 0 .. Width - 1
  <2>1. Clamp(r) = r
    BY <1>5, ClampIs
  <2> QED  BY <1>1, <1>2, <1>3, <1>4, <2>1 DEF Near
<1>6. CASE r >= Width
  <2>1. Clamp(r) = Width - 1
    BY <1>6, ClampIs
  <2>2. (Width - 1) * Scale <= r * Scale /\ (Width - 1) * Scale = Width * Scale - Scale
    BY <1>2, <1>6, Further, LastPixel
  <2> QED  BY <1>1, <1>2, <1>3, <1>4, <2>1, <2>2 DEF Near
<1> QED  BY <1>2, <1>5, <1>6

\* Travel over the panel keeps the guest's cursor as near as it was: what does
\* not make a pixel is carried, and at an edge both stop.
LEMMA TravelStaysNear ==
  ASSUME Scale \in Nat \ {0}, Width \in Nat \ {0}, NEW m \in Int, Travel(m),
         frac \in -(Scale - 1) .. Scale - 1, cursor \in 0 .. Width - 1
  PROVE  /\ frac' \in -(Scale - 1) .. Scale - 1 /\ cursor' \in 0 .. Width - 1
         /\ \A x \in Points, y \in Points :
              y = x + m /\ cursor * Scale + frac - x \in Near => cursor' * Scale + frac' - y \in Near
<1>1. PICK n \in Int : n = Trunc(frac + m) /\ n * Scale \in Int /\ frac' = frac + m - n * Scale /\ cursor' = Clamp(cursor + n)
  <2>1. Trunc(frac + m) \in Int
    BY TruncLeaves
  <2> QED  BY <2>1 DEF Travel
<1>2. frac' \in -(Scale - 1) .. Scale - 1 /\ (n > 0 => frac' >= 0) /\ (n < 0 => frac' <= 0)
  <2>1. frac + m \in Int
    OBVIOUS
  <2> QED  BY <1>1, <2>1, TruncLeaves
<1>3. cursor' \in 0 .. Width - 1
  BY <1>1, ClampIs
<1>4. ASSUME NEW x \in Points, NEW y \in Points, y = x + m, cursor * Scale + frac - x \in Near
      PROVE  cursor' * Scale + frac' - y \in Near
  <2>1. PICK c \in Int : c = cursor + n /\ c * Scale = cursor * Scale + n * Scale /\ c * Scale \in Int /\ cursor * Scale \in Int
    BY <1>1
  <2>2. PICK e \in Near : e = c * Scale + frac' - y
    BY <1>1, <1>2, <1>4, <2>1 DEF Points
  <2>3. PICK half \in Nat, all \in Nat, far \in Int, left \in Int :
          /\ half = Scale \div 2 /\ all = Width * Scale /\ far = c * Scale /\ left = frac' /\ y \in Nat /\ y <= all - 1
          /\ e \in Int /\ -(Scale - 1) <= e /\ e <= half /\ e = far + left - y
    <3>1. Scale \div 2 \in Nat /\ y \in Nat /\ y <= Width * Scale - 1 /\ Width * Scale \in Nat /\ frac' \in Int
      BY <1>2, LastPixel DEF Points
    <3>2. e \in Int /\ -(Scale - 1) <= e /\ e <= Scale \div 2
      BY <3>1 DEF Near
    <3> QED  BY <2>1, <2>2, <3>1, <3>2
  <2>4. /\ half = Scale \div 2 /\ y \in Nat /\ y <= all - 1 /\ e \in Int /\ -(Scale - 1) <= e /\ e <= half /\ e = far + left - y
    BY <2>3
  <2>5. CASE c \in 0 .. Width - 1
    BY <1>1, <2>1, <2>2, <2>5, ClampIs
  <2>6. CASE c >= Width
    <3>1. cursor' = Width - 1 /\ n > 0
      BY <1>1, <2>1, <2>6, ClampIs
    <3>2. (Width - 1) * Scale <= c * Scale /\ (Width - 1) * Scale = Width * Scale - Scale
      BY <2>1, <2>6, Further, LastPixel
    <3>3. PICK edge \in Int : edge = cursor' * Scale /\ edge = all - Scale /\ edge <= far
      BY <2>3, <3>1, <3>2
    <3>4. left >= 0
      BY <1>2, <2>3, <3>1
    <3>5. edge = all - Scale /\ edge <= far
      BY <3>3
    <3>6. edge + left - y >= -(Scale - 1) /\ edge + left - y <= half
      BY <2>4, <3>4, <3>5
    <3>7. edge + left - y \in Near
      BY <2>4, <3>6 DEF Near
    <3> QED  BY <2>3, <3>3, <3>7
  <2>7. CASE c < 0
    <3>1. cursor' = 0 /\ n < 0 /\ cursor' * Scale = 0
      BY <1>1, <2>1, <2>7, ClampIs
    <3>2. c * Scale <= 0 * Scale /\ 0 * Scale = 0
      BY <2>7, Further
    <3>3. left <= 0 /\ far <= 0
      BY <1>2, <2>3, <3>1, <3>2
    <3>4. left - y >= -(Scale - 1) /\ left - y <= half
      BY <2>4, <3>3
    <3>5. left - y \in Near
      BY <2>4, <3>4 DEF Near
    <3>6. cursor' * Scale + frac' - y = left - y
      BY <2>3, <3>1
    <3> QED  BY <3>5, <3>6
  <2> QED  BY <2>5, <2>6, <2>7
<1> QED  BY <1>2, <1>3, <1>4

----------------------------------------------------------------------------
(* The screen: its mode, the pointer and what is held.                      *)

ScreenTypeOK ==
  /\ head \in {"off", "booting", "ready"} /\ mode \in Games \cup {Base, "none"}
  /\ hand \in Int /\ frac \in -(Scale - 1) .. Scale - 1 /\ cursor \in 0 .. Width - 1

Switches ==
  /\ chase \in BOOLEAN /\ apart \in BOOLEAN /\ missed \in BOOLEAN /\ down \in BOOLEAN /\ grabbed \in BOOLEAN /\ guestDown \in BOOLEAN

\* What the page has heard of the mode.
ModeTrue ==
  /\ popped # Base
  /\ IF lastMode = "unwatched" THEN fit = "null" /\ baseline = "null" /\ head # "ready"
     ELSE lastMode = mode /\ baseline = Base /\ fit = IF mode = Base THEN "null" ELSE mode

\* The cursor and the travel that waits are as near as the anchor put them.
NearTrue ==
  /\ chase => hand \in Points /\ anchored = hand
  /\ hand # -1 /\ hand \notin Points => apart
  /\ ~missed
  /\ hand \in Points /\ ~apart => cursor * Scale + frac - hand \in Near

\* What the guest holds is held over a panel that hears, or went out of its hearing.
HeldTrue ==
  /\ grabbed => down /\ hand # -1
  /\ guestDown => grabbed \/ "button" \in unheard
  /\ guestKeys \subseteq GameKeys
  /\ guestKeys \subseteq unheard \cup (IF focus THEN held ELSE {})

ScreenInv == ScreenTypeOK /\ Switches /\ ModeTrue /\ NearTrue /\ HeldTrue

----------------------------------------------------------------------------
LEMMA ScreenFacts ==
  ASSUME ScreenAssumption
  PROVE  /\ Scale \in Nat \ {0} /\ Width \in Nat \ {0} /\ Base \notin Games
         /\ Base \notin {"none", "null", "unwatched"} /\ "null" \notin Games /\ "none" \notin Games /\ "unwatched" \notin Games
         /\ "button" \notin GameKeys
         /\ -1 \notin Points /\ -(Scale - 1) \in Int /\ 0 \in -(Scale - 1) .. Scale - 1 /\ 0 \in 0 .. Width - 1
<1>1. Scale \in Nat \ {0} /\ Width \in Nat \ {0}
  BY DEF ScreenAssumption
<1> QED  BY <1>1 DEF ScreenAssumption, Points

LEMMA ScreenInitInv == ASSUME ScreenAssumption PROVE ScreenInit => ScreenInv
<1> SUFFICES ASSUME ScreenInit PROVE ScreenInv  OBVIOUS
<1>1. ScreenTypeOK
  BY ScreenFacts DEF ScreenInit, ScreenTypeOK
<1>4. Switches
  BY DEF ScreenInit, Switches
<1>2. ModeTrue
  BY ScreenFacts DEF ScreenInit, ModeTrue
<1>3. NearTrue /\ HeldTrue
  BY ScreenFacts DEF ScreenInit, NearTrue, HeldTrue
<1> QED  BY <1>1, <1>2, <1>3, <1>4 DEF ScreenInv

\* A mode that is set is heard of, and changes nothing else.
LEMMA ModeMoves ==
  ASSUME ScreenAssumption, ScreenInv, NEW m \in Games \cup {Base}, m # mode, SetMode(m), UNCHANGED <<head, pointer, keys>>
  PROVE  ScreenInv'
<1>1. ScreenTypeOK' /\ Switches' /\ NearTrue' /\ HeldTrue'
  BY DEF SetMode, ScreenInv, ScreenTypeOK, Switches, NearTrue, HeldTrue, pointer, keys
<1>2. ModeTrue'
  <2>1. CASE lastMode = "unwatched"
    BY <2>1 DEF SetMode, window, ScreenInv, ModeTrue
  <2>2. CASE lastMode # "unwatched"
    <3>1. lastMode = mode /\ baseline = Base /\ m \notin {"none", "unwatched"} /\ mode' = m
      BY <2>2, ScreenFacts DEF SetMode, ScreenInv, ModeTrue
    <3>2. lastMode' = m /\ baseline' = Base /\ (IF m = Base THEN fit' = "null" /\ popped' = popped ELSE fit' = m /\ popped' = m)
      BY <2>2, <3>1, ScreenFacts DEF SetMode, Report
    <3> QED  BY <3>1, <3>2 DEF ScreenInv, ModeTrue
  <2> QED  BY <2>1, <2>2
<1> QED  BY <1>1, <1>2 DEF ScreenInv

LEMMA BootScreenKeeps ==
  ASSUME ScreenAssumption, ScreenInv, BootScreen \/ ScreenReady \/ ScreenOff
  PROVE  ScreenInv'
<1>1. CASE BootScreen
  <2>1. ScreenTypeOK'
    BY <1>1, ScreenFacts DEF BootScreen, ScreenInv, ScreenTypeOK
  <2>2. Switches'
    BY <1>1 DEF BootScreen, ScreenInv, Switches
  <2>3. ModeTrue' /\ NearTrue' /\ HeldTrue'
    BY <1>1 DEF BootScreen, window, ScreenInv, ModeTrue, NearTrue, HeldTrue
  <2> QED  BY <2>1, <2>2, <2>3 DEF ScreenInv
<1>2. CASE ScreenOff
  BY <1>2 DEF ScreenOff, window, pointer, keys, ScreenInv, ScreenTypeOK, Switches, ModeTrue, NearTrue, HeldTrue
<1>3. CASE ScreenReady
  <2>1. mode = Base /\ head' = "ready" /\ UNCHANGED <<mode, pointer, keys>>
    BY <1>3 DEF ScreenReady
  <2>2. ScreenTypeOK' /\ Switches' /\ NearTrue' /\ HeldTrue'
    BY <2>1 DEF pointer, keys, ScreenInv, ScreenTypeOK, Switches, NearTrue, HeldTrue
  <2>3. ModeTrue'
    <3>1. CASE lastMode = "unwatched"
      <4>1. lastMode' = Base /\ baseline' = Base /\ UNCHANGED <<fit, popped>> /\ fit = "null"
        BY <1>3, <2>1, <3>1, ScreenFacts DEF ScreenReady, Report, ScreenInv, ModeTrue
      <4> QED  BY <2>1, <4>1, ScreenFacts DEF ScreenInv, ModeTrue
    <3>2. CASE lastMode # "unwatched"
      BY <1>3, <2>1, <3>2 DEF ScreenReady, window, ScreenInv, ModeTrue
    <3> QED  BY <3>1, <3>2
  <2> QED  BY <2>2, <2>3 DEF ScreenInv
<1> QED  BY <1>1, <1>2, <1>3

\* A panel that goes, or its focus, notes what is held.
LEMMA WindowKeeps ==
  ASSUME ScreenAssumption, ScreenInv, NEW shown, Window(shown) \/ Blur
  PROVE  ScreenInv'
<1>1. /\ UNCHANGED <<head, mode, lastMode, baseline, fit, popped, cursor, missed, down, held, guestDown, guestKeys>>
      /\ UNCHANGED <<hand, chase, anchored, frac, apart>>
         \/ (hand' = -1 /\ chase' = FALSE /\ frac' = 0 /\ apart' = TRUE)
  BY DEF Window, Blur, Unmount, window, pointer
<1>2. ScreenTypeOK'
  BY <1>1, ScreenFacts DEF ScreenInv, ScreenTypeOK
<1>3. ModeTrue'
  BY <1>1 DEF ScreenInv, ModeTrue
<1>4. NearTrue'
  BY <1>1, ScreenFacts DEF ScreenInv, NearTrue
<1>5. Switches'
  <2>1. grabbed' \in BOOLEAN
    BY DEF Window, Blur, Unmount, pointer, ScreenInv, Switches
  <2> QED  BY <1>1, <2>1 DEF ScreenInv, Switches
<1>6. HeldTrue'
  <2>1. CASE UNCHANGED <<hand, grabbed, focus, unheard>>
    BY <1>1, <2>1 DEF ScreenInv, HeldTrue
  <2>2. CASE Unmount
    BY <1>1, <2>2 DEF Unmount, ScreenInv, HeldTrue
  <2>3. CASE Blur
    BY <1>1, <2>3 DEF Blur, pointer, ScreenInv, HeldTrue
  <2> QED  BY <2>1, <2>2, <2>3 DEF Window
<1> QED  BY <1>2, <1>3, <1>4, <1>5, <1>6 DEF ScreenInv

\* The pointer comes in, or the button goes down: anchored.
LEMMA AnchorKeeps ==
  ASSUME ScreenAssumption, ScreenInv, NEW x \in Points, Enter(x) \/ (Press /\ x = hand)
  PROVE  ScreenInv'
<1>1. /\ Anchor(x) /\ hand' = x /\ apart' = FALSE /\ chase' \in BOOLEAN /\ UNCHANGED <<head, mode, lastMode, baseline, fit, popped>>
      /\ chase' => anchored' = x
      /\ missed' => (missed \/ cursor' * Scale - x \notin -(Scale - 1) .. Scale \div 2)
  <2>1. CASE Enter(x)
    BY <2>1 DEF Enter, Anchor, window
  <2>2. CASE Press /\ x = hand
    BY <2>2 DEF Press, Anchor, window, ScreenInv, Switches
  <2> QED  BY <2>1, <2>2
<1>2. cursor' \in 0 .. Width - 1 /\ cursor' * Scale - x \in Near /\ frac' = 0
  BY <1>1, ScreenFacts, AnchorIsNear DEF Anchor
<1>3. ~missed' /\ x \in Int /\ x # -1
  BY <1>1, <1>2, ScreenFacts DEF Near, ScreenInv, NearTrue, Points
<1>4. ScreenTypeOK' /\ Switches' /\ ModeTrue'
  <2>1. ScreenTypeOK'
    BY <1>1, <1>2, <1>3, ScreenFacts DEF ScreenInv, ScreenTypeOK
  <2>2. Switches'
    <3>1. chase' \in BOOLEAN /\ apart' \in BOOLEAN /\ missed' \in BOOLEAN
      BY <1>1 DEF Enter, Press, ScreenInv, Switches
    <3>2. down' \in BOOLEAN /\ grabbed' \in BOOLEAN /\ guestDown' \in BOOLEAN
      BY DEF Enter, Press, ScreenInv, Switches
    <3> QED  BY <3>1, <3>2 DEF Switches
  <2>3. ModeTrue'
    BY <1>1 DEF ScreenInv, ModeTrue
  <2> QED  BY <2>1, <2>2, <2>3
<1>5. NearTrue'
  <2>1. cursor' * Scale + frac' - hand' = cursor' * Scale - x
    BY <1>1, <1>2, <1>3, ScreenFacts
  <2> QED  BY <1>1, <1>2, <1>3, <2>1 DEF NearTrue
<1>6. HeldTrue'
  <2>1. CASE Enter(x)
    BY <1>1, <1>3, <2>1 DEF Enter, keys, ScreenInv, HeldTrue
  <2>2. CASE Press /\ x = hand
    <3>1. /\ grabbed' /\ down' /\ hand' # -1 /\ focus' /\ UNCHANGED <<held, guestKeys>> /\ unheard' = unheard \ {"button"}
      BY <1>1, <1>3, <2>2 DEF Press
    <3>2. guestKeys' \subseteq unheard' \cup held
      BY <3>1, ScreenFacts DEF ScreenInv, HeldTrue
    <3> QED  BY <3>1, <3>2 DEF ScreenInv, HeldTrue
  <2> QED  BY <2>1, <2>2
<1> QED  BY <1>4, <1>5, <1>6 DEF ScreenInv

\* The move that chases an enter is dropped.
LEMMA ChasedKeeps ==
  ASSUME ScreenInv, NEW m, Chased(m)
  PROVE  ScreenInv'
<1>1. /\ chase' = FALSE
      /\ UNCHANGED <<head, mode, lastMode, baseline, fit, popped, hand, frac, cursor, apart, missed, down, grabbed, guestDown>>
      /\ UNCHANGED <<held, guestKeys, focus, unheard>>
  BY DEF Chased, Skips, window, keys, ScreenInv, NearTrue
<1>2. ScreenTypeOK' /\ ModeTrue' /\ NearTrue' /\ HeldTrue'
  BY <1>1 DEF ScreenInv, ScreenTypeOK, ModeTrue, NearTrue, HeldTrue
<1>3. Switches'
  BY <1>1 DEF ScreenInv, Switches
<1> QED  BY <1>2, <1>3 DEF ScreenInv

LEMMA MoveHandKeeps ==
  ASSUME ScreenAssumption, ScreenInv, NEW x \in {-2} \cup Points \cup {Width * Scale}, MoveHand(x)
  PROVE  ScreenInv'
<1>1. /\ hand # -1 /\ ~chase /\ hand' = x /\ Travel(x - hand) /\ apart' = (apart \/ x \notin Points)
      /\ UNCHANGED <<head, mode, lastMode, baseline, fit, popped, chase, missed, down, grabbed, guestDown, held, guestKeys, focus, unheard>>
  BY DEF MoveHand, window, keys
<1>2. x \in Int /\ x # -1 /\ hand \in Int /\ x - hand \in Int
  BY ScreenFacts, LastPixel DEF Points, ScreenInv, ScreenTypeOK
<1>3. PICK m \in Int : m = x - hand /\ x = hand + m
  BY <1>2
<1>4. /\ frac' \in -(Scale - 1) .. Scale - 1 /\ cursor' \in 0 .. Width - 1
      /\ \A from \in Points, y \in Points :
           y = from + m /\ cursor * Scale + frac - from \in Near => cursor' * Scale + frac' - y \in Near
  BY <1>1, <1>3, ScreenFacts, TravelStaysNear DEF ScreenInv, ScreenTypeOK
<1>5. ScreenTypeOK' /\ ModeTrue' /\ HeldTrue'
  BY <1>1, <1>2, <1>4 DEF ScreenInv, ScreenTypeOK, ModeTrue, HeldTrue
<1>6. NearTrue'
  <2>1. ~chase' /\ ~missed' /\ (x \notin Points => apart')
    BY <1>1 DEF ScreenInv, NearTrue
  <2>2. ASSUME x \in Points, ~apart'  PROVE cursor' * Scale + frac' - x \in Near
    <3>1. hand \in Points /\ cursor * Scale + frac - hand \in Near
      BY <1>1, <2>2 DEF ScreenInv, NearTrue
    <3> QED  BY <1>3, <1>4, <2>2, <3>1
  <2> QED  BY <1>1, <2>1, <2>2 DEF NearTrue
<1>7. Switches'
  <2>1. apart' \in BOOLEAN
    BY <1>1
  <2>2. chase' \in BOOLEAN /\ missed' \in BOOLEAN /\ down' \in BOOLEAN /\ guestDown' \in BOOLEAN
    BY <1>1 DEF ScreenInv, Switches
  <2> QED  BY <2>1, <2>2, <1>1 DEF ScreenInv, Switches
<1> QED  BY <1>5, <1>6, <1>7 DEF ScreenInv

LEMMA ReleaseKeeps ==
  ASSUME ScreenAssumption, ScreenInv, Release \/ LeavePanel \/ Restart
  PROVE  ScreenInv'
<1>1. CASE Release
  <2>1. /\ down /\ down' = FALSE /\ grabbed' = FALSE /\ guestDown' = (guestDown /\ hand = -1) /\ hand' = (IF hand \in Points THEN hand ELSE -1)
        /\ unheard' = IF hand = -1 THEN unheard ELSE unheard \ {"button"}
        /\ UNCHANGED <<head, mode, lastMode, baseline, fit, popped, chase, anchored, frac, cursor, apart, missed, held, guestKeys, focus>>
    BY <1>1 DEF Release, window
  <2>2. ScreenTypeOK'
    BY <2>1 DEF ScreenInv, ScreenTypeOK
  <2>3. ModeTrue'
    BY <2>1 DEF ScreenInv, ModeTrue
  <2>4. NearTrue'
    BY <2>1, ScreenFacts DEF ScreenInv, ScreenTypeOK, NearTrue
  <2>5. Switches'
    BY <2>1 DEF ScreenInv, Switches
  <2>6. HeldTrue'
    <3>1. guestDown' => hand = -1 /\ "button" \in unheard
      BY <2>1 DEF ScreenInv, HeldTrue
    <3>2. guestKeys \subseteq unheard' \cup (IF focus THEN held ELSE {})
      BY <2>1, ScreenFacts DEF ScreenInv, HeldTrue
    <3> QED  BY <2>1, <3>1, <3>2 DEF ScreenInv, HeldTrue
  <2> QED  BY <2>2, <2>3, <2>4, <2>5, <2>6 DEF ScreenInv
<1>2. CASE LeavePanel
  BY <1>2, ScreenFacts DEF LeavePanel, window, keys, ScreenInv, ScreenTypeOK, Switches, ModeTrue, NearTrue, HeldTrue
<1>3. CASE Restart
  <2>1. ScreenTypeOK'
    BY <1>3, ScreenFacts DEF Restart, ScreenInv, ScreenTypeOK
  <2>2. Switches'
    BY <1>3 DEF Restart, ScreenInv, Switches
  <2>3. ModeTrue' /\ NearTrue' /\ HeldTrue'
    BY <1>3 DEF Restart, window, keys, ScreenInv, ModeTrue, NearTrue, HeldTrue
  <2> QED  BY <2>1, <2>2, <2>3 DEF ScreenInv
<1> QED  BY <1>1, <1>2, <1>3

LEMMA KeyKeeps ==
  ASSUME ScreenAssumption, ScreenInv, NEW k \in GameKeys, KeyDown(k) \/ KeyUp(k)
  PROVE  ScreenInv'
<1>1. UNCHANGED <<head, mode, window, pointer, focus>>
  BY DEF KeyDown, KeyUp
<1>2. ScreenTypeOK' /\ Switches' /\ ModeTrue' /\ NearTrue'
  BY <1>1 DEF window, pointer, ScreenInv, ScreenTypeOK, Switches, ModeTrue, NearTrue
<1>3. HeldTrue'
  <2>1. grabbed' = grabbed /\ down' = down /\ hand' = hand /\ guestDown' = guestDown /\ focus' = focus
    BY <1>1 DEF pointer
  <2>2. "button" \in unheard => "button" \in unheard'
    BY ScreenFacts DEF KeyDown, KeyUp
  <2>3. guestKeys' \subseteq GameKeys /\ guestKeys' \subseteq unheard' \cup (IF focus THEN held' ELSE {})
    <3>1. CASE KeyDown(k)
      BY <3>1 DEF KeyDown, ScreenInv, HeldTrue
    <3>2. CASE KeyUp(k)
      BY <3>2 DEF KeyUp, ScreenInv, HeldTrue
    <3> QED  BY <3>1, <3>2
  <2> QED  BY <2>1, <2>2, <2>3 DEF ScreenInv, HeldTrue
<1> QED  BY <1>2, <1>3 DEF ScreenInv

\* The screen keeps its word (ScreenTrue): the mode's window, the pointer's place
\* and what is held, and what of it the panel cannot have heard of.
THEOREM ScreenKeepsItsWord ==
  ASSUME ScreenAssumption
  PROVE  ScreenSpec => []ScreenTrue
<1>1. ScreenInit => ScreenInv
  BY ScreenInitInv
<1>2. ScreenInv /\ [ScreenNext]_screenVars => ScreenInv'
  <2> SUFFICES ASSUME ScreenInv, [ScreenNext]_screenVars PROVE ScreenInv'  OBVIOUS
  <2>1. CASE BootScreen \/ ScreenReady \/ ScreenOff
    BY <2>1, BootScreenKeeps
  <2>2. CASE BootMode
    BY <2>2, ModeMoves DEF BootMode
  <2>3. CASE \E m \in Games \cup {Base} : GuestMode(m)
    BY <2>3, ModeMoves DEF GuestMode
  <2>4. CASE Toggle \/ Blur \/ \E shown \in BOOLEAN : GuestWindow(shown)
    <3>1. \E shown : Window(shown) \/ Blur
      BY <2>4 DEF Toggle, GuestWindow
    <3> QED  BY <3>1, WindowKeeps
  <2>5. CASE Press \/ \E x \in Points : Enter(x)
    BY <2>5, AnchorKeeps DEF Press
  <2>6. CASE \E m \in {-2 * Scale, 2 * Scale} : Chased(m)
    BY <2>6, ChasedKeeps
  <2>7. CASE \E x \in {-2} \cup Points \cup {Width * Scale} : MoveHand(x)
    BY <2>7, MoveHandKeeps
  <2>8. CASE Release \/ LeavePanel \/ Restart
    BY <2>8, ReleaseKeeps
  <2>9. CASE \E k \in GameKeys : KeyDown(k) \/ KeyUp(k)
    BY <2>9, KeyKeeps
  <2>10. CASE UNCHANGED screenVars
    BY <2>10 DEF screenVars, ScreenInv, ScreenTypeOK, Switches, ModeTrue, NearTrue, HeldTrue
  <2> QED  BY <2>1, <2>2, <2>3, <2>4, <2>5, <2>6, <2>7, <2>8, <2>9, <2>10 DEF ScreenNext
<1>3. ScreenInv => ScreenTrue
  <2> SUFFICES ASSUME ScreenInv PROVE ScreenTrue  OBVIOUS
  <2>1. head = "ready" => fit = IF mode = Base THEN "null" ELSE mode
    BY DEF ScreenInv, ModeTrue
  <2>2. ASSUME hand \in Points, ~apart
        PROVE  cursor * Scale - hand \in -2 * (Scale - 1) .. Scale \div 2 + Scale - 1
    <3>1. PICK at \in Int, left \in Int, half \in Nat, x \in Int :
            /\ at = cursor * Scale /\ left = frac /\ half = Scale \div 2 /\ x = hand
            /\ -(Scale - 1) <= left /\ left <= Scale - 1
      BY ScreenFacts DEF ScreenInv, ScreenTypeOK
    <3>2. at + left - x \in -(Scale - 1) .. half
      BY <2>2, <3>1 DEF ScreenInv, NearTrue, Near
    <3>3. -2 * (Scale - 1) <= at - x /\ at - x <= half + Scale - 1
      BY <3>1, <3>2, ScreenFacts
    <3> QED  BY <3>1, <3>3, ScreenFacts
  <2> QED  BY <2>1, <2>2 DEF ScreenTrue, ScreenInv, ModeTrue, NearTrue, HeldTrue
<1> QED  BY <1>1, <1>2, <1>3, PTL DEF ScreenSpec
=============================================================================
