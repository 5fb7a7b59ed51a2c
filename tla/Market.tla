------------------------------- MODULE Market -------------------------------
(***************************************************************************)
(* Packages on their way into the page: apps and skills out of a repository *)
(* whose index is kept for a minute while the repository goes on            *)
(* publishing, from a link, and from a dropped file.  An app is parked in   *)
(* /data under the name it is to have, and the guest installs what is       *)
(* parked there by then, whoever parked it.                                 *)
(***************************************************************************)
EXTENDS Integers, FiniteSets

CONSTANTS
  Requests,    \* requests under way at once
  Packages,    \* names the repositories list
  Digested,    \* app entries that carry a sha256
  Foreign,     \* entries whose env leaves this runtime out
  MaxVersion,  \* bound: what the repository publishes; version 0 is something else
  MaxRequest   \* bound: requests

\* What the constants are taken to be.
MarketAssumption ==
  /\ Digested \subseteq Packages /\ Foreign \subseteq Packages
  /\ {MaxVersion, MaxRequest} \subseteq Nat

Kinds == {"app", "skill", "preview", "file", "app link", "skill link"}
Listed == {"app", "skill", "preview"}
Links == {"app link", "skill link"}
Parked == {"app", "file", "app link"}
Absent == -1
Unknown == [p \in Packages |-> Absent]
Nothing == [bytes |-> Absent, kind |-> "none", names |-> 0]
Empty == [p \in Packages |-> Nothing]

VARIABLES
  hub,       \* the version the repository serves of each package
  cached,    \* each market's index: the versions it names, and whether it still counts
  request,   \* each: its step, kind, package, the version its entry names, the bytes it has, its answer;
             \*   for the properties, what it installed and whether another parked under its name since it did
  park,      \* what is parked under each name in /data: its bytes, and for the properties whose they are
  apps,      \* the version installed of each app
  upVm,      \* the machine is up
  requests   \* bound

marketVars == <<hub, cached, request, park, apps, upVm, requests>>

Idle == [step |-> "idle", kind |-> "none", name |-> "none", names |-> 0, bytes |-> 0, answer |-> "none",
         got |-> Nothing, after |-> "none"]

MarketInit ==
  /\ hub \in [Packages -> 1 .. MaxVersion] /\ cached = [m \in {"app", "skill"} |-> [index |-> Unknown, fresh |-> FALSE]]
  /\ request = [r \in Requests |-> Idle] /\ park = Empty /\ apps = Unknown
  /\ upVm \in BOOLEAN /\ requests = 0

----------------------------------------------------------------------------
(* What goes on meanwhile.                                                 *)

Publish(p) ==
  /\ hub[p] < MaxVersion /\ hub' = [hub EXCEPT ![p] = @ + 1]
  /\ UNCHANGED <<cached, request, park, apps, upVm, requests>>

\* A minute passes.
Age(m) ==
  /\ cached[m].fresh /\ cached' = [cached EXCEPT ![m].fresh = FALSE]
  /\ UNCHANGED <<hub, request, park, apps, upVm, requests>>

\* The machine goes off and comes back with its apps, its parked files swept.
Power ==
  /\ upVm' = ~upVm /\ park' = Empty
  /\ UNCHANGED <<hub, cached, request, apps, requests>>

----------------------------------------------------------------------------
MarketOf(kind) == IF kind = "app" THEN "app" ELSE "skill"
Step(r, step) == [request EXCEPT ![r].step = step]
Answer(r, what) == [request EXCEPT ![r].step = "over", ![r].answer = what]
Wants(r, kinds) == request[r].kind \in kinds
At(r, step) == request[r].step = step

\* install, preview, install-url, or a dropped file, whose bytes are here.
Ask(r, kind, p) ==
  /\ At(r, "idle") /\ requests < MaxRequest /\ requests' = requests + 1
  /\ request' = [request EXCEPT ![r] = [Idle EXCEPT !.kind = kind, !.name = p,
       !.step = CASE kind \in Listed -> "index" [] kind \in Links -> "download" [] OTHER -> "park"]]
  /\ UNCHANGED <<hub, cached, park, apps, upVm>>

\* What index() does in either market: within its minute the index there is,
\* else the repository's; two requests may both fetch it.
Index(r, m, next, reachable) ==
  /\ At(r, "index") /\ MarketOf(request[r].kind) = m
  /\ IF cached[m].fresh
     THEN /\ request' = [request EXCEPT ![r].step = next, ![r].names = cached[m].index[request[r].name]]
          /\ UNCHANGED cached
     ELSE IF ~reachable THEN request' = Answer(r, "unreachable") /\ UNCHANGED cached
     ELSE /\ request' = [request EXCEPT ![r].step = next, ![r].names = hub[request[r].name]]
          /\ cached' = [cached EXCEPT ![m] = [index |-> hub, fresh |-> TRUE]]
  /\ UNCHANGED <<hub, park, apps, upVm, requests>>

AppIndex(r, reachable)   == Index(r, "app", "entry", reachable)
SkillIndex(r, reachable) == Index(r, "skill", "entry", reachable)

\* The index has been filtered: an app for another runtime is not in it.
AppEntry(r) ==
  /\ At(r, "entry") /\ Wants(r, {"app"})
  /\ request' = IF request[r].name \in Foreign THEN Answer(r, "not there") ELSE Step(r, "download")
  /\ UNCHANGED <<hub, cached, park, apps, upVm, requests>>

\* A skill for another runtime is refused; reading it is not installing it.
SkillEntry(r) ==
  /\ At(r, "entry") /\ Wants(r, {"skill", "preview"})
  /\ request' = IF request[r].name \in Foreign /\ Wants(r, {"skill"}) THEN Answer(r, "mismatch") ELSE Step(r, "download")
  /\ UNCHANGED <<hub, cached, park, apps, upVm, requests>>

\* What is served there by now, or something else.
Served(r, version) == version \in {0, hub[request[r].name]}
Here(r, version, step) == [request EXCEPT ![r].bytes = version, ![r].step = step]

\* Mutant: whatever came is installed.
NoCheck(r, version) == TRUE

\* The digest, where the entry carries one.
Matches(r, version) == request[r].name \in Digested => version = request[r].names

AppDownload(r, version) ==
  /\ At(r, "download") /\ Wants(r, {"app"}) /\ Served(r, version)
  /\ request' = IF Matches(r, version) THEN Here(r, version, "park") ELSE Answer(r, "digest")
  /\ UNCHANGED <<hub, cached, park, apps, upVm, requests>>

SkillDownload(r, version) ==
  /\ At(r, "download") /\ Wants(r, {"skill", "preview"}) /\ Served(r, version)
  /\ request' = Here(r, version, "import")
  /\ UNCHANGED <<hub, cached, park, apps, upVm, requests>>

\* Either install-url: whatever the address serves.
AppLink(r, version) ==
  /\ At(r, "download") /\ Wants(r, {"app link"}) /\ Served(r, version)
  /\ request' = Here(r, version, "park")
  /\ UNCHANGED <<hub, cached, park, apps, upVm, requests>>

SkillLink(r, version) ==
  /\ At(r, "download") /\ Wants(r, {"skill link"}) /\ Served(r, version)
  /\ request' = Here(r, version, "import")
  /\ UNCHANGED <<hub, cached, park, apps, upVm, requests>>

NotThere(r) ==
  /\ At(r, "download") /\ request' = Answer(r, "unreachable")
  /\ UNCHANGED <<hub, cached, park, apps, upVm, requests>>

\* importSkill or previewSkill: the engine's own answer.
Import(r, ok) ==
  /\ At(r, "import") /\ request' = Answer(r, IF ok THEN "ok" ELSE "refused")
  /\ UNCHANGED <<hub, cached, park, apps, upVm, requests>>

\* What a request parks.
Parcel(r) == [bytes |-> request[r].bytes, kind |-> request[r].kind, names |-> request[r].names]

\* vmAppInstall: parked under the name it is to have, over what is there ...
Park(r) ==
  /\ At(r, "park")
  /\ LET p == request[r].name IN
     IF upVm
     THEN /\ park' = [park EXCEPT ![p] = Parcel(r)]
          /\ request' = [s \in Requests |->
               IF s = r THEN [request[s] EXCEPT !.step = "install"]
               ELSE IF At(s, "install") /\ request[s].name = p THEN [request[s] EXCEPT !.after = "another"]
               ELSE request[s]]
     ELSE request' = Answer(r, "machine off") /\ UNCHANGED park
  /\ UNCHANGED <<hub, cached, apps, upVm, requests>>

\* ... and installed from there; a machine that went off meanwhile has nothing.
Install(r) ==
  /\ At(r, "install")
  /\ LET p == request[r].name IN
     IF upVm /\ park[p] # Nothing
     THEN /\ apps' = [apps EXCEPT ![p] = park[p].bytes]
          /\ request' = [request EXCEPT ![r].step = "over", ![r].answer = "ok", ![r].got = park[p]]
     ELSE request' = Answer(r, IF upVm THEN "refused" ELSE "machine off") /\ UNCHANGED apps
  /\ UNCHANGED <<hub, cached, park, upVm, requests>>

\* app remove, through the guest.
Remove(p) ==
  /\ upVm /\ apps[p] # Absent /\ apps' = [apps EXCEPT ![p] = Absent]
  /\ UNCHANGED <<hub, cached, request, park, upVm, requests>>

Done(r) ==
  /\ At(r, "over") /\ request' = [request EXCEPT ![r] = Idle]
  /\ UNCHANGED <<hub, cached, park, apps, upVm, requests>>

MarketNext ==
  \/ Power
  \/ \E m \in {"app", "skill"} : Age(m)
  \/ \E p \in Packages : Publish(p) \/ Remove(p)
  \/ \E r \in Requests :
       \/ \E kind \in Kinds, p \in Packages : Ask(r, kind, p)
       \/ \E ok \in BOOLEAN : AppIndex(r, ok) \/ SkillIndex(r, ok) \/ Import(r, ok)
       \/ \E version \in 0 .. MaxVersion :
            AppDownload(r, version) \/ SkillDownload(r, version) \/ AppLink(r, version) \/ SkillLink(r, version)
       \/ AppEntry(r) \/ SkillEntry(r) \/ NotThere(r) \/ Park(r) \/ Install(r) \/ Done(r)

MarketSpec == MarketInit /\ [][MarketNext]_marketVars

----------------------------------------------------------------------------
\* What is installed under a name is what some request parked there: bytes whose
\* digest that request's own index named, however stale the index, and never an
\* entry meant for another runtime; and it is the request's own, unless another
\* parked under the name between its park and its install.  An entry said to be
\* installed was not meant for another runtime either.
InstalledAsNamed ==
  \A r \in Requests : At(r, "over") /\ request[r].answer = "ok" =>
    LET p == request[r].name
        got == request[r].got IN
    /\ Wants(r, {"app", "skill"}) => p \notin Foreign
    /\ Wants(r, Parked) =>
         /\ got.kind = "app" => p \notin Foreign /\ (p \in Digested => got.bytes = got.names)
         /\ got.kind \in Parked /\ (request[r].after = "none" => got = Parcel(r))
=============================================================================
