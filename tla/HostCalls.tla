------------------------------ MODULE HostCalls ------------------------------
(***************************************************************************)
(* The guest's calls to the desktop, other than its fetches: windows,       *)
(* notices, opens and downloads, the camera, the radio, the bridge, a       *)
(* script.  A call may read a file its caller staged and may answer with a  *)
(* file it wrote; between the two it waits, and other calls are served.     *)
(* Pages come and go, so a surface is there or not each time one is wanted. *)
(***************************************************************************)
EXTENDS HostFetch, FiniteSets

CONSTANTS
  Asks,       \* calls that may be under way at once
  WebApps,    \* apps that open a web window under their own name
  MaxWeb,     \* web windows a desktop shows
  MaxAsked    \* bound: calls made and machines started

\* An app whose name is one the page gives to a nameless window would share it.
HostCallsAssumption == WebApps \cap Nat = {} /\ {MaxWeb, MaxAsked} \subseteq Nat

VARIABLES
  ask,       \* each call: its step, its method, its number and its answer
  results,   \* result files: the call whose bytes each name holds
  webs,      \* the windows by id, an app or a number: the call whose bundle each shows
  anonWindows,
  acts,      \* history: how often each call did what it asks
  nameless,  \* history: calls of this machine whose nameless windows nobody closed
  asked

askVars == <<ask, results, webs, anonWindows, acts, nameless, asked>>
desk == <<webs, anonWindows, nameless>>

Opening == {"resource.open", "resource.download"}
Posting == {"notify.show", "window.openUrl"}
Taking  == {"camera.capture", "ble.write", "bridge.start"}
Telling == {"debug.js", "ble.services"}
Methods == {"window.create", "window.close"} \cup Opening \cup Posting \cup Taking \cup Telling

NoAsk == [step |-> "idle", method |-> "none", number |-> 0, answer |-> "none"]

AskInit ==
  /\ ask = [c \in Asks |-> NoAsk] /\ results = [name \in {} |-> 0]
  /\ webs = [id \in {} |-> 0] /\ anonWindows = 0
  /\ acts = [c \in Asks |-> 0] /\ nameless = {} /\ asked = 0

With(f, i, v) == [j \in DOMAIN f \cup {i} |-> IF j = i THEN v ELSE f[j]]
Lacking(f, i) == [j \in DOMAIN f \ {i} |-> f[j]]

Is(c, step, methods) == ask[c].step = step /\ ask[c].method \in methods
Proceed(c, step) == ask' = [ask EXCEPT ![c].step = step] /\ UNCHANGED acts
Deny(c, why) == ask' = [ask EXCEPT ![c].step = "over", ![c].answer = why] /\ UNCHANGED acts
Do(c) == acts' = [acts EXCEPT ![c] = @ + 1]
Grant(c) == ask' = [ask EXCEPT ![c].step = "over", ![c].answer = "ok"] /\ Do(c)

Ask(c, method) ==
  /\ ask[c].step = "idle" /\ asked < MaxAsked /\ asked' = asked + 1
  /\ ask' = [ask EXCEPT ![c] = [NoAsk EXCEPT !.step = "new", !.method = method, !.number = asked']]
  /\ acts' = [acts EXCEPT ![c] = 0]
  /\ UNCHANGED <<results, desk>>

\* wantSurface and wantStr; the order they come in tells only which is refused.
Wanted(there, valid) == IF ~there THEN "unavailable" ELSE IF ~valid THEN "invalid" ELSE "ok"

----------------------------------------------------------------------------
(* Windows.                                                                *)

\* window.create: the table and the surface asked for, before the bundle.
Create(c, there, valid) ==
  /\ Is(c, "new", {"window.create"})
  /\ IF Wanted(there, valid) = "ok" THEN Proceed(c, "reading") ELSE Deny(c, Wanted(there, valid))
  /\ UNCHANGED <<results, desk, asked>>

\* The bundle: readRef, then parseBundle.
Bundle(file) == file = "whole"

\* The rest of window.create: a window of that id is replaced, a new one is
\* refused past the cap, and a number is spent on it all the same.
Show(c, app, file) ==
  /\ Is(c, "reading", {"window.create"})
  /\ LET id == IF app = "none" THEN anonWindows + 1 ELSE app
         room == id \in DOMAIN webs \/ Cardinality(DOMAIN webs) < MaxWeb
     IN IF ~Bundle(file) THEN Deny(c, "resource") /\ UNCHANGED desk
        ELSE /\ anonWindows' = IF app = "none" THEN id ELSE anonWindows
             /\ IF room
                THEN /\ Grant(c) /\ webs' = With(webs, id, ask[c].number)
                     /\ nameless' = IF app = "none" THEN nameless \cup {ask[c].number} ELSE nameless
                ELSE Deny(c, "unavailable") /\ UNCHANGED <<webs, nameless>>
  /\ UNCHANGED <<results, asked>>

Leave(id) == webs' = Lacking(webs, id) /\ nameless' = nameless \ {webs[id]} /\ UNCHANGED anonWindows

CloseWindow(c, id, there) ==
  /\ Is(c, "new", {"window.close"})
  /\ IF there /\ id \in DOMAIN webs THEN Grant(c) /\ Leave(id) ELSE Deny(c, "unavailable") /\ UNCHANGED desk
  /\ UNCHANGED <<results, asked>>

PersonCloses(id) == id \in DOMAIN webs /\ Leave(id) /\ UNCHANGED <<ask, results, acts, asked>>

----------------------------------------------------------------------------
(* Notices, opens, downloads.                                              *)

\* notify.show and window.openUrl: said, opened or parked at once, or refused.
PostNotice(c, there, valid) ==
  /\ Is(c, "new", Posting)
  /\ IF Wanted(there, valid) = "ok" THEN Grant(c) ELSE Deny(c, Wanted(there, valid))
  /\ UNCHANGED <<results, desk, asked>>

\* resource.open and resource.download want a name, then the file ...
Open(c, valid) ==
  /\ Is(c, "new", Opening)
  /\ IF valid THEN Proceed(c, "reading") ELSE Deny(c, "invalid")
  /\ UNCHANGED <<results, desk, asked>>

\* ... and only then somewhere to show it.
HandOver(c, file, there) ==
  /\ Is(c, "reading", Opening)
  /\ IF file = "unusable" THEN Deny(c, "resource")
     ELSE IF there THEN Grant(c) ELSE Deny(c, "unavailable")
  /\ UNCHANGED <<results, desk, asked>>

----------------------------------------------------------------------------
(* What is waited for.                                                     *)

\* camera.capture, the radio, the bridge, a script.
BeginAsk(c, there, valid) ==
  /\ Is(c, "new", Taking \cup Telling)
  /\ IF Wanted(there, valid) = "ok" THEN Proceed(c, "asking") ELSE Deny(c, Wanted(there, valid))
  /\ UNCHANGED <<results, desk, asked>>

\* unavailable(): the broker's verdict keeps its own name.
Brokered(c, verdict) ==
  /\ Is(c, "asking", Taking)
  /\ IF verdict = "ok" THEN Grant(c) ELSE Deny(c, verdict)
  /\ UNCHANGED <<results, desk, asked>>

\* Mutant: one file for everybody's results.
OneName(c) == 0

\* The file a result goes to: the call's id is in its name.
ResultName(c) == ask[c].number

\* A script has ended, well or not, or the services are listed: in the answer,
\* or in a file when they have outgrown it.
Told(c, small) ==
  /\ Is(c, "asking", Telling)
  /\ IF small THEN Grant(c) ELSE Do(c) /\ ask' = [ask EXCEPT ![c].step = "writing"]
  /\ UNCHANGED <<results, desk, asked>>

\* The radio could not list them.
NotTold(c) ==
  /\ Is(c, "asking", {"ble.services"}) /\ Deny(c, "unavailable")
  /\ UNCHANGED <<results, desk, asked>>

WriteRef(c, ok) ==
  /\ ask[c].step = "writing"
  /\ ask' = [ask EXCEPT ![c].step = "over", ![c].answer = IF ok THEN "ref" ELSE "dataPlane"]
  /\ results' = IF ok THEN With(results, ResultName(c), ask[c].number) ELSE results
  /\ UNCHANGED <<desk, acts, asked>>

\* The caller takes the answer and deletes the file it names.
Take(c) ==
  /\ ask[c].step = "over" /\ ask' = [ask EXCEPT ![c] = NoAsk] /\ acts' = [acts EXCEPT ![c] = 0]
  /\ results' = IF ask[c].answer = "ref" THEN Lacking(results, ResultName(c)) ELSE results
  /\ UNCHANGED <<desk, asked>>

\* The machine is started again on this page: its methods count windows from
\* one again, and the old machine's windows are still there.
Restart ==
  /\ asked < MaxAsked /\ asked' = asked + 1
  /\ anonWindows' = 0 /\ nameless' = {} /\ results' = [name \in {} |-> 0]
  /\ ask' = [c \in Asks |-> NoAsk] /\ acts' = [c \in Asks |-> 0]
  /\ UNCHANGED webs

AskNext ==
  \/ Restart
  \/ \E id \in WebApps \cup (1 .. MaxAsked) : PersonCloses(id)
  \/ \E c \in Asks, there, valid \in BOOLEAN, file \in {"whole", "bad", "unusable"} :
       \/ \E m \in Methods : Ask(c, m)
       \/ \E app \in WebApps \cup {"none"} : Show(c, app, file)
       \/ \E id \in WebApps \cup (1 .. MaxAsked) : CloseWindow(c, id, there)
       \/ \E verdict \in {"ok", "busy", "foreground", "unavailable"} : Brokered(c, verdict)
       \/ Create(c, there, valid) \/ PostNotice(c, there, valid) \/ BeginAsk(c, there, valid)
       \/ Open(c, valid) \/ HandOver(c, file, there) \/ Told(c, there) \/ NotTold(c) \/ WriteRef(c, there) \/ Take(c)

AskSpec == AskInit /\ [][AskNext]_askVars

----------------------------------------------------------------------------
\* An answer is so, whatever else is served meanwhile: ok and a file mean it
\* was done once, a refusal that nothing was, except that what was done and
\* could not be written down says so; a file in an answer holds that call's
\* bytes until its caller takes it, and no call of this machine takes over a
\* nameless window of another.
DeskHonest ==
  /\ \A c \in Asks : ask[c].step = "over" =>
       /\ acts[c] = (IF ask[c].answer \in {"ok", "ref", "dataPlane"} THEN 1 ELSE 0)
       /\ ask[c].answer = "ref" => results[ResultName(c)] = ask[c].number
  /\ nameless \subseteq {webs[id] : id \in DOMAIN webs}

\* Every answer that the guest gets is so.
CallsHonest == FetchHonest /\ DeskHonest
=============================================================================
