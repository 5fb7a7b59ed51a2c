-------------------------------- MODULE Apps --------------------------------
(***************************************************************************)
(* /data/apps as the page edits it: packages, the autostart list and the    *)
(* record of seeded packages, in the mirror and in the machine's live tree. *)
(* A list is one file: whoever changes a line reads it, and later writes it *)
(* whole.  A boot replays the mirror's files; a running machine is copied   *)
(* back into the mirror in snapshots.                                       *)
(***************************************************************************)
EXTENDS FiniteSets, Integers

CONSTANTS
  Ids,       \* apps
  Bundled,   \* the ones this build seeds
  MaxChange  \* bound: edits and boots begun, windows opened

\* What the constants are taken to be.
AppsAssumption == Bundled \subseteq Ids /\ MaxChange \in Nat

VARIABLES
  machine,  \* "off", "booting", "replaying", "whole"
  owns,     \* this tab keeps the mirror
  rows,     \* the mirror's apps: packages, autostart list, seeded
  tree,     \* the machine's
  replay,   \* rows the boot read, and the files yet to land
  op,       \* the edit each caller has under way
  windows,  \* web apps whose window is open
  wish,     \* history: what the person asked for
  seeded,   \* history: packages once given
  crossing, \* history: apps whose edit crossed another write
  changes   \* what MaxChange bounds

appsVars == <<machine, owns, rows, tree, replay, op, windows, wish, seeded, crossing, changes>>

Callers == {"tool", "page", "seed"}
Parts == {"pkg", "on", "given"}
NoFiles == [pkg |-> {}, on |-> {}, given |-> {}]
NoEdit == [step |-> "idle"]
Free(a) == op[a].step = "idle"
AppsUp == machine \in {"replaying", "whole"}

\* The list may name an app that is gone: a remove whose disable was lost.
AppsInit ==
  /\ machine = "off" /\ owns \in BOOLEAN /\ tree = NoFiles
  /\ rows \in {[pkg |-> p, on |-> Ids \ p, given |-> Bundled \cap p] : p \in SUBSET Ids}
  /\ replay = [rows |-> NoFiles, left |-> {}]
  /\ op = [a \in Callers |-> NoEdit]
  /\ windows = {} /\ wish = rows /\ seeded = rows.given /\ crossing = {} /\ changes = 0

Counted == changes < MaxChange /\ changes' = changes + 1

\* The copy that counts.
Counts == IF machine = "whole" THEN tree ELSE rows

\* Apps that are in one of the two and not in the other.
Differ(files, others, part) == {id \in Ids : (id \in files[part]) # (id \in others[part])}

InHand == {op[a].id : a \in {b \in Callers : ~Free(b)}}
Cross(ids) == crossing' = crossing \cup ids

----------------------------------------------------------------------------
(* The machine.                                                            *)

BootApps ==
  /\ machine = "off" /\ Counted /\ machine' = "booting"
  /\ UNCHANGED <<owns, rows, tree, replay, op, windows, wish, seeded, crossing>>

\* restore(): reads the mirror at ready.
ReplayBegins ==
  /\ machine = "booting" /\ machine' = "replaying"
  /\ replay' = [rows |-> rows, left |-> Parts]
  /\ UNCHANGED <<owns, rows, tree, op, windows, wish, seeded, crossing, changes>>

Land(files, part, value) == [files EXCEPT ![part] = IF part = "pkg" THEN @ \cup value ELSE value]

Replay(part) ==
  /\ machine = "replaying" /\ part \in replay.left
  /\ tree' = Land(tree, part, replay.rows[part])
  /\ replay' = [replay EXCEPT !.left = @ \ {part}]
  /\ machine' = IF replay'.left = {} THEN "whole" ELSE machine
  /\ UNCHANGED <<owns, rows, op, windows, wish, seeded, crossing, changes>>

\* snapshot(): only the owner's tree goes to the mirror.
Snapshot ==
  /\ machine = "whole" /\ owns /\ rows' = tree
  /\ UNCHANGED <<machine, owns, tree, replay, op, windows, wish, seeded, crossing, changes>>

----------------------------------------------------------------------------
(* What an edit makes of the files and of the wish.                        *)

\* Installing is not enabling; an update keeps the list.
InstallIn(files, id, auto) ==
  [files EXCEPT !.pkg = @ \cup {id},
                !.on = IF auto THEN @ \cup {id} ELSE IF id \in files.pkg THEN @ ELSE @ \ {id}]

RemoveFrom(files, id) == [files EXCEPT !.pkg = @ \ {id}, !.on = @ \ {id}]
SetEnabled(files, id, on) == [files EXCEPT !.on = IF on THEN @ \cup {id} ELSE @ \ {id}]

\* The app CLI in the machine, from either side.
CliEdit(verb, id) ==
  /\ Counted
  /\ tree' = CASE verb = "install" -> InstallIn(tree, id, FALSE)
               [] verb = "remove"  -> RemoveFrom(tree, id)
               [] verb = "enable"  -> SetEnabled(tree, id, TRUE)
               [] verb = "disable" -> SetEnabled(tree, id, FALSE)
  /\ wish' = CASE verb = "install" -> InstallIn(wish, id, FALSE)
               [] verb = "remove"  -> RemoveFrom(wish, id)
               [] verb = "enable"  -> SetEnabled(wish, id, TRUE)
               [] verb = "disable" -> SetEnabled(wish, id, FALSE)
  /\ windows' = IF verb = "remove" THEN windows \ {id} ELSE windows
  /\ verb # "install" => id \in tree.pkg
  /\ UNCHANGED <<machine, owns, rows, replay, op, seeded>>

\* Typed on the console, which does not know of a replay that may undo it.
ConsoleCli(verb, id) ==
  /\ AppsUp /\ CliEdit(verb, id) /\ Cross(IF machine = "replaying" THEN {id} ELSE {id} \cap InHand)

\* Mutant: the page does not wait for the replay either.
GuestCliAtOnce(verb, id) ==
  AppsUp /\ CliEdit(verb, id) /\ Cross({id} \cap InHand)

\* The page's guestCli waits for a /data that is whole.
GuestCli(verb, id) ==
  machine = "whole" /\ CliEdit(verb, id) /\ Cross({id} \cap InHand)

----------------------------------------------------------------------------
(* The page's own changes.  Each reads the mirror, then writes what it read.  *)

\* One that reads what is not so any more, or of an app another edit has in
\* hand, is crossed.
Begin(a, what) ==
  /\ op' = [op EXCEPT ![a] = what]
  /\ Cross({what.id} \cap (InHand \cup UNION {Differ(rows, Counts, part) : part \in Parts}))
After(a, step) == op' = [op EXCEPT ![a].step = step]

\* installWebApp: reads, and decides what to land.
InstallWebApp(id, auto) ==
  /\ Free("tool") /\ Counted
  /\ Begin("tool", [step |-> "rows", id |-> id, auto |-> auto, read |-> rows,
                    parts |-> {"pkg"} \cup IF auto \/ (id \notin rows.pkg /\ id \in rows.on) THEN {"on"} ELSE {}])
  /\ UNCHANGED <<machine, owns, rows, tree, replay, windows, wish, seeded>>

\* seedBundledApps: at page load, for what the record does not name.
Todo(files) == Bundled \ files.given
Seed(id) ==
  /\ Free("seed") /\ owns /\ Counted /\ id \in Todo(rows)
  /\ Begin("seed", [step |-> "rows", id |-> id, auto |-> FALSE, read |-> rows,
                    parts |-> {"given"} \cup IF id \in rows.pkg THEN {} ELSE {"pkg"}])
  /\ UNCHANGED <<machine, owns, rows, tree, replay, windows, wish, seeded>>

\* What a landing writes: the package, and each list as read with its line.
Landing(a) ==
  LET o == op[a]
      new == [InstallIn(o.read, o.id, o.auto) EXCEPT !.given = o.read.given \cup {o.id}] IN
  [part \in o.parts |-> IF part = "pkg" THEN {o.id} ELSE new[part]]

Landed(files, a) ==
  LET w == Landing(a) IN [part \in Parts |-> IF part \notin DOMAIN w THEN files[part]
                                             ELSE Land(files, part, w[part])[part]]

\* Other apps' lines that an edit puts back to what it read.
Lost(o, parts, files) ==
  {id \in Ids \ {o.id} : \E part \in parts \ {"pkg"} : id \in Differ(o.read, files, part)}

\* landInApps: the rows if this tab owns them ...
LandRows(a) ==
  /\ op[a].step = "rows" /\ After(a, "live")
  /\ rows' = IF owns THEN Landed(rows, a) ELSE rows
  /\ Cross(IF owns /\ machine # "whole" THEN Lost(op[a], op[a].parts, rows) ELSE {})
  /\ UNCHANGED <<machine, owns, tree, replay, windows, wish, seeded, changes>>

AskedFor(a) == IF a = "tool" THEN InstallIn(wish, op[a].id, op[a].auto)
               ELSE IF op[a].id \in seeded THEN wish ELSE [wish EXCEPT !.pkg = @ \cup {op[a].id}]

\* A landing some of whose lines are not among these files'.
Missed(a, parts, files) ==
  \E part \in parts : (op[a].id \in Landing(a)[part]) # (op[a].id \in files[part])

\* A replay may still put what it has read over the lists that land, and what an
\* ephemeral machine has at a replay its mirror never has.
Coming(a) == IF machine = "replaying" THEN (op[a].parts \cap replay.left) \ {"pkg"} ELSE {}
Crossed(a) ==
  Lost(op[a], op[a].parts \ Coming(a), tree)
    \cup IF Missed(a, Coming(a), replay.rows) \/ (machine = "replaying" /\ ~owns) THEN {op[a].id} ELSE {}

\* ... then the machine, once it is up; one that is off takes it at its boot.
LandLive(a) ==
  /\ op[a].step = "live" /\ machine # "booting"
  /\ op' = [op EXCEPT ![a] = NoEdit]
  /\ tree' = IF AppsUp THEN Landed(tree, a) ELSE tree
  /\ wish' = IF owns \/ AppsUp
             THEN [AskedFor(a) EXCEPT !.given = IF a = "seed" THEN @ \cup {op[a].id} ELSE @] ELSE wish
  /\ seeded' = IF a = "seed" THEN seeded \cup {op[a].id} ELSE seeded
  /\ Cross(IF AppsUp THEN Crossed(a) ELSE {})
  /\ UNCHANGED <<machine, owns, rows, replay, windows, changes>>

\* A power-off, flushed first: over what has landed in the rows alone.  An
\* ephemeral machine leaves nothing.
AppsOff ==
  /\ AppsUp /\ machine' = "off" /\ tree' = NoFiles
  /\ rows' = IF machine = "whole" /\ owns THEN tree ELSE rows
  /\ wish' = IF owns THEN wish ELSE rows
  /\ replay' = [replay EXCEPT !.left = {}]
  /\ Cross({op[a].id : a \in {b \in {"tool", "seed"} : machine = "whole" /\ owns /\ op[b].step = "live"
                                                      /\ Missed(b, op[b].parts, tree)}})
  /\ UNCHANGED <<owns, op, windows, seeded, changes>>

\* setEnabled and remove with the machine off: the owner's, in the mirror.
MirrorEdit(id, verb) ==
  /\ Free("page") /\ machine = "off" /\ owns /\ id \in rows.pkg /\ Counted
  /\ Begin("page", [step |-> verb, id |-> id, read |-> rows])
  /\ windows' = IF verb = "remove" THEN windows \ {id} ELSE windows
  /\ UNCHANGED <<machine, owns, rows, tree, replay, wish, seeded>>

StoreList(verb) ==
  /\ op["page"].step = verb
  /\ LET o == op["page"] IN
     /\ rows' = [rows EXCEPT !.on = IF verb = "enable" THEN o.read.on \cup {o.id} ELSE o.read.on \ {o.id}]
     /\ wish' = IF verb = "remove" THEN wish ELSE SetEnabled(wish, o.id, verb = "enable")
     /\ Cross((IF AppsUp THEN {o.id} ELSE {}) \cup IF machine = "whole" THEN {} ELSE Lost(o, {"on"}, rows))
  /\ IF verb = "remove" THEN After("page", "delete") ELSE op' = [op EXCEPT !["page"] = NoEdit]
  /\ UNCHANGED <<machine, owns, tree, replay, windows, seeded, changes>>

Delete ==
  /\ op["page"].step = "delete"
  /\ rows' = [rows EXCEPT !.pkg = @ \ {op["page"].id}]
  /\ wish' = RemoveFrom(wish, op["page"].id)
  /\ Cross(IF AppsUp THEN {op["page"].id} ELSE {})
  /\ op' = [op EXCEPT !["page"] = NoEdit]
  /\ UNCHANGED <<machine, owns, tree, replay, windows, seeded, changes>>

\* openFromMirror, by the person or at page load for what the list names.
OpenWeb(id) ==
  /\ id \in rows.pkg /\ id \notin windows /\ Counted /\ windows' = windows \cup {id}
  /\ Cross(IF id \notin Counts.pkg \/ (~Free("page") /\ id = op["page"].id) THEN {id} ELSE {})
  /\ UNCHANGED <<machine, owns, rows, tree, replay, op, wish, seeded>>

CloseWeb(id) ==
  /\ id \in windows /\ windows' = windows \ {id}
  /\ UNCHANGED <<machine, owns, rows, tree, replay, op, wish, seeded, crossing, changes>>

AppsNext ==
  \/ BootApps \/ ReplayBegins \/ Snapshot \/ AppsOff
  \/ \E part \in Parts : Replay(part)
  \/ \E id \in Ids :
       \/ \E verb \in {"install", "remove", "enable", "disable"} : GuestCli(verb, id) \/ ConsoleCli(verb, id)
       \/ \E auto \in BOOLEAN : InstallWebApp(id, auto)
       \/ \E verb \in {"remove", "enable", "disable"} : MirrorEdit(id, verb)
       \/ Seed(id) \/ OpenWeb(id) \/ CloseWeb(id)
  \/ \E a \in {"tool", "seed"} : LandRows(a) \/ LandLive(a)
  \/ \E verb \in {"remove", "enable", "disable"} : StoreList(verb)
  \/ Delete

AppsSpec == AppsInit /\ [][AppsNext]_appsVars

----------------------------------------------------------------------------
\* In the copy that counts, an app nobody has in hand is what the person last
\* asked for: removed it stays removed, seeded or not, enabled it starts; and no
\* removed app has a window.  That is so whatever else goes on, unless an edit
\* crossed another write: two edits of one app at once; lists read before another
\* line was written, and put back; a reading of a mirror the machine is ahead
\* of; an edit on the console during the replay; a power-off, or a boot, in
\* the middle of an edit.
AsAsked ==
  /\ machine \in {"off", "whole"} =>
       \A id \in Ids \ (crossing \cup InHand) :
         /\ id \in Counts.pkg <=> id \in wish.pkg
         /\ id \in Counts.on <=> id \in wish.on
  /\ owns => windows \subseteq wish.pkg \cup crossing \cup InHand
=============================================================================
