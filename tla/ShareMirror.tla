----------------------------- MODULE ShareMirror -----------------------------
(***************************************************************************)
(* /data and its mirror.  A page's machine keeps /data in RAM (tree); the  *)
(* IndexedDB rows all pages of the origin share (mirror) outlive it.  A    *)
(* boot replays the rows into the tree, a snapshot round stores what moved *)
(* in the tree, page writers put a file in both, and pages tell each other *)
(* of the shared tier.  The pages here run one and the same machine: one   *)
(* of them owns its private rows, the others are ephemeral.                *)
(*                                                                         *)
(* A file is a version number, a fingerprint is whether the name was       *)
(* written since it was last listed (clean).  Two things are left out, the *)
(* exec bits and the limits of one file; IndexedDB itself does not fail.   *)
(***************************************************************************)
EXTENDS Integers, Sequences, SequencesExt, FiniteSets

CONSTANTS
  Pages,             \* documents of the origin
  Private, Shared,   \* names of the two tiers (bare, and under share/local/)
  PageNames,         \* names the page's own writers use
  WriterPages,       \* bound: pages whose own writers are at work
  MaxVersion,        \* bound: contents ever written
  MaxDelete,         \* bound: files the guests delete
  MaxBoot, MaxOff, MaxDeath, \* bounds: boots, power-offs, and deaths of pages, in all
  MaxPause,          \* bound: rounds that find the tree over its quota
  MaxRace            \* bound: rounds of the shared tier that begin while another is going on

ASSUME ShareMirrorAssumption ==
  /\ Private \cap Shared = {} /\ "" \notin Private \cup Shared /\ IsFiniteSet(Shared)
  /\ PageNames \subseteq Private \cup Shared
  /\ {MaxVersion, MaxDelete, MaxBoot, MaxOff, MaxDeath, MaxPause, MaxRace} \subseteq Nat

VARIABLES
  vm,          \* the machine is "off", or "ready"
  claim,       \* identityClaim: "unasked", "owner", "other"
  tree,        \* /data of each machine, 0 = no such file
  clean,       \* fingerprints: names whose stat the last round knows
  whole,       \* the replay of this boot has landed
  replay,      \* the restore under way: its rows, and the names still to put
  round,       \* the snapshot round under way
  flush,       \* a power-off waits for the mirror
  writer,      \* the page's own write under way
  inbox,       \* announcements not heard yet
  applying,    \* announced files read from their rows, not put yet
  mirror,      \* the rows
  spent,       \* history: versions, deletions, boots ... so far
  still,       \* history: names not written since the power-off was pressed
  meant,       \* history: private names removed on purpose since last written
  cut          \* history: pages whose last replay a power-off overtook

pageVars == <<vm, claim, tree, clean, whole, replay, round, flush, writer, inbox, applying>>
history == <<spent, still, meant, cut>>
vars == <<pageVars, mirror, history>>

Names    == Private \cup Shared
Versions == 1 .. MaxVersion
Empty    == [n \in Names |-> 0]
Held(files) == {n \in Names : files[n] # 0}
NoReplay == [on |-> FALSE, rows |-> Empty, left |-> {}]
NoRound  == [step |-> "idle", final |-> FALSE, listing |-> {}, dirty |-> {}, moved |-> {},
             read |-> {}, remove |-> {}, changed |-> Empty]
NoWriter == [plan |-> <<>>, name |-> "", version |-> 0]
Now(p, step) == round[p].step = step
Restoring(p) == replay[p].on
Next1(p, what) == writer[p].plan # <<>> /\ Head(writer[p].plan) = what
New          == spent.version + 1
Spend(what)  == spent' = [spent EXCEPT ![what] = @ + 1]

Init ==
  /\ vm = [p \in Pages |-> "off"] /\ claim = [p \in Pages |-> "unasked"]
  /\ tree = [p \in Pages |-> Empty] /\ clean = [p \in Pages |-> {}]
  /\ whole = [p \in Pages |-> FALSE] /\ replay = [p \in Pages |-> NoReplay]
  /\ round = [p \in Pages |-> NoRound] /\ flush = [p \in Pages |-> FALSE]
  /\ writer = [p \in Pages |-> NoWriter]
  /\ inbox = [p \in Pages |-> <<>>] /\ applying = [p \in Pages |-> <<>>]
  /\ mirror = Empty
  /\ spent = [version |-> 0, deleted |-> 0, boot |-> 0, off |-> 0, death |-> 0, pause |-> 0,
             race |-> 0]
  /\ still = [p \in Pages |-> {}] /\ meant = {} /\ cut = {}

----------------------------------------------------------------------------
(* What a write does to the books of its page.                             *)

\* A file of p's tree is v from here on; the stat moves with it.
SetTree(p, n, v) ==
  /\ tree' = [tree EXCEPT ![p][n] = v]
  /\ clean' = [clean EXCEPT ![p] = @ \ {n}]
  /\ round' = [round EXCEPT ![p].moved = @ \cup {n}]
  /\ still' = [still EXCEPT ![p] = @ \ {n}]
KeepTree == UNCHANGED <<tree, clean, round, still>>
NotMeant(p, names) == meant' = IF claim[p] = "owner" THEN meant \ names ELSE meant

\* The claim on the machine's name, asked once per document and settled for
\* its life: the first page to ask holds it.
ClaimOf(p) ==
  IF claim[p] # "unasked" THEN claim[p]
  ELSE IF \E q \in Pages : claim[q] = "owner" THEN "other" ELSE "owner"
AskClaim(p) == claim' = [claim EXCEPT ![p] = ClaimOf(p)]

----------------------------------------------------------------------------
(* The machine: boot, replay, power-off, and the page's end.               *)

\* start() up to ready; the state listener begins the replay at once.  A
\* boot takes seconds: what an earlier one left of a replay or a row to write
\* has ended; a put that waits for the machine is still there.
PowerOn(p) ==
  /\ vm[p] = "off" /\ spent.boot < MaxBoot
  /\ ~Restoring(p) /\ writer[p].plan \in {<<>>, <<"live">>, <<"live", "tell">>}
  /\ Spend("boot")
  /\ vm' = [vm EXCEPT ![p] = "ready"]
  /\ AskClaim(p)
  /\ tree' = [tree EXCEPT ![p] = Empty]
  /\ replay' = [replay EXCEPT ![p] = [on |-> TRUE, rows |-> mirror, left |-> Held(mirror)]]
  /\ UNCHANGED <<clean, whole, round, flush, writer, inbox, applying, mirror, still, meant, cut>>

\* restore: one file.  On a machine that has gone off meanwhile it is refused.
RestoreFile(p, n) ==
  /\ n \in replay[p].left
  /\ replay' = [replay EXCEPT ![p].left = @ \ {n}]
  /\ IF vm[p] = "ready" THEN SetTree(p, n, replay[p].rows[n]) /\ NotMeant(p, {n})
                        ELSE KeepTree /\ UNCHANGED meant
  /\ UNCHANGED <<vm, claim, whole, flush, writer, inbox, applying, mirror, spent, cut>>

\* The replay ends, whatever became of its files and of the machine.
RestoreEnd(p) ==
  /\ replay[p].on /\ replay[p].left = {}
  /\ replay' = [replay EXCEPT ![p] = NoReplay]
  /\ whole' = [whole EXCEPT ![p] = TRUE]
  /\ cut' = IF vm[p] = "ready" THEN cut \ {p} ELSE cut
  /\ UNCHANGED <<vm, claim, tree, clean, round, flush, writer, inbox, applying,
                 mirror, spent, still, meant>>

\* powerOff: the windows close, and flushMirror is asked for.
PressOff(p) ==
  /\ vm[p] = "ready" /\ ~flush[p] /\ spent.off < MaxOff
  /\ Spend("off")
  /\ flush' = [flush EXCEPT ![p] = TRUE]
  /\ still' = [still EXCEPT ![p] = Names]
  /\ UNCHANGED <<vm, claim, tree, clean, whole, replay, round, writer, inbox, applying,
                 mirror, meant, cut>>

\* Mutant: the round in progress is taken for the one asked for.
FlushedByAnyRound(p) == flush[p] /\ Now(p, "idle")

\* flushMirror has resolved: the round it ran has ended, or it ran none.
Flushed(p) ==
  /\ flush[p]
  /\ \/ Now(p, "flushed") \/ Now(p, "paused")
     \/ Now(p, "idle") /\ Restoring(p)

\* Mutant: the state listener leaves whole as it was.
DestroyStillWhole(p) ==
  /\ Flushed(p)
  /\ vm' = [vm EXCEPT ![p] = "off"]
  /\ tree' = [tree EXCEPT ![p] = Empty]
  /\ flush' = [flush EXCEPT ![p] = FALSE]
  /\ round' = [round EXCEPT ![p] = NoRound]
  /\ cut' = IF Restoring(p) THEN cut \cup {p} ELSE cut
  /\ UNCHANGED <<claim, clean, whole, replay, writer, inbox, applying, mirror, spent, still, meant>>

\* destroy: the RAM is gone; the listeners hear "off".
Destroy(p) ==
  /\ Flushed(p)
  /\ vm' = [vm EXCEPT ![p] = "off"]
  /\ tree' = [tree EXCEPT ![p] = Empty]
  /\ whole' = [whole EXCEPT ![p] = FALSE]
  /\ flush' = [flush EXCEPT ![p] = FALSE]
  /\ round' = [round EXCEPT ![p] = NoRound]
  /\ cut' = IF Restoring(p) THEN cut \cup {p} ELSE cut
  /\ UNCHANGED <<claim, clean, replay, writer, inbox, applying, mirror, spent, still, meant>>

\* The document is closed or reloaded at any moment; what was under way is
\* gone with it, and the browser drops its lock.
Die(p) ==
  /\ spent.death < MaxDeath /\ (vm[p] = "ready" \/ claim[p] # "unasked")
  /\ Spend("death")
  /\ vm' = [vm EXCEPT ![p] = "off"] /\ claim' = [claim EXCEPT ![p] = "unasked"]
  /\ tree' = [tree EXCEPT ![p] = Empty] /\ clean' = [clean EXCEPT ![p] = {}]
  /\ whole' = [whole EXCEPT ![p] = FALSE] /\ replay' = [replay EXCEPT ![p] = NoReplay]
  /\ round' = [round EXCEPT ![p] = NoRound] /\ flush' = [flush EXCEPT ![p] = FALSE]
  /\ writer' = [writer EXCEPT ![p] = NoWriter]
  /\ inbox' = [inbox EXCEPT ![p] = <<>>] /\ applying' = [applying EXCEPT ![p] = <<>>]
  /\ cut' = cut \ {p}
  /\ UNCHANGED <<mirror, still, meant>>

----------------------------------------------------------------------------
(* The guest.  It leaves a file alone while the page is putting it there.  *)

MayTouch(p, n) == vm[p] = "ready" /\ writer[p].name # n

GuestWrite(p, n) ==
  /\ MayTouch(p, n) /\ spent.version < MaxVersion
  /\ Spend("version")
  /\ SetTree(p, n, New)
  /\ NotMeant(p, {n})
  /\ UNCHANGED <<vm, claim, whole, replay, flush, writer, inbox, applying, mirror, cut>>

GuestDelete(p, n) ==
  /\ MayTouch(p, n) /\ tree[p][n] # 0 /\ spent.deleted < MaxDelete
  /\ Spend("deleted")
  /\ SetTree(p, n, 0)
  /\ meant' = IF claim[p] = "owner" /\ n \in Private THEN meant \cup {n} ELSE meant
  /\ UNCHANGED <<vm, claim, whole, replay, flush, writer, inbox, applying, mirror, cut>>

----------------------------------------------------------------------------
(* A snapshot round: list, name the rows, read, commit, announce.          *)

\* The listing: the private tier only for the owner.
Listed(p) == Held(tree[p]) \cap (Shared \cup IF ClaimOf(p) = "owner" THEN Private ELSE {})

\* storedNames, without the private rows unless they are this page's.
RowsSeen(p) == Held(mirror) \cap (Shared \cup IF claim[p] = "owner" THEN Private ELSE {})

\* Mutant: a replay under way is no reason to wait.
MayRoundMidReplay(p) == Now(p, "idle") /\ vm[p] = "ready"

\* May a round begin: none under way, no replay, the machine up.
MayRound(p) == Now(p, "idle") /\ ~Restoring(p) /\ vm[p] = "ready"

\* Another round of the shared tier, or what it announced, is under way.
Racing == Shared # {} /\ \E q \in Pages : ~Now(q, "idle") \/ inbox[q] # <<>> \/ applying[q] # <<>>

\* The tick, the doorbell, a hidden tab; or, final, the one a power-off runs.
SnapList(p) ==
  /\ MayRound(p)
  /\ IF Racing THEN spent.race < MaxRace /\ Spend("race") ELSE UNCHANGED spent
  /\ AskClaim(p)
  /\ \E final \in {FALSE, flush[p]} :
       round' = [round EXCEPT ![p] =
         [NoRound EXCEPT !.step = "names", !.listing = Listed(p),
                         !.dirty = Listed(p) \ clean[p], !.final = final]]
  /\ UNCHANGED <<vm, tree, clean, whole, replay, flush, writer, inbox, applying, mirror, still, meant, cut>>

RoundOver(p, done) == [round EXCEPT ![p] =
  [NoRound EXCEPT !.step = IF round[p].final THEN done ELSE "idle", !.moved = round[p].moved]]

\* Over quota: the last good mirror is kept.
SnapPause(p) ==
  /\ Now(p, "names") /\ spent.pause < MaxPause
  /\ Spend("pause")
  /\ round' = RoundOver(p, "paused")
  /\ UNCHANGED <<vm, claim, tree, clean, whole, replay, flush, writer, inbox, applying, mirror,
                 still, meant, cut>>

\* diffSnapshot: what moved or has no row is read, a row whose file is not
\* in the listing goes.
SnapNames(p) ==
  /\ Now(p, "names")
  /\ round' = [round EXCEPT ![p].step = "read",
                 ![p].read = round[p].dirty \cup (round[p].listing \ RowsSeen(p)),
                 ![p].remove = RowsSeen(p) \ round[p].listing]
  /\ UNCHANGED <<vm, claim, tree, clean, whole, replay, flush, writer, inbox, applying, mirror, history>>

\* Mutant: the bytes another page announced are stored and announced again.
SettledNever(p, n) == FALSE

\* A shared file whose row holds the very bytes read.
Settled(p, n) == n \in Shared /\ mirror[n] = tree[p][n]

\* One file is read.  Gone or unreadable, it is left for the next round.
SnapRead(p, n) ==
  /\ Now(p, "read") /\ n \in round[p].read
  /\ round' = [round EXCEPT
       ![p].read = @ \ {n},
       ![p].listing = IF tree[p][n] = 0 THEN @ \ {n} ELSE @,
       ![p].changed[n] = IF Settled(p, n) THEN 0 ELSE tree[p][n]]
  /\ UNCHANGED <<vm, claim, tree, clean, whole, replay, flush, writer, inbox, applying, mirror, history>>

\* putMany: one transaction.
SnapCommit(p) ==
  /\ Now(p, "read") /\ round[p].read = {}
  /\ mirror' = [n \in Names |-> IF round[p].changed[n] # 0 THEN round[p].changed[n]
                                ELSE IF n \in round[p].remove THEN 0 ELSE mirror[n]]
  /\ round' = [round EXCEPT ![p].step = "tell"]
  /\ UNCHANGED <<vm, claim, tree, clean, whole, replay, flush, writer, inbox, applying, history>>

\* announce: to every other page; each name is a message of its own here.
News(names, gone) == SetToSeq({[name |-> n, gone |-> gone] : n \in names \cap Shared})
Tell(p, news) ==
  inbox' = [q \in Pages |-> IF q = p THEN inbox[q] ELSE inbox[q] \o news]

\* The round's fingerprints are the page's, and the others hear of the
\* shared tier.
SnapTell(p) ==
  /\ Now(p, "tell")
  /\ clean' = [clean EXCEPT ![p] = round[p].listing \ round[p].moved]
  /\ Tell(p, News(Held(round[p].changed), FALSE) \o News(round[p].remove, TRUE))
  /\ round' = RoundOver(p, "flushed")
  /\ UNCHANGED <<vm, claim, tree, whole, replay, flush, writer, applying, mirror, history>>

----------------------------------------------------------------------------
(* Hearing of another page's change.                                       *)

\* applyRemote, a removed name; nothing on a machine that is not up.
HearRemoved(p) ==
  /\ inbox[p] # <<>> /\ Head(inbox[p]).gone
  /\ inbox' = [inbox EXCEPT ![p] = Tail(@)]
  /\ IF vm[p] = "ready" THEN SetTree(p, Head(inbox[p]).name, 0) ELSE KeepTree
  /\ UNCHANGED <<vm, claim, whole, replay, flush, writer, applying, mirror, spent, meant, cut>>

\* A changed one: its row is read now, and the file put later.
HearChanged(p) ==
  /\ inbox[p] # <<>> /\ ~Head(inbox[p]).gone
  /\ inbox' = [inbox EXCEPT ![p] = Tail(@)]
  /\ LET n == Head(inbox[p]).name IN
     applying' = IF vm[p] = "ready" /\ mirror[n] # 0
                 THEN [applying EXCEPT ![p] = Append(@, [name |-> n, version |-> mirror[n]])]
                 ELSE applying
  /\ UNCHANGED <<vm, claim, tree, clean, whole, replay, round, flush, writer, mirror, history>>

\* The put.  On a machine gone off meanwhile it is refused.
Apply(p) ==
  /\ applying[p] # <<>>
  /\ applying' = [applying EXCEPT ![p] = Tail(@)]
  /\ LET a == Head(applying[p]) IN
     IF vm[p] = "ready" THEN SetTree(p, a.name, a.version) ELSE KeepTree
  /\ UNCHANGED <<vm, claim, whole, replay, flush, writer, inbox, mirror, spent, meant, cut>>

----------------------------------------------------------------------------
(* The page's own writers: a row, the live file, a word to the others, in  *)
(* each writer's order.                                                    *)

\* landInApps: the owner's rows first, then the live tree if it is up.
LandPlan(p) == IF ClaimOf(p) = "owner" THEN <<"row", "live">> ELSE <<"live">>
\* sendFiles and the camera: the live file first, then the owner's row.
DropPlan(p) == IF ClaimOf(p) = "owner" THEN <<"live", "row">> ELSE <<"live">>
\* shareLocalFile.
SharePlan(p) == <<"row", "live", "tell">>

Begin(p, n, plan) ==
  /\ p \in WriterPages /\ writer[p] = NoWriter /\ n \in PageNames /\ spent.version < MaxVersion
  /\ Spend("version") /\ AskClaim(p)
  /\ writer' = [writer EXCEPT ![p] = [plan |-> plan, name |-> n, version |-> New]]
  /\ UNCHANGED <<vm, tree, clean, whole, replay, round, flush, inbox, applying, mirror, still, meant, cut>>

\* A drop into a tree that is still being replayed would race the replay of an
\* older row for both copies; here it comes after.
BeginLand(p, n)  == n \in Private /\ Begin(p, n, LandPlan(p))
BeginDrop(p, n)  == n \in Private /\ vm[p] = "ready" /\ ~Restoring(p) /\ Begin(p, n, DropPlan(p))
BeginShare(p, n) == n \in Shared /\ Begin(p, n, SharePlan(p))

\* The step of p's writer that comes next is done; a plan with none left ends.
Done(p) == writer' = [writer EXCEPT ![p] =
  IF Len(writer[p].plan) = 1 THEN NoWriter ELSE [writer[p] EXCEPT !.plan = Tail(@)]]
WriteRow(p) ==
  /\ Next1(p, "row") /\ Done(p)
  /\ mirror' = [mirror EXCEPT ![writer[p].name] = writer[p].version]
  /\ round' = [round EXCEPT ![p].moved = @ \cup {writer[p].name}]
  /\ NotMeant(p, {writer[p].name})
  /\ still' = [still EXCEPT ![p] = @ \ {writer[p].name}]
  /\ UNCHANGED <<vm, claim, tree, clean, whole, replay, flush, inbox, applying, spent, cut>>

\* putFile.  Refused on a machine that is off: a drop ends there, the others
\* have their row and go on.
WriteLive(p) ==
  /\ Next1(p, "live")
  /\ IF vm[p] = "ready"
     THEN Done(p) /\ SetTree(p, writer[p].name, writer[p].version) /\ NotMeant(p, {writer[p].name})
     ELSE /\ IF "row" \in Range(writer[p].plan) THEN writer' = [writer EXCEPT ![p] = NoWriter]
                                                ELSE Done(p)
          /\ KeepTree /\ UNCHANGED meant
  /\ UNCHANGED <<vm, claim, whole, replay, flush, inbox, applying, mirror, spent, cut>>

WriteTell(p) ==
  /\ Next1(p, "tell") /\ Done(p)
  /\ Tell(p, News({writer[p].name}, FALSE))
  /\ UNCHANGED <<vm, claim, tree, clean, whole, replay, round, flush, applying, mirror, history>>

\* The Apps page uninstalls on a machine that is off: the owner's rows go.
RemoveRow(p, n) ==
  /\ vm[p] = "off" /\ n \in PageNames \cap Private /\ mirror[n] # 0 /\ ~Restoring(p)
  /\ ClaimOf(p) = "owner" /\ AskClaim(p) /\ writer[p] = NoWriter
  /\ spent.deleted < MaxDelete /\ Spend("deleted")
  /\ mirror' = [mirror EXCEPT ![n] = 0]
  /\ meant' = meant \cup {n}
  /\ UNCHANGED <<vm, tree, clean, whole, replay, round, flush, writer, inbox, applying, still, cut>>

----------------------------------------------------------------------------
Step(p) ==
  \/ PowerOn(p) \/ RestoreEnd(p) \/ PressOff(p) \/ Destroy(p) \/ Die(p)
  \/ SnapList(p) \/ SnapPause(p) \/ SnapNames(p) \/ SnapCommit(p) \/ SnapTell(p)
  \/ HearRemoved(p) \/ HearChanged(p) \/ Apply(p)
  \/ WriteRow(p) \/ WriteLive(p) \/ WriteTell(p)
  \/ \E n \in Names :
       \/ RestoreFile(p, n) \/ GuestWrite(p, n) \/ GuestDelete(p, n) \/ SnapRead(p, n)
       \/ BeginLand(p, n) \/ BeginDrop(p, n) \/ BeginShare(p, n) \/ RemoveRow(p, n)

Next == \E p \in Pages : Step(p)

\* The page's own timers, promises and messages go on, and a timer that fires
\* every 15 s meets a quiet moment; guests, persons and deaths owe nothing.
Fairness == \A p \in Pages :
  /\ WF_vars(RestoreEnd(p)) /\ WF_vars(\E n \in Names : RestoreFile(p, n))
  /\ WF_vars(Destroy(p))
  /\ SF_vars(SnapList(p)) /\ WF_vars(SnapNames(p)) /\ WF_vars(\E n \in Names : SnapRead(p, n))
  /\ WF_vars(SnapCommit(p)) /\ WF_vars(SnapTell(p))
  /\ WF_vars(HearRemoved(p)) /\ WF_vars(HearChanged(p)) /\ WF_vars(Apply(p))
  /\ WF_vars(WriteRow(p)) /\ WF_vars(WriteLive(p)) /\ WF_vars(WriteTell(p))

Spec == Init /\ [][Next]_vars /\ Fairness

----------------------------------------------------------------------------
TypeOK ==
  /\ vm \in [Pages -> {"off", "ready"}]
  /\ claim \in [Pages -> {"unasked", "owner", "other"}]
  /\ tree \in [Pages -> [Names -> 0 .. MaxVersion]] /\ clean \in [Pages -> SUBSET Names]
  /\ mirror \in [Names -> 0 .. MaxVersion]
  /\ Cardinality({p \in Pages : claim[p] = "owner"}) <= 1

\* What is stored under a private name came from the owner's tree or page:
\* an ephemeral machine's files live and die with its tab.
RowsAreTheOwners == [][
  \A n \in Private : mirror'[n] \notin {0, mirror[n]} =>
    \E p \in Pages : claim[p] = "owner"
      /\ (round'[p].changed[n] = mirror'[n] \/ writer[p].version = mirror'[n])]_vars

\* A private row is lost only when the owner's guest or page removed the file,
\* or while a writer of the page is putting it there: no replay cut short, no
\* listing of an ephemeral page, no half-replayed tree takes one away.  And a
\* power-off loses nothing the guest had written when it was pressed: at
\* destroy the owner's rows are its private files, but for a round that gave
\* up over the quota and a file a page writer is at.
RowsKept ==
  /\ [][\A n \in Private : mirror[n] # 0 /\ mirror'[n] = 0 =>
           n \in meant' \/ \E p \in Pages : claim[p] = "owner"
                            /\ (n \in round[p].moved \/ writer[p].name = n)]_vars
  /\ [][\A p \in Pages : flush[p] /\ vm'[p] = "off" /\ claim'[p] = "owner" /\ ~Restoring(p) /\ ~Now(p, "paused") =>
           \A n \in still[p] \cap Private : writer[p].name = n \/ mirror[n] = tree[p][n]]_vars

\* whole: "False from the moment the machine goes down until the next restore
\* completes"; edits of the guest's /data wait for it.  One case breaks the
\* word: the replay a power-off overtook ends on a machine that is off and says
\* whole, and whole it stays until the replay of the next boot has landed.
WholeMeansReplayed ==
  \A p \in Pages : whole[p] => p \in cut \/ (vm[p] = "ready" /\ ~Restoring(p))

\* "The mirrors do converge": rounds, announcements and removals may race each
\* other, but once the races come to an end, as MaxRace has them do, so does
\* what the pages tell each other, and every machine that is up has the shared
\* files the rows say.
SharedConverges == <>[](
  \A p \in Pages, n \in Shared :
    /\ inbox[p] = <<>> /\ applying[p] = <<>>
    /\ vm[p] = "ready" => tree[p][n] = mirror[n])
=============================================================================
