-------------------------- MODULE ShareMirror_proofs --------------------------
(***************************************************************************)
(* The owner's rows are kept, for any number of pages, names, writes,       *)
(* boots, power-offs and deaths, in the middle of a replay or not; and      *)
(* what a person edits in a mounted folder is not written over, for any     *)
(* number of files and edits.                                               *)
(***************************************************************************)
EXTENDS HostMount, ShareMirror, FiniteSetTheorems, TLAPS

----------------------------------------------------------------------------
(* Types.                                                                  *)

Steps == {"idle", "names", "read", "tell", "flushed", "paused"}
Plans == {<<>>, <<"row", "live">>, <<"live">>, <<"live", "row">>, <<"row">>, <<"row", "live", "tell">>,
          <<"live", "tell">>, <<"tell">>}
Replays == [on : BOOLEAN, rows : [Names -> Nat], left : SUBSET Names]
Rounds == [step : Steps, final : BOOLEAN, listing : SUBSET Names, dirty : SUBSET Names, moved : SUBSET Names,
           read : SUBSET Names, remove : SUBSET Names, changed : [Names -> Nat]]
Writers == [plan : Plans, name : Names \cup {""}, version : Nat]
Messages == [name : Shared, gone : BOOLEAN]
Copies == [name : Shared, version : Nat]
Purse == [version : Nat, deleted : Nat, boot : Nat, off : Nat, death : Nat, pause : Nat, race : Nat]

Types ==
  /\ vm \in [Pages -> {"off", "ready"}] /\ claim \in [Pages -> {"unasked", "owner", "other"}]
  /\ tree \in [Pages -> [Names -> Nat]] /\ clean \in [Pages -> SUBSET Names]
  /\ whole \in [Pages -> BOOLEAN] /\ replay \in [Pages -> Replays] /\ round \in [Pages -> Rounds]
  /\ flush \in [Pages -> BOOLEAN] /\ writer \in [Pages -> Writers]
  /\ inbox \in [Pages -> Seq(Messages)] /\ applying \in [Pages -> Seq(Copies)]
  /\ mirror \in [Names -> Nat] /\ still \in [Pages -> SUBSET Names] /\ meant \in SUBSET Names
  /\ spent \in Purse /\ cut \in SUBSET Pages

----------------------------------------------------------------------------
(* What holds of a page.                                                   *)

\* A machine that is down has nothing, and one that is up, replayed, going down or
\* claimed says so everywhere.
Machine(p) ==
  /\ vm[p] = "off" => tree[p] = Empty /\ ~Now(p, "names") /\ ~Now(p, "read") /\ ~Now(p, "tell")
  /\ Restoring(p) => \A n \in replay[p].left : replay[p].rows[n] # 0
  /\ Restoring(p) => vm[p] = "ready" \/ p \in cut
  /\ ~Restoring(p) => replay[p].left = {}
  /\ flush[p] => vm[p] = "ready"
  /\ whole[p] => p \in cut \/ (vm[p] = "ready" /\ ~Restoring(p))
  /\ round[p].final \/ Now(p, "flushed") => flush[p]
  /\ vm[p] = "ready" => claim[p] # "unasked"

\* A page's plan is one for the tier of the name it writes; the version is a new one.
PlanTrue(p) ==
  /\ writer[p].plan # <<>> => writer[p].name \in Names /\ writer[p].version # 0
  /\ writer[p].name \in Private =>
       /\ writer[p].plan \in {<<>>, <<"row", "live">>, <<"live">>, <<"live", "row">>, <<"row">>}
       /\ claim[p] # "owner" => writer[p].plan \in {<<>>, <<"live">>}
       /\ writer[p].plan \in {<<"live", "row">>, <<"row">>} => ~Restoring(p)

\* A page that is not the owner has no private name in its round.
Apart(p) ==
  claim[p] # "owner" =>
    \A n \in Private : /\ n \notin round[p].listing /\ n \notin round[p].dirty /\ n \notin round[p].read
                       /\ n \notin round[p].remove /\ round[p].changed[n] = 0

\* A file the owner's machine lacks may: it was removed, or a writer is at it.
Excused(p, n) == n \in meant \/ writer[p].name = n
Same(p, n) == mirror[n] = tree[p][n] \/ writer[p].name = n

\* The owner's row of a private name, between rounds ...
RowTrue(p, n) ==
  /\ vm[p] = "ready" /\ mirror[n] # 0 /\ tree[p][n] = 0 => Excused(p, n) \/ (Restoring(p) /\ n \in replay[p].left)
  /\ vm[p] = "ready" /\ writer[p].plan = <<"row">> /\ writer[p].name = n => tree[p][n] = writer[p].version
  /\ n \in clean[p] /\ tree[p][n] # 0 => Same(p, n)
\* ... and at each step of one.
ListTrue(p, n) ==
  (Now(p, "names") \/ Now(p, "read")) /\ (n \notin round[p].moved \/ n \in clean[p]) =>
       (n \in round[p].listing <=> tree[p][n] # 0) /\ round[p].changed[n] \in {0, tree[p][n]}
NamesTrue(p, n) ==
  Now(p, "names") =>
    /\ n \notin round[p].listing /\ mirror[n] # 0 => Excused(p, n) \/ n \in round[p].moved
    /\ n \notin round[p].moved /\ n \in round[p].listing /\ n \notin round[p].dirty => n \in clean[p]
    /\ round[p].changed[n] = 0
ReadTrue(p, n) ==
  Now(p, "read") =>
    /\ n \in round[p].remove => Excused(p, n) \/ n \in round[p].moved
    /\ n \in round[p].listing => n \notin round[p].remove
    /\ round[p].changed[n] # 0 /\ tree[p][n] = 0 => Excused(p, n)
    /\ n \notin round[p].moved =>
         /\ n \in round[p].listing /\ n \notin round[p].read /\ round[p].changed[n] = 0 => Same(p, n)
         /\ n \notin round[p].listing /\ n \notin round[p].remove => mirror[n] = 0
TellTrue(p, n) ==
  /\ Now(p, "tell") /\ n \notin round[p].moved => Same(p, n)
  /\ Now(p, "flushed") /\ n \in still[p] => Same(p, n)
  /\ round[p].final /\ n \in still[p] => n \notin round[p].moved

Row(p, n) == RowTrue(p, n) /\ ListTrue(p, n) /\ NamesTrue(p, n) /\ ReadTrue(p, n) /\ TellTrue(p, n)

OneOwner == \A p, q \in Pages : claim[p] = "owner" /\ claim[q] = "owner" => p = q

MirrorInv ==
  /\ Types /\ OneOwner
  /\ \A p \in Pages : Machine(p) /\ PlanTrue(p) /\ Apart(p)
  /\ \A p \in Pages : claim[p] = "owner" => \A n \in Private : Row(p, n)

----------------------------------------------------------------------------
(* A step of one page.                                                     *)

\* Nothing of page q moves.
PageSame(q) ==
  /\ vm'[q] = vm[q] /\ claim'[q] = claim[q] /\ tree'[q] = tree[q] /\ clean'[q] = clean[q] /\ whole'[q] = whole[q]
  /\ replay'[q] = replay[q] /\ round'[q] = round[q] /\ flush'[q] = flush[q] /\ writer'[q] = writer[q]
  /\ still'[q] = still[q] /\ (q \in cut' <=> q \in cut)

\* Page p may have asked for its claim or ended, and a page that is not the owner
\* leaves the private rows and the history of them alone.
Claiming(p) == claim'[p] \in {claim[p], "unasked", ClaimOf(p)}
Harmless(p) == claim'[p] # "owner" => \A n \in Private : mirror'[n] = mirror[n] /\ (n \in meant' <=> n \in meant)
LocalStep(p) == (\A q \in Pages \ {p} : PageSame(q)) /\ Claiming(p) /\ Harmless(p)

LEMMA OtherPage ==
  ASSUME NEW q \in Pages, PageSame(q), Machine(q), PlanTrue(q), Apart(q)
  PROVE  Machine(q)' /\ PlanTrue(q)' /\ Apart(q)'
<1>1. Machine(q)'
  BY Zenon DEF PageSame, Machine, Now, Restoring
<1>2. PlanTrue(q)'
  BY Zenon DEF PageSame, PlanTrue, Restoring
<1>3. Apart(q)'
  BY Zenon DEF PageSame, Apart
<1> QED BY <1>1, <1>2, <1>3

LEMMA OtherRow ==
  ASSUME NEW q \in Pages, NEW n \in Private, PageSame(q), mirror'[n] = mirror[n], n \in meant' <=> n \in meant, Row(q, n)
  PROVE  Row(q, n)'
<1>0. (Excused(q, n)' <=> Excused(q, n)) /\ (Same(q, n)' <=> Same(q, n))
  BY Zenon DEF PageSame, Excused, Same
<1>1. RowTrue(q, n)'
  BY <1>0, Zenon DEF PageSame, Row, RowTrue, Restoring
<1>2. ListTrue(q, n)'
  BY Zenon DEF PageSame, Row, ListTrue, Now
<1>3. NamesTrue(q, n)'
  BY <1>0, Zenon DEF PageSame, Row, NamesTrue, Now
<1>4. ReadTrue(q, n)'
  BY <1>0, Zenon DEF PageSame, Row, ReadTrue, Now
<1>5. TellTrue(q, n)'
  BY <1>0, Zenon DEF PageSame, Row, TellTrue, Now
<1> QED BY <1>1, <1>2, <1>3, <1>4, <1>5, Zenon DEF Row

\* What a page's step has to show.
Stays(p) ==
  /\ Types' /\ LocalStep(p) /\ Machine(p)' /\ PlanTrue(p)' /\ Apart(p)'
  /\ claim'[p] = "owner" => \A n \in Private : Row(p, n)'

LEMMA Compose == ASSUME MirrorInv, NEW p \in Pages, Stays(p) PROVE MirrorInv'
<1>1. OneOwner'
  <2> SUFFICES ASSUME NEW q \in Pages, NEW r \in Pages, claim'[q] = "owner", claim'[r] = "owner" PROVE q = r
    BY DEF OneOwner
  <2>1. \A s \in Pages \ {p} : claim'[s] = claim[s]
    BY DEF Stays, LocalStep, PageSame
  <2>2. claim'[p] = "owner" => claim[p] = "owner" \/ \A s \in Pages : claim[s] # "owner"
    BY DEF Stays, LocalStep, Claiming, ClaimOf
  <2> QED BY <2>1, <2>2 DEF MirrorInv, OneOwner
<1>2. ASSUME NEW q \in Pages PROVE Machine(q)' /\ PlanTrue(q)' /\ Apart(q)'
  <2>1. CASE q = p
    BY <2>1 DEF Stays
  <2>2. CASE q # p
    BY <2>2, OtherPage DEF Stays, LocalStep, MirrorInv
  <2> QED BY <2>1, <2>2
<1>3. ASSUME NEW q \in Pages, claim'[q] = "owner", NEW n \in Private PROVE Row(q, n)'
  <2>1. CASE q = p
    BY <1>3, <2>1 DEF Stays
  <2>2. CASE q # p
    <3>1. PageSame(q) /\ claim'[q] = claim[q]
      BY <2>2 DEF Stays, LocalStep, PageSame
    <3>2. claim'[p] # "owner"
      BY <1>1, <1>3, <2>2 DEF OneOwner
    <3>3. Row(q, n) /\ mirror'[n] = mirror[n] /\ (n \in meant' <=> n \in meant)
      BY <1>3, <3>1, <3>2 DEF MirrorInv, Stays, LocalStep, Harmless
    <3> QED BY <3>1, <3>3, OtherRow
  <2> QED BY <2>1, <2>2
<1> QED BY <1>1, <1>2, <1>3 DEF MirrorInv, Stays
----------------------------------------------------------------------------
(* What the steps do to one row.                                           *)

\* A machine that is down.
LEMMA RowOff ==
  ASSUME NEW p \in Pages, NEW n \in Private, Types, Machine(p), vm[p] = "off"
  PROVE  Row(p, n)
<1>1. n \in Names /\ tree[p][n] = 0
  BY DEF Machine, Empty, Names
<1>2. ~flush[p] /\ ~round[p].final /\ ~Now(p, "flushed")
  BY DEF Machine
<1> QED BY <1>1, <1>2 DEF Machine, Row, RowTrue, ListTrue, NamesTrue, ReadTrue, TellTrue

\* ... after a step.
LEMMA RowOffNext ==
  ASSUME NEW p \in Pages, NEW n \in Private, Types', Machine(p)', vm'[p] = "off"
  PROVE  Row(p, n)'
<1>1. n \in Names /\ tree'[p][n] = 0
  BY DEF Machine, Empty, Names
<1>2. ~flush'[p] /\ ~round'[p].final /\ ~Now(p, "flushed")'
  BY DEF Machine
<1> QED BY <1>1, <1>2 DEF Machine, Row, RowTrue, ListTrue, NamesTrue, ReadTrue, TellTrue

\* The round of p, but for what it notes as moved.
RoundBut(p, moved) ==
  /\ round'[p].step = round[p].step /\ round'[p].final = round[p].final /\ round'[p].listing = round[p].listing
  /\ round'[p].dirty = round[p].dirty /\ round'[p].moved = moved /\ round'[p].read = round[p].read
  /\ round'[p].remove = round[p].remove /\ round'[p].changed = round[p].changed

\* The step has to do with other names.
Untouched(p, n) ==
  /\ vm'[p] = vm[p] /\ tree'[p][n] = tree[p][n] /\ (n \in clean'[p] <=> n \in clean[p]) /\ mirror'[n] = mirror[n]
  /\ replay'[p].on = replay[p].on /\ (n \in replay[p].left => n \in replay'[p].left)
  /\ round'[p].step = round[p].step /\ round'[p].final = round[p].final
  /\ (n \in round'[p].listing <=> n \in round[p].listing) /\ (n \in round'[p].dirty <=> n \in round[p].dirty)
  /\ (n \in round'[p].moved <=> n \in round[p].moved) /\ (n \in round'[p].read <=> n \in round[p].read)
  /\ (n \in round'[p].remove <=> n \in round[p].remove) /\ round'[p].changed[n] = round[p].changed[n]
  /\ (n \in still'[p] <=> n \in still[p]) /\ (n \in meant => n \in meant')
  /\ (writer[p].name = n => writer'[p].name = n)
  /\ (writer'[p].plan = <<"row">> /\ writer'[p].name = n => writer[p].plan = <<"row">> /\ writer'[p] = writer[p])

LEMMA RowUntouched ==
  ASSUME NEW p \in Pages, NEW n \in Private, Row(p, n), Untouched(p, n)
  PROVE  Row(p, n)'
<1>0. (Excused(p, n) => Excused(p, n)') /\ (Same(p, n) => Same(p, n)')
  BY Zenon DEF Untouched, Excused, Same
<1>1. RowTrue(p, n)'
  BY <1>0, Zenon DEF Untouched, Row, RowTrue, Restoring
<1>2. ListTrue(p, n)'
  BY Zenon DEF Untouched, Row, ListTrue, Now
<1>3. NamesTrue(p, n)'
  BY <1>0, Zenon DEF Untouched, Row, NamesTrue, Now
<1>4. ReadTrue(p, n)'
  BY <1>0, Zenon DEF Untouched, Row, ReadTrue, Now
<1>5. TellTrue(p, n)'
  BY <1>0, Zenon DEF Untouched, Row, TellTrue, Now
<1> QED BY <1>1, <1>2, <1>3, <1>4, <1>5, Zenon DEF Row

\* A file of the tree is v from here on, and a file that goes was meant to.
LEMMA RowSet ==
  ASSUME NEW p \in Pages, NEW n \in Private, NEW v \in Nat, Row(p, n),
         tree'[p][n] = v, n \notin clean'[p], n \in round'[p].moved, n \notin still'[p], mirror'[n] = mirror[n],
         RoundBut(p, round'[p].moved), v # 0 \/ n \in meant',
         writer'[p].plan = <<"row">> /\ writer'[p].name = n => v = writer'[p].version
  PROVE  Row(p, n)'
<1>1. RowTrue(p, n)'
  BY DEF RowTrue, Excused
<1>2. ListTrue(p, n)'
  BY DEF ListTrue
<1>3. NamesTrue(p, n)'
  BY DEF Row, NamesTrue, RoundBut, Now
<1>4. ReadTrue(p, n)'
  BY DEF Row, ReadTrue, RoundBut, Now, Excused
<1>5. TellTrue(p, n)'
  BY DEF TellTrue
<1> QED BY <1>1, <1>2, <1>3, <1>4, <1>5 DEF Row

LEMMA RoundMoved ==
  ASSUME round \in [Pages -> Rounds], NEW p \in Pages, NEW n \in Names,
         round' = [round EXCEPT ![p].moved = round[p].moved \cup {n}]
  PROVE  /\ round' \in [Pages -> Rounds] /\ \A q \in Pages \ {p} : round'[q] = round[q]
         /\ RoundBut(p, round[p].moved \cup {n})
<1> DEFINE r == [round[p] EXCEPT !.moved = round[p].moved \cup {n}]
<1>1. round[p] \in Rounds
  OBVIOUS
<1>2. r \in Rounds /\ r.moved = round[p].moved \cup {n} /\ r.step = round[p].step /\ r.final = round[p].final
      /\ r.listing = round[p].listing /\ r.dirty = round[p].dirty /\ r.read = round[p].read
      /\ r.remove = round[p].remove /\ r.changed = round[p].changed
  BY <1>1 DEF Rounds
<1>3. round' = [round EXCEPT ![p] = r]
  OBVIOUS
<1> HIDE DEF r
<1> QED BY <1>2, <1>3 DEF RoundBut

\* SetTree.
LEMMA TreeSet ==
  ASSUME Types, NEW p \in Pages, NEW n \in Names, NEW v \in Nat, SetTree(p, n, v)
  PROVE  /\ tree' \in [Pages -> [Names -> Nat]] /\ clean' \in [Pages -> SUBSET Names]
         /\ round' \in [Pages -> Rounds] /\ still' \in [Pages -> SUBSET Names]
         /\ \A q \in Pages \ {p} : tree'[q] = tree[q] /\ clean'[q] = clean[q] /\ round'[q] = round[q] /\ still'[q] = still[q]
         /\ \A m \in Names : tree'[p][m] = IF m = n THEN v ELSE tree[p][m]
         /\ clean'[p] = clean[p] \ {n} /\ still'[p] = still[p] \ {n} /\ RoundBut(p, round[p].moved \cup {n})
<1>1. tree' \in [Pages -> [Names -> Nat]] /\ (\A q \in Pages \ {p} : tree'[q] = tree[q])
      /\ \A m \in Names : tree'[p][m] = IF m = n THEN v ELSE tree[p][m]
  BY DEF Types, SetTree
<1>2. clean' \in [Pages -> SUBSET Names] /\ (\A q \in Pages \ {p} : clean'[q] = clean[q]) /\ clean'[p] = clean[p] \ {n}
  BY DEF Types, SetTree
<1>3. still' \in [Pages -> SUBSET Names] /\ (\A q \in Pages \ {p} : still'[q] = still[q]) /\ still'[p] = still[p] \ {n}
  BY DEF Types, SetTree
<1>4. round' \in [Pages -> Rounds] /\ (\A q \in Pages \ {p} : round'[q] = round[q]) /\ RoundBut(p, round[p].moved \cup {n})
  BY RoundMoved DEF Types, SetTree
<1> QED BY <1>1, <1>2, <1>3, <1>4

\* What a plan does next.
LEMMA PlanFacts ==
  ASSUME NEW plan \in Plans, plan # <<>>
  PROVE  /\ Head(plan) = "row" => \/ plan = <<"row">> /\ Len(plan) = 1
                                  \/ plan = <<"row", "live">> /\ Len(plan) = 2 /\ Tail(plan) = <<"live">>
                                  \/ plan = <<"row", "live", "tell">> /\ Len(plan) = 3 /\ Tail(plan) = <<"live", "tell">>
         /\ Head(plan) = "live" => \/ plan = <<"live">> /\ Len(plan) = 1
                                   \/ plan = <<"live", "row">> /\ Len(plan) = 2 /\ Tail(plan) = <<"row">> /\ "row" \in Range(plan)
                                   \/ plan = <<"live", "tell">> /\ Len(plan) = 2 /\ Tail(plan) = <<"tell">>
         /\ Head(plan) = "tell" => plan = <<"tell">> /\ Len(plan) = 1
<1>1. CASE plan = <<"row", "live">>
  BY <1>1
<1>2. CASE plan = <<"live">>
  BY <1>2
<1>3. CASE plan = <<"live", "row">>
  BY <1>3 DEF Range
<1>4. CASE plan = <<"row">>
  BY <1>4
<1>5. CASE plan = <<"row", "live", "tell">>
  BY <1>5
<1>6. CASE plan = <<"live", "tell">>
  BY <1>6
<1>7. CASE plan = <<"tell">>
  BY <1>7
<1> QED BY <1>1, <1>2, <1>3, <1>4, <1>5, <1>6, <1>7 DEF Plans
----------------------------------------------------------------------------
(* Steps that put a file in the tree of a machine that is up, or remove it. *)

\* The page's writer goes on with n, or not at all.
WriterGoesOn(p, n) ==
  \A m \in Private \ {n} :
    /\ writer[p].name = m => writer'[p].name = m
    /\ writer'[p].plan = <<"row">> /\ writer'[p].name = m => writer[p].plan = <<"row">> /\ writer'[p] = writer[p]

LEMMA TreeStep ==
  ASSUME MirrorInv, NEW p \in Pages, NEW n \in Names, NEW v \in Nat, vm[p] = "ready", SetTree(p, n, v),
         Types', UNCHANGED <<cut, vm, claim, whole, flush, mirror>>,
         \A q \in Pages \ {p} : replay'[q] = replay[q] /\ writer'[q] = writer[q],
         replay'[p].on = replay[p].on, replay'[p].rows = replay[p].rows,
         \A m \in Names : m \in replay'[p].left => m \in replay[p].left,
         \A m \in Names \ {n} : m \in replay[p].left => m \in replay'[p].left,
         PlanTrue(p)', WriterGoesOn(p, n),
         claim[p] # "owner" => \A m \in Private : m \in meant' <=> m \in meant,
         \A m \in Private \ {n} : m \in meant => m \in meant',
         claim[p] = "owner" /\ n \in Private =>
           /\ v # 0 \/ n \in meant'
           /\ writer'[p].plan = <<"row">> /\ writer'[p].name = n => v = writer'[p].version
  PROVE  MirrorInv'
<1>1. /\ \A q \in Pages \ {p} : tree'[q] = tree[q] /\ clean'[q] = clean[q] /\ round'[q] = round[q] /\ still'[q] = still[q]
      /\ \A m \in Names : tree'[p][m] = IF m = n THEN v ELSE tree[p][m]
      /\ clean'[p] = clean[p] \ {n} /\ still'[p] = still[p] \ {n} /\ RoundBut(p, round[p].moved \cup {n})
  BY TreeSet DEF MirrorInv
<1>2. LocalStep(p)
  BY <1>1 DEF LocalStep, PageSame, Claiming, Harmless
<1>3. Machine(p)'
  BY <1>1 DEF MirrorInv, Machine, RoundBut, Now, Restoring, Types, Replays
<1>4. Apart(p)'
  BY <1>1 DEF MirrorInv, Apart, RoundBut
<1>5. ASSUME claim'[p] = "owner", NEW m \in Private PROVE Row(p, m)'
  <2>1. Row(p, m) /\ claim[p] = "owner"
    BY <1>5 DEF MirrorInv
  <2>2. CASE m = n
    BY <1>1, <2>1, <2>2, RowSet DEF RoundBut
  <2>3. CASE m # n
    <3>1. tree'[p][m] = tree[p][m]
      BY <1>1, <2>3 DEF Names
    <3>2. (m \in clean'[p] <=> m \in clean[p]) /\ (m \in still'[p] <=> m \in still[p])
          /\ (m \in round'[p].moved <=> m \in round[p].moved)
      BY <1>1, <2>3 DEF RoundBut
    <3>3. Untouched(p, m)
      BY <1>1, <2>3, <3>1, <3>2 DEF Untouched, RoundBut, WriterGoesOn, Names
    <3> QED BY <2>1, <3>3, RowUntouched
  <2> QED BY <2>2, <2>3
<1> QED BY <1>2, <1>3, <1>4, <1>5, Compose DEF Stays

\* With the page's writer and replay left alone.
LEMMA PlanStays ==
  ASSUME NEW p \in Pages, PlanTrue(p), writer'[p] = writer[p], claim'[p] = claim[p], replay'[p].on = replay[p].on
  PROVE  PlanTrue(p)'
BY Zenon DEF PlanTrue, Restoring

LEMMA TreeTypes ==
  ASSUME Types, NEW p \in Pages, NEW n \in Names, NEW v \in Nat, SetTree(p, n, v),
         UNCHANGED <<cut, vm, claim, whole, flush, mirror>>, replay' \in [Pages -> Replays], writer' \in [Pages -> Writers],
         inbox' \in [Pages -> Seq(Messages)], applying' \in [Pages -> Seq(Copies)],
         meant' \in SUBSET Names, spent' \in Purse
  PROVE  Types'
<1>1. /\ tree' \in [Pages -> [Names -> Nat]] /\ clean' \in [Pages -> SUBSET Names]
      /\ round' \in [Pages -> Rounds] /\ still' \in [Pages -> SUBSET Names]
  BY TreeSet
<1>2. vm' = vm /\ claim' = claim /\ whole' = whole /\ cut' = cut /\ flush' = flush /\ mirror' = mirror
  OBVIOUS
<1> QED BY <1>1, <1>2, Zenon DEF Types

LEMMA Spending ==
  ASSUME spent \in Purse, NEW what \in {"version", "deleted", "boot", "off", "death", "pause", "race"}, Spend(what)
  PROVE  spent' \in Purse /\ New \in Nat /\ New # 0
<1>1. spent' \in Purse
  BY DEF Spend, Purse
<1>2. New \in Nat /\ New # 0
  BY DEF New, Purse
<1> QED BY <1>1, <1>2

LEMMA GuestWriteStep == ASSUME MirrorInv, NEW p \in Pages, NEW n \in Names, GuestWrite(p, n) PROVE MirrorInv'
<1>1. SetTree(p, n, New) /\ vm[p] = "ready" /\ writer[p].name # n
      /\ UNCHANGED <<cut, vm, claim, whole, replay, flush, writer, inbox, applying, mirror>>
  BY DEF GuestWrite, MayTouch
<1>2. spent' \in Purse /\ New \in Nat /\ New # 0
  BY Spending DEF GuestWrite, MirrorInv, Types
<1>3. meant' \in SUBSET Names /\ (\A m \in Names \ {n} : m \in meant' <=> m \in meant) /\ (claim[p] # "owner" => meant' = meant)
  BY DEF GuestWrite, NotMeant, MirrorInv, Types
<1>4. Types'
  BY <1>1, <1>2, <1>3, TreeTypes DEF MirrorInv, Types
<1>5. PlanTrue(p)'
  BY <1>1, PlanStays DEF MirrorInv
<1>6. WriterGoesOn(p, n)
  BY <1>1 DEF WriterGoesOn
<1> QED BY <1>1, <1>2, <1>3, <1>4, <1>5, <1>6, TreeStep DEF Names

LEMMA GuestDeleteStep == ASSUME MirrorInv, NEW p \in Pages, NEW n \in Names, GuestDelete(p, n) PROVE MirrorInv'
<1>1. SetTree(p, n, 0) /\ vm[p] = "ready" /\ writer[p].name # n
      /\ UNCHANGED <<cut, vm, claim, whole, replay, flush, writer, inbox, applying, mirror>>
  BY DEF GuestDelete, MayTouch
<1>2. spent' \in Purse
  BY Spending DEF GuestDelete, MirrorInv, Types
<1>3. meant' \in SUBSET Names /\ (\A m \in Names \ {n} : m \in meant' <=> m \in meant)
      /\ (claim[p] # "owner" => meant' = meant) /\ (claim[p] = "owner" /\ n \in Private => n \in meant')
  BY DEF GuestDelete, MirrorInv, Types
<1>4. Types'
  BY <1>1, <1>2, <1>3, TreeTypes DEF MirrorInv, Types
<1>5. PlanTrue(p)'
  BY <1>1, PlanStays DEF MirrorInv
<1>6. WriterGoesOn(p, n)
  BY <1>1 DEF WriterGoesOn
<1> QED BY <1>1, <1>3, <1>4, <1>5, <1>6, TreeStep DEF Names

LEMMA RestoreFilePut ==
  ASSUME MirrorInv, NEW p \in Pages, NEW n \in Names, RestoreFile(p, n), vm[p] = "ready"
  PROVE  MirrorInv'
<1>0. replay \in [Pages -> Replays] /\ replay[p] \in Replays /\ n \in replay[p].left
  BY DEF MirrorInv, Types, RestoreFile
<1> DEFINE v == replay[p].rows[n]
           r == [replay[p] EXCEPT !.left = replay[p].left \ {n}]
<1>1. v # 0 /\ Restoring(p)
  BY <1>0 DEF MirrorInv, Machine
<1>2. v \in Nat /\ r \in Replays /\ r.on = replay[p].on /\ r.rows = replay[p].rows /\ r.left = replay[p].left \ {n}
  BY <1>0 DEF Replays
<1>3. replay' = [replay EXCEPT ![p] = r]
  BY DEF RestoreFile
<1>4. SetTree(p, n, v) /\ NotMeant(p, {n}) /\ UNCHANGED <<cut, vm, claim, whole, flush, writer, inbox, applying, mirror, spent>>
  BY <1>1 DEF RestoreFile
<1> HIDE DEF v, r
<1>5. replay' \in [Pages -> Replays] /\ replay'[p] = r /\ \A q \in Pages \ {p} : replay'[q] = replay[q]
  BY <1>0, <1>2, <1>3
<1>6. meant' \in SUBSET Names /\ (\A m \in Names \ {n} : m \in meant' <=> m \in meant) /\ (claim[p] # "owner" => meant' = meant)
  BY <1>4 DEF NotMeant, MirrorInv, Types
<1>7. Types'
  BY <1>2, <1>4, <1>5, <1>6, TreeTypes DEF MirrorInv, Types
<1>8. PlanTrue(p)'
  BY <1>2, <1>4, <1>5, PlanStays DEF MirrorInv
<1>9. WriterGoesOn(p, n)
  BY <1>4 DEF WriterGoesOn
<1>10. claim[p] = "owner" /\ n \in Private => ~(writer[p].plan = <<"row">> /\ writer[p].name = n)
  BY <1>1 DEF MirrorInv, PlanTrue
<1> QED BY <1>1, <1>2, <1>4, <1>5, <1>6, <1>7, <1>8, <1>9, <1>10, TreeStep DEF Names

\* The machine has gone off meanwhile: the file is left out.
LEMMA RestoreFileRefused ==
  ASSUME MirrorInv, NEW p \in Pages, NEW n \in Names, RestoreFile(p, n), vm[p] # "ready"
  PROVE  MirrorInv'
<1>1. /\ clean' = clean /\ vm' = vm /\ tree' = tree /\ claim' = claim /\ round' = round /\ flush' = flush /\ inbox' = inbox
      /\ applying' = applying /\ still' = still /\ writer' = writer /\ mirror' = mirror /\ meant' = meant /\ spent' = spent
      /\ whole' = whole /\ cut' = cut
  BY DEF RestoreFile, KeepTree
<1>2. replay \in [Pages -> Replays] /\ replay[p] \in Replays /\ n \in replay[p].left /\ Machine(p) /\ vm[p] = "off"
  BY DEF MirrorInv, Types, RestoreFile
<1> DEFINE r == [replay[p] EXCEPT !.left = replay[p].left \ {n}]
<1>3. r \in Replays /\ r.on = replay[p].on /\ r.rows = replay[p].rows /\ r.left = replay[p].left \ {n}
  BY <1>2 DEF Replays
<1>4. replay' = [replay EXCEPT ![p] = r]
  BY DEF RestoreFile
<1> HIDE DEF r
<1>5. replay' \in [Pages -> Replays] /\ replay'[p] = r /\ \A q \in Pages \ {p} : replay'[q] = replay[q]
  BY <1>2, <1>3, <1>4
<1>6. Types'
  BY <1>1, <1>5, Zenon DEF MirrorInv, Types
<1>7. LocalStep(p)
  BY <1>1, <1>5 DEF LocalStep, PageSame, Claiming, Harmless
<1>8. Machine(p)'
  <2>1. /\ Restoring(p) /\ Restoring(p)'
        /\ \A m \in replay'[p].left : replay'[p].rows[m] # 0
    BY <1>2, <1>3, <1>5 DEF Restoring, Machine
  <2> QED BY <1>1, <1>2, <2>1, Zenon DEF Machine, Now
<1>9. Apart(p)'
  BY <1>1, Zenon DEF MirrorInv, Apart
<1>10. PlanTrue(p)'
  BY <1>1, <1>3, <1>5, PlanStays DEF MirrorInv
<1>11. \A m \in Private : Row(p, m)'
  BY <1>1, <1>2, <1>6, <1>8, RowOffNext
<1> QED BY <1>6, <1>7, <1>8, <1>9, <1>10, <1>11, Compose DEF Stays

LEMMA RestoreFileStep == ASSUME MirrorInv, NEW p \in Pages, NEW n \in Names, RestoreFile(p, n) PROVE MirrorInv'
BY RestoreFilePut, RestoreFileRefused

\* Only announcements move.
LEMMA WordStep ==
  ASSUME MirrorInv, NEW p \in Pages, inbox' \in [Pages -> Seq(Messages)], applying' \in [Pages -> Seq(Copies)],
         UNCHANGED <<vm, claim, tree, clean, whole, replay, round, flush, writer, mirror, history>>
  PROVE  MirrorInv'
<1>0. vm' = vm /\ claim' = claim /\ tree' = tree /\ clean' = clean /\ whole' = whole /\ cut' = cut /\ replay' = replay /\ round' = round
      /\ flush' = flush /\ writer' = writer /\ mirror' = mirror /\ spent' = spent /\ still' = still /\ meant' = meant
  BY DEF history
<1>1. Types'
  BY <1>0, Zenon DEF MirrorInv, Types
<1>2. \A q \in Pages : PageSame(q)
  BY <1>0, Zenon DEF PageSame
<1>3. LocalStep(p)
  BY <1>0, <1>2 DEF LocalStep, Claiming, Harmless
<1>4. Machine(p)' /\ PlanTrue(p)' /\ Apart(p)'
  BY <1>2, OtherPage DEF MirrorInv
<1>5. claim'[p] = "owner" => \A n \in Private : Row(p, n)'
  BY <1>0, <1>2, OtherRow DEF MirrorInv
<1> QED BY <1>1, <1>3, <1>4, <1>5, Compose DEF Stays

LEMMA HeardFacts ==
  ASSUME Types, NEW p \in Pages, inbox[p] # <<>>, inbox' = [inbox EXCEPT ![p] = Tail(inbox[p])]
  PROVE  inbox' \in [Pages -> Seq(Messages)] /\ Head(inbox[p]).name \in Shared
<1>1. inbox[p] \in Seq(Messages)
  BY DEF Types
<1>2. Head(inbox[p]) \in Messages /\ Tail(inbox[p]) \in Seq(Messages)
  BY <1>1
<1> QED BY <1>2 DEF Types, Messages

\* A shared file is put or removed, upon another page's word.
LEMMA SharedStep ==
  ASSUME MirrorInv, NEW p \in Pages, NEW n \in Shared, NEW v \in Nat, SetTree(p, n, v), vm[p] = "ready",
         inbox' \in [Pages -> Seq(Messages)], applying' \in [Pages -> Seq(Copies)],
         UNCHANGED <<cut, vm, claim, whole, replay, flush, writer, mirror, spent, meant>>
  PROVE  MirrorInv'
<1>1. n \in Names /\ n \notin Private
  BY ShareMirrorAssumption DEF ShareMirrorAssumption, Names
<1>2. Types'
  BY <1>1, TreeTypes DEF MirrorInv, Types
<1>3. PlanTrue(p)'
  BY PlanStays DEF MirrorInv
<1>4. WriterGoesOn(p, n)
  BY DEF WriterGoesOn
<1> QED BY <1>1, <1>2, <1>3, <1>4, TreeStep

LEMMA HearRemovedStep == ASSUME MirrorInv, NEW p \in Pages, HearRemoved(p) PROVE MirrorInv'
<1>1. inbox' \in [Pages -> Seq(Messages)] /\ Head(inbox[p]).name \in Shared
  BY HeardFacts DEF HearRemoved, MirrorInv
<1>2. applying' \in [Pages -> Seq(Copies)]
  BY DEF HearRemoved, MirrorInv, Types
<1>3. CASE vm[p] = "ready"
  BY <1>1, <1>2, <1>3, SharedStep DEF HearRemoved
<1>4. CASE vm[p] # "ready"
  BY <1>1, <1>2, <1>4, WordStep DEF HearRemoved, KeepTree, history
<1> QED BY <1>3, <1>4

LEMMA HearChangedStep == ASSUME MirrorInv, NEW p \in Pages, HearChanged(p) PROVE MirrorInv'
<1>1. inbox' \in [Pages -> Seq(Messages)] /\ Head(inbox[p]).name \in Shared
  BY HeardFacts DEF HearChanged, MirrorInv
<1>2. applying' \in [Pages -> Seq(Copies)]
  <2> DEFINE n == Head(inbox[p]).name
             c == [name |-> n, version |-> mirror[n]]
  <2>1. c \in Copies
    BY <1>1 DEF Copies, MirrorInv, Types, Names
  <2>2. applying \in [Pages -> Seq(Copies)] /\ applying[p] \in Seq(Copies)
    BY DEF MirrorInv, Types
  <2>3. applying' = applying \/ applying' = [applying EXCEPT ![p] = Append(applying[p], c)]
    BY DEF HearChanged
  <2> HIDE DEF c
  <2>4. Append(applying[p], c) \in Seq(Copies)
    BY <2>1, <2>2
  <2> QED BY <2>2, <2>3, <2>4
<1> QED BY <1>1, <1>2, WordStep DEF HearChanged

LEMMA ApplyStep == ASSUME MirrorInv, NEW p \in Pages, Apply(p) PROVE MirrorInv'
<1>1. applying[p] \in Seq(Copies) /\ applying[p] # <<>> /\ applying' = [applying EXCEPT ![p] = Tail(applying[p])]
  BY DEF Apply, MirrorInv, Types
<1>2. Head(applying[p]) \in Copies /\ Tail(applying[p]) \in Seq(Copies)
  BY <1>1
<1>3. applying' \in [Pages -> Seq(Copies)] /\ Head(applying[p]).name \in Shared /\ Head(applying[p]).version \in Nat
  BY <1>1, <1>2 DEF MirrorInv, Types, Copies
<1>4. inbox' \in [Pages -> Seq(Messages)]
  BY DEF Apply, MirrorInv, Types
<1>5. CASE vm[p] = "ready"
  BY <1>3, <1>4, <1>5, SharedStep DEF Apply
<1>6. CASE vm[p] # "ready"
  BY <1>3, <1>4, <1>6, WordStep DEF Apply, KeepTree, history
<1> QED BY <1>5, <1>6

----------------------------------------------------------------------------
(* The page's own writers.                                                 *)

\* What is announced is of the shared tier.
LEMMA NewsTyped == ASSUME NEW names, NEW gone \in BOOLEAN PROVE News(names, gone) \in Seq(Messages)
<1> DEFINE S == {[name |-> n, gone |-> gone] : n \in names \cap Shared}
<1>1. IsFiniteSet(Shared)
  BY ShareMirrorAssumption DEF ShareMirrorAssumption
<1>2. IsFiniteSet(names \cap Shared)
  BY <1>1, FS_Subset
<1>3. IsFiniteSet(S)
  <2> DEFINE f == [n \in names \cap Shared |-> [name |-> n, gone |-> gone]]
  <2>1. f \in Surjection(names \cap Shared, S)
    BY DEF Surjection
  <2> HIDE DEF f, S
  <2> QED BY <1>2, <2>1, FS_Surjection
<1>4. S \subseteq Messages
  BY DEF Messages
<1> HIDE DEF S
<1>5. Cardinality(S) \in Nat /\ \E f \in [1 .. Cardinality(S) -> S] : IsInjective(f)
  <2>1. Cardinality(S) \in Nat /\ ExistsBijection(1 .. Cardinality(S), S)
    BY <1>3, FS_CardinalityType
  <2>2. PICK f \in Bijection(1 .. Cardinality(S), S) : TRUE
    BY <2>1 DEF ExistsBijection
  <2>3. f \in [1 .. Cardinality(S) -> S] /\ IsInjective(f)
    BY <2>2 DEF Bijection, Injection
  <2> QED BY <2>1, <2>3
<1>6. SetToSeq(S) \in [1 .. Cardinality(S) -> S]
  BY <1>5 DEF SetToSeq
<1>7. SetToSeq(S) \in Seq(Messages)
  BY <1>4, <1>5, <1>6
<1> QED BY <1>7 DEF News, S

LEMMA TellTyped ==
  ASSUME Types, NEW p \in Pages, NEW news \in Seq(Messages), Tell(p, news)
  PROVE  inbox' \in [Pages -> Seq(Messages)]
<1>1. \A q \in Pages : inbox[q] \in Seq(Messages) /\ inbox[q] \o news \in Seq(Messages)
  BY DEF Types
<1> QED BY <1>1 DEF Tell

\* The writer does its next step.
LEMMA DoneTyped ==
  ASSUME Types, NEW p \in Pages, Done(p), writer[p].plan # <<>>
  PROVE  /\ writer' \in [Pages -> Writers] /\ \A q \in Pages \ {p} : writer'[q] = writer[q]
         /\ IF Len(writer[p].plan) = 1 THEN writer'[p] = NoWriter
            ELSE /\ writer'[p].plan = Tail(writer[p].plan) /\ writer'[p].name = writer[p].name
                 /\ writer'[p].version = writer[p].version
<1>1. writer[p] \in Writers /\ writer[p].plan \in Plans
  BY DEF Types, Writers
<1>2. NoWriter \in Writers
  BY DEF NoWriter, Writers, Plans
<1>3. CASE Len(writer[p].plan) = 1
  BY <1>2, <1>3 DEF Done, Types
<1>4. CASE Len(writer[p].plan) # 1
  <2> DEFINE w == [writer[p] EXCEPT !.plan = Tail(writer[p].plan)]
  <2>1. Head(writer[p].plan) \in {"row", "live", "tell"}
    BY <1>1 DEF Plans
  <2>2. Tail(writer[p].plan) \in Plans
    BY <1>1, <1>4, <2>1, PlanFacts DEF Plans
  <2>3. w \in Writers /\ w.plan = Tail(writer[p].plan) /\ w.name = writer[p].name /\ w.version = writer[p].version
    BY <1>1, <2>2 DEF Writers
  <2>4. writer' = [writer EXCEPT ![p] = w]
    BY <1>4 DEF Done
  <2> HIDE DEF w
  <2> QED BY <1>4, <2>3, <2>4 DEF Types
<1> QED BY <1>3, <1>4



\* No plan is one of a step, and the empty name is none.
LEMMA NoPlan == /\ NoWriter.plan = <<>> /\ NoWriter.name = "" /\ "" \notin Private /\ "" \notin Names
                /\ <<>> # <<"row">> /\ <<>> # <<"live", "row">>
<1>1. NoWriter.plan = <<>> /\ NoWriter.name = ""
  BY DEF NoWriter
<1>2. Len(<<>>) = 0 /\ Len(<<"row">>) = 1 /\ Len(<<"live", "row">>) = 2
  OBVIOUS
<1>3. <<>> # <<"row">> /\ <<>> # <<"live", "row">>
  BY <1>2
<1>4. "" \notin Private /\ "" \notin Names
  BY ShareMirrorAssumption DEF ShareMirrorAssumption, Names
<1> QED BY <1>1, <1>3, <1>4

\* The plan of a private name that has ended.
LEMMA NoPlanTrue == ASSUME NEW p \in Pages, writer'[p] = NoWriter PROVE PlanTrue(p)'
<1>1. writer'[p].plan = <<>> /\ writer'[p].name \notin Private
  BY NoPlan
<1> QED BY <1>1, Zenon DEF PlanTrue

LEMMA WriteTellStep == ASSUME MirrorInv, NEW p \in Pages, WriteTell(p) PROVE MirrorInv'
<1>1. writer[p] \in Writers /\ writer[p].plan = <<"tell">> /\ Len(writer[p].plan) = 1 /\ writer[p].plan # <<>>
  <2>1. writer[p] \in Writers /\ writer[p].plan \in Plans
    BY DEF MirrorInv, Types, Writers
  <2> QED BY <2>1, PlanFacts DEF WriteTell, Next1
<1>2. writer[p].name \notin Private
  BY <1>1 DEF MirrorInv, PlanTrue
<1>3. writer' \in [Pages -> Writers] /\ writer'[p] = NoWriter /\ \A q \in Pages \ {p} : writer'[q] = writer[q]
  BY <1>1, DoneTyped DEF WriteTell, MirrorInv
<1>4. inbox' \in [Pages -> Seq(Messages)]
  BY NewsTyped, TellTyped DEF WriteTell, MirrorInv
<1>5. Types'
  BY <1>3, <1>4 DEF WriteTell, MirrorInv, Types, history
<1>6. /\ vm' = vm /\ claim' = claim /\ tree' = tree /\ clean' = clean /\ whole' = whole /\ cut' = cut /\ replay' = replay /\ round' = round
      /\ flush' = flush /\ mirror' = mirror /\ spent' = spent /\ still' = still /\ meant' = meant
  BY DEF WriteTell, history
<1>7. LocalStep(p)
  BY <1>3, <1>6 DEF LocalStep, PageSame, Claiming, Harmless
<1>8. Machine(p)' /\ Apart(p)'
  BY <1>6, Zenon DEF MirrorInv, Machine, Apart, Now, Restoring
<1>9. PlanTrue(p)'
  BY <1>3, NoPlanTrue
<1>10. ASSUME claim'[p] = "owner", NEW n \in Private PROVE Row(p, n)'
  <2>0. writer[p].name # n /\ writer'[p].name # n
    BY <1>2, <1>3, NoPlan
  <2>1. Untouched(p, n)
    BY <1>6, <2>0 DEF Untouched
  <2> QED BY <1>6, <1>10, <2>1, RowUntouched DEF MirrorInv
<1> QED BY <1>5, <1>7, <1>8, <1>9, <1>10, Compose DEF Stays

LEMMA WriteLiveStep == ASSUME MirrorInv, NEW p \in Pages, WriteLive(p) PROVE MirrorInv'
<1> DEFINE n == writer[p].name
           v == writer[p].version
           plan == writer[p].plan
<1>1. writer[p] \in Writers /\ plan \in Plans /\ plan # <<>> /\ Head(plan) = "live"
  BY DEF WriteLive, Next1, MirrorInv, Types, Writers
<1>2. n \in Names /\ v \in Nat /\ v # 0
  BY <1>1 DEF MirrorInv, PlanTrue, Writers
<1>3. \/ plan = <<"live">> /\ Len(plan) = 1
      \/ plan = <<"live", "row">> /\ Len(plan) = 2 /\ Tail(plan) = <<"row">> /\ "row" \in Range(plan)
      \/ plan = <<"live", "tell">> /\ Len(plan) = 2 /\ Tail(plan) = <<"tell">>
  BY <1>1, PlanFacts
<1>4. UNCHANGED <<cut, vm, claim, whole, replay, flush, inbox, applying, mirror, spent>>
  BY DEF WriteLive
<1>5. writer' \in [Pages -> Writers] /\ (\A q \in Pages \ {p} : writer'[q] = writer[q])
      /\ \/ writer'[p] = NoWriter
         \/ writer'[p].name = n /\ writer'[p].version = v /\ plan = <<"live", "row">> /\ writer'[p].plan = <<"row">> /\ Done(p)
         \/ writer'[p].name = n /\ writer'[p].version = v /\ plan = <<"live", "tell">> /\ writer'[p].plan = <<"tell">> /\ Done(p)
  <2>1. CASE Done(p)
    BY <1>1, <1>3, <2>1, DoneTyped DEF MirrorInv
  <2>2. CASE writer' = [writer EXCEPT ![p] = NoWriter]
    BY <2>2 DEF MirrorInv, Types, NoWriter, Writers, Plans
  <2> QED BY <2>1, <2>2 DEF WriteLive
<1>6. PlanTrue(p)'
  <2>1. CASE writer'[p] = NoWriter
    BY <2>1, NoPlanTrue
  <2>2. CASE writer'[p].name = n /\ writer'[p].version = v /\ plan = <<"live", "row">> /\ writer'[p].plan = <<"row">>
    <3>1. <<"live", "row">> # <<>> /\ <<"live", "row">> # <<"live">>
      <4>1. Len(<<>>) = 0 /\ Len(<<"live">>) = 1 /\ Len(<<"live", "row">>) = 2
        OBVIOUS
      <4> QED BY <4>1
    <3>2. n \in Private => claim[p] = "owner" /\ ~Restoring(p)
      BY <2>2, <3>1, Zenon DEF MirrorInv, PlanTrue
    <3>3. claim' = claim /\ replay' = replay
      BY <1>4
    <3>4. n \in Private => claim'[p] = "owner" /\ ~Restoring(p)'
      BY <3>2, <3>3, Zenon DEF Restoring
    <3> HIDE DEF n, v
    <3> QED BY <1>2, <2>2, <3>4, Zenon DEF PlanTrue
  <2>3. CASE writer'[p].name = n /\ writer'[p].version = v /\ plan = <<"live", "tell">> /\ writer'[p].plan = <<"tell">>
    BY <1>2, <1>4, <2>3 DEF MirrorInv, PlanTrue, Restoring
  <2> QED BY <1>5, <2>1, <2>2, <2>3
<1>7. WriterGoesOn(p, n)
  <2> SUFFICES ASSUME NEW m \in Private \ {n}
               PROVE  (writer[p].name = m => writer'[p].name = m)
                      /\ (writer'[p].plan = <<"row">> /\ writer'[p].name = m => writer[p].plan = <<"row">> /\ writer'[p] = writer[p])
    BY DEF WriterGoesOn
  <2> QED BY <1>5, NoPlan
<1>8. CASE vm[p] = "ready"
  <2>1. SetTree(p, n, v) /\ NotMeant(p, {n})
    BY <1>8 DEF WriteLive
  <2>2. meant' \in SUBSET Names /\ (\A m \in Names \ {n} : m \in meant' <=> m \in meant) /\ (claim[p] # "owner" => meant' = meant)
    BY <2>1 DEF NotMeant, MirrorInv, Types
  <2>3. Types'
    BY <1>2, <1>4, <1>5, <2>1, <2>2, TreeTypes DEF MirrorInv, Types
  <2>4. writer'[p].plan = <<"row">> => writer'[p].version = v
    BY <1>5, NoPlan
  <2> HIDE DEF n, v, plan
  <2> QED BY <1>2, <1>4, <1>5, <1>6, <1>7, <1>8, <2>1, <2>2, <2>3, <2>4, TreeStep DEF Names
<1>9. CASE vm[p] # "ready"
  <2>1. KeepTree /\ meant' = meant
    BY <1>9 DEF WriteLive
  <2>2. Types'
    BY <1>4, <1>5, <2>1 DEF KeepTree, MirrorInv, Types
  <2>3. /\ vm' = vm /\ claim' = claim /\ tree' = tree /\ clean' = clean /\ whole' = whole /\ cut' = cut /\ replay' = replay /\ round' = round
        /\ flush' = flush /\ mirror' = mirror /\ still' = still
    BY <1>4, <2>1 DEF KeepTree
  <2>4. LocalStep(p)
    BY <1>5, <2>1, <2>3 DEF LocalStep, PageSame, Claiming, Harmless
  <2>5. Machine(p)' /\ Apart(p)'
    BY <2>3, Zenon DEF MirrorInv, Machine, Apart, Now, Restoring
  <2>6. vm'[p] = "off"
    BY <1>9, <2>3 DEF MirrorInv, Types
  <2>7. \A m \in Private : Row(p, m)'
    BY <2>2, <2>5, <2>6, RowOffNext
  <2> QED BY <1>6, <2>2, <2>4, <2>5, <2>7, Compose DEF Stays
<1> QED BY <1>8, <1>9

LEMMA WriteRowStep == ASSUME MirrorInv, NEW p \in Pages, WriteRow(p) PROVE MirrorInv'
<1> DEFINE n == writer[p].name
           v == writer[p].version
           plan == writer[p].plan
<1>1. writer[p] \in Writers /\ plan \in Plans /\ plan # <<>> /\ Head(plan) = "row"
  BY DEF WriteRow, Next1, MirrorInv, Types, Writers
<1>2. n \in Names /\ v \in Nat /\ v # 0
  BY <1>1 DEF MirrorInv, PlanTrue, Writers
<1>3. \/ plan = <<"row">> /\ Len(plan) = 1
      \/ plan = <<"row", "live">> /\ Len(plan) = 2 /\ Tail(plan) = <<"live">>
      \/ plan = <<"row", "live", "tell">> /\ Len(plan) = 3 /\ Tail(plan) = <<"live", "tell">>
  BY <1>1, PlanFacts
<1>4. /\ vm' = vm /\ claim' = claim /\ tree' = tree /\ clean' = clean /\ whole' = whole /\ cut' = cut /\ replay' = replay
      /\ flush' = flush /\ inbox' = inbox /\ applying' = applying /\ spent' = spent
  BY DEF WriteRow
<1>5. writer' \in [Pages -> Writers] /\ (\A q \in Pages \ {p} : writer'[q] = writer[q])
      /\ \/ plan = <<"row">> /\ writer'[p] = NoWriter
         \/ plan = <<"row", "live">> /\ writer'[p].name = n /\ writer'[p].version = v /\ writer'[p].plan = <<"live">>
         \/ plan = <<"row", "live", "tell">> /\ writer'[p].name = n /\ writer'[p].version = v /\ writer'[p].plan = <<"live", "tell">>
  <2>1. writer' \in [Pages -> Writers] /\ (\A q \in Pages \ {p} : writer'[q] = writer[q])
        /\ IF Len(plan) = 1 THEN writer'[p] = NoWriter
           ELSE writer'[p].plan = Tail(plan) /\ writer'[p].name = n /\ writer'[p].version = v
    BY <1>1, DoneTyped DEF WriteRow, MirrorInv
  <2> HIDE DEF n, v, plan
  <2>2. CASE plan = <<"row">> /\ Len(plan) = 1
    BY <2>1, <2>2, Zenon
  <2>3. CASE plan = <<"row", "live">> /\ Len(plan) = 2 /\ Tail(plan) = <<"live">>
    <3>1. Len(plan) # 1
      BY <2>3
    <3> QED BY <2>1, <2>3, <3>1, Zenon
  <2>4. CASE plan = <<"row", "live", "tell">> /\ Len(plan) = 3 /\ Tail(plan) = <<"live", "tell">>
    <3>1. Len(plan) # 1
      BY <2>4
    <3> QED BY <2>1, <2>4, <3>1, Zenon
  <2> QED BY <1>3, <2>2, <2>3, <2>4, Zenon
<1>6. mirror' \in [Names -> Nat] /\ mirror'[n] = v /\ \A m \in Names \ {n} : mirror'[m] = mirror[m]
  BY <1>2 DEF WriteRow, MirrorInv, Types
<1>7. round' \in [Pages -> Rounds] /\ (\A q \in Pages \ {p} : round'[q] = round[q]) /\ RoundBut(p, round[p].moved \cup {n})
  BY <1>2, RoundMoved DEF WriteRow, MirrorInv, Types
<1>8. still' \in [Pages -> SUBSET Names] /\ (\A q \in Pages \ {p} : still'[q] = still[q]) /\ still'[p] = still[p] \ {n}
  BY DEF WriteRow, MirrorInv, Types
<1>9. meant' \in SUBSET Names /\ (\A m \in Names \ {n} : m \in meant' <=> m \in meant) /\ (claim[p] # "owner" => meant' = meant)
  BY DEF WriteRow, NotMeant, MirrorInv, Types
<1>10. <<"row">> # <<>> /\ <<"row">> # <<"live">> /\ <<"row", "live">> # <<>> /\ <<"row", "live">> # <<"live">>
       /\ <<"row", "live", "tell">> # <<>> /\ <<"row", "live", "tell">> # <<"live">> /\ <<"row", "live", "tell">> # <<"row">>
       /\ <<"row", "live", "tell">> # <<"row", "live">> /\ <<"row", "live", "tell">> # <<"live", "row">>
       /\ <<"live">> # <<"row">> /\ <<"live", "tell">> # <<"row">> /\ <<"live">> # <<"live", "row">>
  <2>1. Len(<<>>) = 0 /\ Len(<<"live">>) = 1 /\ Len(<<"row">>) = 1 /\ Len(<<"live", "row">>) = 2 /\ Len(<<"row", "live">>) = 2
        /\ Len(<<"live", "tell">>) = 2 /\ Len(<<"row", "live", "tell">>) = 3 /\ <<"live">>[1] # <<"row">>[1]
    OBVIOUS
  <2> QED BY <2>1
<1>11. n \in Private => claim[p] = "owner" /\ plan \in {<<"row", "live">>, <<"row">>}
  <2>1. n \in Private => claim[p] = "owner"
    BY <1>3, <1>10, Zenon DEF MirrorInv, PlanTrue
  <2>2. n \in Private => plan # <<"row", "live", "tell">>
    BY <1>10, Zenon DEF MirrorInv, PlanTrue
  <2> QED BY <1>3, <2>1, <2>2
<1> HIDE DEF n, v, plan
<1>12. Types'
  BY <1>4, <1>5, <1>6, <1>7, <1>8, <1>9, Zenon DEF MirrorInv, Types
<1>13. LocalStep(p)
  <2>1. claim'[p] # "owner" => \A m \in Private : m \in Names \ {n}
    BY <1>4, <1>11 DEF Names
  <2> QED BY <1>4, <1>5, <1>6, <1>7, <1>8, <1>9, <2>1 DEF LocalStep, PageSame, Claiming, Harmless
<1>14. Machine(p)' /\ Apart(p)'
  <2>1. Machine(p)
    BY DEF MirrorInv
  <2>2. Machine(p)'
    BY <1>4, <1>7, <2>1, Zenon DEF Machine, Now, Restoring, RoundBut
  <2>3. Apart(p)'
    BY <1>4, <1>7 DEF MirrorInv, Apart, RoundBut
  <2> QED BY <2>2, <2>3
<1>15. PlanTrue(p)'
  <2>1. CASE writer'[p] = NoWriter
    BY <2>1, NoPlanTrue
  <2>2. CASE writer'[p].name = n /\ writer'[p].version = v /\ writer'[p].plan = <<"live">>
    BY <1>2, <1>10, <2>2, Zenon DEF PlanTrue
  <2>3. CASE writer'[p].name = n /\ writer'[p].version = v /\ plan = <<"row", "live", "tell">>
    BY <1>2, <1>10, <1>11, <2>3, Zenon DEF PlanTrue
  <2> QED BY <1>5, <2>1, <2>2, <2>3
<1>16. ASSUME claim'[p] = "owner", NEW m \in Private PROVE Row(p, m)'
  <2>1. Row(p, m) /\ claim[p] = "owner" /\ m \in Names
    BY <1>4, <1>16 DEF MirrorInv, Names
  <2>2. CASE m # n
    <3>1. (m \in meant' <=> m \in meant) /\ mirror'[m] = mirror[m] /\ (m \in still'[p] <=> m \in still[p])
          /\ (m \in round'[p].moved <=> m \in round[p].moved)
      BY <1>6, <1>7, <1>8, <1>9, <2>1, <2>2 DEF RoundBut
    <3>2. writer[p].name # m /\ writer'[p].name # m
      BY <1>5, <2>2, NoPlan DEF n
    <3>3. Untouched(p, m)
      BY <1>4, <1>7, <3>1, <3>2 DEF Untouched, RoundBut
    <3> QED BY <2>1, <3>3, RowUntouched
  <2>3. CASE m = n
    <3>1. /\ m \in round'[p].moved /\ m \notin still'[p] /\ mirror'[m] = v /\ v # 0 /\ tree'[p][m] = tree[p][m]
          /\ vm'[p] = vm[p] /\ (m \in clean'[p] <=> m \in clean[p])
      BY <1>2, <1>4, <1>6, <1>7, <1>8, <2>3 DEF RoundBut
    <3>2. \/ writer'[p].name = m
          \/ vm[p] = "ready" => tree[p][m] = v
      BY <1>5, <2>1, <2>3, Zenon DEF Row, RowTrue, n, v, plan
    <3>3. RowTrue(p, m)'
      <4>1. ~(writer'[p].plan = <<"row">> /\ writer'[p].name = m)
        BY <1>5, <1>10, <2>1, NoPlan
      <4>2. vm[p] # "ready" => tree[p][m] = 0
        <5>1. vm[p] # "ready" => vm[p] = "off"
          BY DEF MirrorInv, Types
        <5> QED BY <2>1, <5>1 DEF MirrorInv, Machine, Empty
      <4>3. Excused(p, m)' \/ (vm[p] = "ready" => tree[p][m] = v)
        BY <3>2 DEF Excused
      <4>4. Same(p, m)' \/ tree[p][m] = 0
        BY <3>1, <3>2, <4>2 DEF Same
      <4> QED BY <3>1, <4>1, <4>3, <4>4, Zenon DEF RowTrue
    <3>4. ListTrue(p, m)'
      BY <1>7, <2>1, <3>1, Zenon DEF Row, ListTrue, RoundBut, Now
    <3>5. NamesTrue(p, m)'
      BY <1>7, <2>1, <3>1, Zenon DEF Row, NamesTrue, RoundBut, Now
    <3>6. ReadTrue(p, m)'
      <4>1. Now(p, "read")' => vm[p] = "ready"
        <5>1. vm[p] \in {"off", "ready"} /\ Machine(p)
          BY DEF MirrorInv, Types
        <5> QED BY <1>7, <5>1 DEF Machine, Now, RoundBut
      <4>2. Now(p, "read")' /\ tree[p][m] = 0 => Excused(p, m)'
        BY <3>1, <3>2, <4>1 DEF Excused
      <4> QED BY <1>7, <2>1, <3>1, <4>2, Zenon DEF Row, ReadTrue, RoundBut, Now
    <3>7. TellTrue(p, m)'
      BY <3>1 DEF TellTrue
    <3> QED BY <3>3, <3>4, <3>5, <3>6, <3>7 DEF Row
  <2> QED BY <2>2, <2>3
<1> QED BY <1>12, <1>13, <1>14, <1>15, <1>16, Compose DEF Stays

\* The claim is asked for once.
LEMMA Asked ==
  ASSUME Types, NEW p \in Pages, AskClaim(p)
  PROVE  /\ claim' \in [Pages -> {"unasked", "owner", "other"}] /\ \A q \in Pages \ {p} : claim'[q] = claim[q]
         /\ claim'[p] = ClaimOf(p) /\ claim'[p] \in {"owner", "other"}
         /\ claim[p] # "unasked" => claim'[p] = claim[p]
<1>1. claim[p] \in {"unasked", "owner", "other"}
  BY DEF Types
<1> QED BY <1>1 DEF AskClaim, ClaimOf, Types

LEMMA BeginStep ==
  ASSUME MirrorInv, NEW p \in Pages, NEW n \in Names, NEW plan \in Plans, Begin(p, n, plan), plan # <<>>, plan # <<"row">>,
         n \in Private => /\ plan \in {<<"row", "live">>, <<"live">>, <<"live", "row">>}
                          /\ ClaimOf(p) # "owner" => plan = <<"live">>
                          /\ plan = <<"live", "row">> => ~Restoring(p)
  PROVE  MirrorInv'
<1>1. /\ vm' = vm /\ tree' = tree /\ clean' = clean /\ whole' = whole /\ cut' = cut /\ replay' = replay /\ round' = round
      /\ flush' = flush /\ inbox' = inbox /\ applying' = applying /\ mirror' = mirror /\ still' = still /\ meant' = meant
      /\ writer[p] = NoWriter /\ Spend("version") /\ AskClaim(p)
  BY DEF Begin
<1>2. spent' \in Purse /\ New \in Nat /\ New # 0
  BY <1>1, Spending DEF MirrorInv, Types
<1>3. /\ claim' \in [Pages -> {"unasked", "owner", "other"}] /\ \A q \in Pages \ {p} : claim'[q] = claim[q]
      /\ claim'[p] = ClaimOf(p) /\ claim'[p] \in {"owner", "other"}
      /\ claim[p] # "unasked" => claim'[p] = claim[p]
  BY <1>1, Asked DEF MirrorInv
<1>4. writer' \in [Pages -> Writers] /\ (\A q \in Pages \ {p} : writer'[q] = writer[q])
      /\ writer'[p].plan = plan /\ writer'[p].name = n /\ writer'[p].version = New
  <2> DEFINE w == [plan |-> plan, name |-> n, version |-> New]
  <2>1. w \in Writers /\ w.plan = plan /\ w.name = n /\ w.version = New
    BY <1>2 DEF Writers
  <2>2. writer' = [writer EXCEPT ![p] = w]
    BY DEF Begin
  <2> HIDE DEF w
  <2> QED BY <2>1, <2>2 DEF MirrorInv, Types
<1>5. Types'
  BY <1>1, <1>2, <1>3, <1>4, Zenon DEF MirrorInv, Types
<1>6. LocalStep(p)
  BY <1>1, <1>3, <1>4 DEF LocalStep, PageSame, Claiming, Harmless
<1>7. Machine(p)'
  <2>1. Machine(p) /\ claim'[p] # "unasked"
    BY <1>3 DEF MirrorInv
  <2> QED BY <1>1, <2>1, Zenon DEF Machine, Now, Restoring
<1>8. Apart(p)'
  <2>1. claim'[p] # "owner" => claim[p] # "owner"
    BY <1>3
  <2> QED BY <1>1, <2>1, Zenon DEF MirrorInv, Apart
<1>9. PlanTrue(p)'
  BY <1>1, <1>2, <1>3, <1>4, Zenon DEF PlanTrue, Restoring
<1>10. ASSUME claim'[p] = "owner", NEW m \in Private PROVE Row(p, m)'
  <2>1. CASE vm[p] = "off"
    BY <1>1, <1>5, <1>7, <2>1, RowOffNext
  <2>2. CASE vm[p] # "off"
    <3>1. vm[p] = "ready"
      BY <2>2 DEF MirrorInv, Types
    <3>2. claim[p] = "owner"
      BY <1>3, <1>10, <3>1 DEF MirrorInv, Machine
    <3>3. writer[p].name # m
      BY <1>1, NoPlan
    <3>4. Untouched(p, m)
      BY <1>1, <1>4, <3>3 DEF Untouched
    <3> QED BY <3>2, <3>4, RowUntouched DEF MirrorInv
  <2> QED BY <2>1, <2>2
<1> QED BY <1>5, <1>6, <1>7, <1>8, <1>9, <1>10, Compose DEF Stays

LEMMA BeginsStep ==
  ASSUME MirrorInv, NEW p \in Pages, NEW n \in Names, BeginLand(p, n) \/ BeginDrop(p, n) \/ BeginShare(p, n)
  PROVE  MirrorInv'
<1>1. <<"row", "live">> # <<>> /\ <<"live">> # <<>> /\ <<"live", "row">> # <<>> /\ <<"row", "live", "tell">> # <<>>
      /\ <<"row", "live">> # <<"row">> /\ <<"live">> # <<"row">> /\ <<"live", "row">> # <<"row">>
      /\ <<"row", "live", "tell">> # <<"row">> /\ <<"row", "live">> # <<"live", "row">> /\ <<"live">> # <<"live", "row">>
  <2>1. Len(<<>>) = 0 /\ Len(<<"live">>) = 1 /\ Len(<<"row">>) = 1 /\ Len(<<"live", "row">>) = 2 /\ Len(<<"row", "live">>) = 2
        /\ Len(<<"row", "live", "tell">>) = 3 /\ <<"live">>[1] # <<"row">>[1] /\ <<"live", "row">>[1] # <<"row", "live">>[1]
    OBVIOUS
  <2> QED BY <2>1
<1>2. CASE BeginLand(p, n)
  <2>1. Begin(p, n, LandPlan(p)) /\ n \in Private
    BY <1>2 DEF BeginLand
  <2>2. IF ClaimOf(p) = "owner" THEN LandPlan(p) = <<"row", "live">> ELSE LandPlan(p) = <<"live">>
    BY DEF LandPlan
  <2>3. LandPlan(p) \in Plans
    BY <2>2 DEF Plans
  <2> QED BY <1>1, <2>1, <2>2, <2>3, BeginStep
<1>3. CASE BeginDrop(p, n)
  <2>1. Begin(p, n, DropPlan(p)) /\ n \in Private /\ ~Restoring(p)
    BY <1>3 DEF BeginDrop
  <2>2. IF ClaimOf(p) = "owner" THEN DropPlan(p) = <<"live", "row">> ELSE DropPlan(p) = <<"live">>
    BY DEF DropPlan
  <2>3. DropPlan(p) \in Plans
    BY <2>2 DEF Plans
  <2> QED BY <1>1, <2>1, <2>2, <2>3, BeginStep
<1>4. CASE BeginShare(p, n)
  <2>1. Begin(p, n, SharePlan(p)) /\ n \notin Private /\ SharePlan(p) = <<"row", "live", "tell">>
    BY <1>4, ShareMirrorAssumption DEF BeginShare, ShareMirrorAssumption, SharePlan
  <2>2. SharePlan(p) \in Plans
    BY <2>1 DEF Plans
  <2> QED BY <1>1, <2>1, <2>2, BeginStep
<1> QED BY <1>2, <1>3, <1>4

LEMMA RemoveRowStep == ASSUME MirrorInv, NEW p \in Pages, NEW n \in Names, RemoveRow(p, n) PROVE MirrorInv'
<1>1. /\ vm' = vm /\ tree' = tree /\ clean' = clean /\ whole' = whole /\ cut' = cut /\ replay' = replay /\ round' = round
      /\ flush' = flush /\ inbox' = inbox /\ applying' = applying /\ still' = still /\ writer' = writer
      /\ writer[p] = NoWriter /\ vm[p] = "off" /\ ClaimOf(p) = "owner" /\ AskClaim(p) /\ n \in Private
  BY DEF RemoveRow
<1>2. spent' \in Purse
  BY Spending DEF RemoveRow, MirrorInv, Types
<1>3. /\ claim' \in [Pages -> {"unasked", "owner", "other"}] /\ \A q \in Pages \ {p} : claim'[q] = claim[q]
      /\ claim'[p] = "owner"
  BY <1>1, Asked DEF MirrorInv
<1>4. mirror' \in [Names -> Nat] /\ meant' \in SUBSET Names
  BY DEF RemoveRow, MirrorInv, Types
<1>5. Types'
  BY <1>1, <1>2, <1>3, <1>4, Zenon DEF MirrorInv, Types
<1>6. LocalStep(p)
  BY <1>1, <1>3 DEF LocalStep, PageSame, Claiming, Harmless
<1>7. Machine(p)'
  <2>1. Machine(p) /\ claim'[p] # "unasked"
    BY <1>3 DEF MirrorInv
  <2> QED BY <1>1, <2>1, Zenon DEF Machine, Now, Restoring
<1>8. Apart(p)' /\ PlanTrue(p)'
  BY <1>1, <1>3, NoPlanTrue DEF Apart
<1>9. \A m \in Private : Row(p, m)'
  BY <1>1, <1>5, <1>7, RowOffNext
<1> QED BY <1>5, <1>6, <1>7, <1>8, <1>9, Compose DEF Stays

----------------------------------------------------------------------------
(* The machine goes up and down.                                           *)

LEMMA EmptyTyped == Empty \in [Names -> Nat] /\ \A n \in Names : Empty[n] = 0
BY DEF Empty

LEMMA NoneTyped == NoReplay \in Replays /\ NoRound \in Rounds /\ NoWriter \in Writers
<1>1. NoReplay \in Replays
  BY EmptyTyped DEF NoReplay, Replays
<1>2. NoRound \in Rounds
  BY EmptyTyped DEF NoRound, Rounds, Steps
<1>3. NoWriter \in Writers
  BY DEF NoWriter, Writers, Plans
<1> QED BY <1>1, <1>2, <1>3

LEMMA PowerOnStep == ASSUME MirrorInv, NEW p \in Pages, PowerOn(p) PROVE MirrorInv'
<1>1. /\ clean' = clean /\ whole' = whole /\ cut' = cut /\ round' = round /\ flush' = flush /\ inbox' = inbox /\ applying' = applying
      /\ still' = still /\ writer' = writer /\ mirror' = mirror /\ meant' = meant
      /\ vm[p] = "off" /\ ~Restoring(p) /\ writer[p].plan \in {<<>>, <<"live">>, <<"live", "tell">>}
      /\ AskClaim(p) /\ Spend("boot")
  BY DEF PowerOn
<1>2. spent' \in Purse
  BY <1>1, Spending DEF MirrorInv, Types
<1>3. /\ claim' \in [Pages -> {"unasked", "owner", "other"}] /\ \A q \in Pages \ {p} : claim'[q] = claim[q]
      /\ claim'[p] = ClaimOf(p) /\ claim'[p] \in {"owner", "other"}
      /\ claim[p] # "unasked" => claim'[p] = claim[p]
  BY <1>1, Asked DEF MirrorInv
<1>4. /\ vm' \in [Pages -> {"off", "ready"}] /\ vm'[p] = "ready" /\ \A q \in Pages \ {p} : vm'[q] = vm[q]
      /\ tree' \in [Pages -> [Names -> Nat]] /\ tree'[p] = Empty /\ \A q \in Pages \ {p} : tree'[q] = tree[q]
  BY EmptyTyped DEF PowerOn, MirrorInv, Types
<1>5. /\ replay' \in [Pages -> Replays] /\ \A q \in Pages \ {p} : replay'[q] = replay[q]
      /\ replay'[p].on = TRUE /\ replay'[p].rows = mirror /\ replay'[p].left = Held(mirror)
  <2> DEFINE r == [on |-> TRUE, rows |-> mirror, left |-> Held(mirror)]
  <2>1. r \in Replays /\ r.on = TRUE /\ r.rows = mirror /\ r.left = Held(mirror)
    BY DEF Replays, Held, MirrorInv, Types
  <2>2. replay' = [replay EXCEPT ![p] = r]
    BY DEF PowerOn
  <2> HIDE DEF r
  <2> QED BY <2>1, <2>2 DEF MirrorInv, Types
<1>6. Types'
  BY <1>1, <1>2, <1>3, <1>4, <1>5, Zenon DEF MirrorInv, Types
<1>7. LocalStep(p)
  BY <1>1, <1>3, <1>4, <1>5 DEF LocalStep, PageSame, Claiming, Harmless
<1>8. ~flush[p] /\ (whole[p] => p \in cut) /\ ~round[p].final /\ ~Now(p, "flushed") /\ ~Now(p, "names") /\ ~Now(p, "read") /\ ~Now(p, "tell")
  BY <1>1 DEF MirrorInv, Machine
<1>9. Machine(p)'
  <2>1. \A n \in replay'[p].left : replay'[p].rows[n] # 0
    BY <1>5 DEF Held
  <2>2. vm'[p] # "off" /\ Restoring(p)' /\ claim'[p] # "unasked" /\ ~flush'[p] /\ (whole'[p] => p \in cut') /\ ~round'[p].final /\ ~Now(p, "flushed")'
    BY <1>1, <1>3, <1>4, <1>5, <1>8 DEF Restoring, Now
  <2> QED BY <1>4, <2>1, <2>2, Zenon DEF Machine
<1>10. Apart(p)'
  <2>1. claim'[p] # "owner" => claim[p] # "owner"
    BY <1>3
  <2> QED BY <1>1, <2>1, Zenon DEF MirrorInv, Apart
<1>11. writer[p].plan \notin {<<"live", "row">>, <<"row">>}
  <2>1. Len(<<>>) = 0 /\ Len(<<"live">>) = 1 /\ Len(<<"row">>) = 1 /\ Len(<<"live", "row">>) = 2 /\ Len(<<"live", "tell">>) = 2
        /\ <<"live">>[1] # <<"row">>[1] /\ <<"live", "row">>[2] # <<"live", "tell">>[2]
    OBVIOUS
  <2>2. <<>> # <<"row">> /\ <<>> # <<"live", "row">> /\ <<"live">> # <<"row">> /\ <<"live">> # <<"live", "row">>
        /\ <<"live", "tell">> # <<"row">> /\ <<"live", "tell">> # <<"live", "row">>
    BY <2>1
  <2> QED BY <1>1, <2>2, Zenon
<1>12. PlanTrue(p)'
  <2>1. claim'[p] # "owner" => claim[p] # "owner"
    BY <1>3
  <2> QED BY <1>1, <1>11, <2>1, Zenon DEF MirrorInv, PlanTrue
<1>13. ASSUME claim'[p] = "owner", NEW m \in Private PROVE Row(p, m)'
  <2>1. m \in Names /\ tree'[p][m] = 0
    BY <1>4, EmptyTyped DEF Names
  <2>2. mirror'[m] # 0 => Restoring(p)' /\ m \in replay'[p].left
    BY <1>1, <1>5, <2>1 DEF Held, Restoring
  <2>3. RowTrue(p, m)'
    BY <1>1, <1>11, <2>1, <2>2, Zenon DEF RowTrue
  <2>4. ~Now(p, "names")' /\ ~Now(p, "read")' /\ ~Now(p, "tell")' /\ ~Now(p, "flushed")' /\ ~round'[p].final
    BY <1>1, <1>8 DEF Now
  <2>5. ListTrue(p, m)' /\ NamesTrue(p, m)' /\ ReadTrue(p, m)' /\ TellTrue(p, m)'
    BY <2>4, Zenon DEF ListTrue, NamesTrue, ReadTrue, TellTrue
  <2> QED BY <2>3, <2>5 DEF Row
<1> QED BY <1>6, <1>7, <1>9, <1>10, <1>12, <1>13, Compose DEF Stays

LEMMA RestoreEndStep == ASSUME MirrorInv, NEW p \in Pages, RestoreEnd(p) PROVE MirrorInv'
<1>1. /\ clean' = clean /\ vm' = vm /\ tree' = tree /\ claim' = claim /\ round' = round /\ flush' = flush /\ inbox' = inbox
      /\ applying' = applying /\ still' = still /\ writer' = writer /\ mirror' = mirror /\ meant' = meant /\ spent' = spent
      /\ replay[p].left = {} /\ Restoring(p)
  BY DEF RestoreEnd, Restoring
<1>2. /\ replay' \in [Pages -> Replays] /\ replay'[p] = NoReplay /\ \A q \in Pages \ {p} : replay'[q] = replay[q]
      /\ whole' \in [Pages -> BOOLEAN] /\ \A q \in Pages \ {p} : whole'[q] = whole[q]
      /\ cut' \in SUBSET Pages /\ \A q \in Pages \ {p} : q \in cut' <=> q \in cut
      /\ vm[p] # "ready" => cut' = cut
  BY NoneTyped DEF RestoreEnd, MirrorInv, Types
<1>3. ~replay'[p].on /\ replay'[p].left = {}
  BY <1>2 DEF NoReplay
<1>4. Types'
  BY <1>1, <1>2, Zenon DEF MirrorInv, Types
<1>5. LocalStep(p)
  BY <1>1, <1>2 DEF LocalStep, PageSame, Claiming, Harmless
<1>6. Machine(p)'
  <2>1. Machine(p)
    BY DEF MirrorInv
  <2>2. vm[p] = "ready" \/ p \in cut'
    BY <1>1, <1>2, <2>1 DEF Machine
  <2> QED BY <1>1, <1>3, <2>1, <2>2, Zenon DEF Machine, Now, Restoring
<1>7. Apart(p)' /\ PlanTrue(p)'
  BY <1>1, <1>3, Zenon DEF MirrorInv, Apart, PlanTrue, Restoring
<1>8. ASSUME claim'[p] = "owner", NEW m \in Private PROVE Row(p, m)'
  <2>1. Row(p, m)
    BY <1>1, <1>8 DEF MirrorInv
  <2>2. (Excused(p, m)' <=> Excused(p, m)) /\ (Same(p, m)' <=> Same(p, m))
    BY <1>1, Zenon DEF Excused, Same
  <2>3. RowTrue(p, m)'
    <3>1. m \notin replay[p].left
      BY <1>1
    <3> QED BY <1>1, <2>1, <2>2, <3>1, Zenon DEF Row, RowTrue
  <2>4. ListTrue(p, m)' /\ NamesTrue(p, m)' /\ ReadTrue(p, m)' /\ TellTrue(p, m)'
    BY <1>1, <2>1, <2>2, Zenon DEF Row, ListTrue, NamesTrue, ReadTrue, TellTrue, Now
  <2> QED BY <2>3, <2>4 DEF Row
<1> QED BY <1>4, <1>5, <1>6, <1>7, <1>8, Compose DEF Stays

LEMMA PressOffStep == ASSUME MirrorInv, NEW p \in Pages, PressOff(p) PROVE MirrorInv'
<1>1. /\ clean' = clean /\ vm' = vm /\ tree' = tree /\ claim' = claim /\ round' = round /\ whole' = whole /\ cut' = cut /\ inbox' = inbox
      /\ applying' = applying /\ replay' = replay /\ writer' = writer /\ mirror' = mirror /\ meant' = meant
      /\ vm[p] = "ready" /\ ~flush[p]
  BY DEF PressOff
<1>2. spent' \in Purse
  BY Spending DEF PressOff, MirrorInv, Types
<1>3. /\ flush' \in [Pages -> BOOLEAN] /\ \A q \in Pages \ {p} : flush'[q] = flush[q]
      /\ still' \in [Pages -> SUBSET Names] /\ \A q \in Pages \ {p} : still'[q] = still[q]
  BY DEF PressOff, MirrorInv, Types
<1>4. Types'
  BY <1>1, <1>2, <1>3, Zenon DEF MirrorInv, Types
<1>5. LocalStep(p)
  BY <1>1, <1>3 DEF LocalStep, PageSame, Claiming, Harmless
<1>6. ~round[p].final /\ ~Now(p, "flushed")
  BY <1>1 DEF MirrorInv, Machine
<1>7. Machine(p)'
  <2>1. Machine(p)
    BY DEF MirrorInv
  <2> QED BY <1>1, <1>6, <2>1, Zenon DEF Machine, Now, Restoring
<1>8. Apart(p)' /\ PlanTrue(p)'
  BY <1>1, Zenon DEF MirrorInv, Apart, PlanTrue, Restoring
<1>9. ASSUME claim'[p] = "owner", NEW m \in Private PROVE Row(p, m)'
  <2>1. Row(p, m)
    BY <1>1, <1>9 DEF MirrorInv
  <2>2. (Excused(p, m)' <=> Excused(p, m)) /\ (Same(p, m)' <=> Same(p, m))
    BY <1>1, Zenon DEF Excused, Same
  <2>3. RowTrue(p, m)'
    BY <1>1, <2>1, <2>2, Zenon DEF Row, RowTrue, Restoring
  <2>4. ListTrue(p, m)' /\ NamesTrue(p, m)' /\ ReadTrue(p, m)'
    BY <1>1, <2>1, <2>2, Zenon DEF Row, ListTrue, NamesTrue, ReadTrue, Now
  <2>5. TellTrue(p, m)'
    BY <1>1, <1>6, <2>1, <2>2, Zenon DEF Row, TellTrue, Now
  <2> QED BY <2>3, <2>4, <2>5 DEF Row
<1> QED BY <1>4, <1>5, <1>7, <1>8, <1>9, Compose DEF Stays

LEMMA DestroyStep == ASSUME MirrorInv, NEW p \in Pages, Destroy(p) PROVE MirrorInv'
<1>1. /\ clean' = clean /\ claim' = claim /\ replay' = replay /\ inbox' = inbox /\ applying' = applying /\ writer' = writer
      /\ mirror' = mirror /\ meant' = meant /\ spent' = spent /\ still' = still
  BY DEF Destroy
<1>2. /\ vm' \in [Pages -> {"off", "ready"}] /\ vm'[p] = "off" /\ \A q \in Pages \ {p} : vm'[q] = vm[q]
      /\ tree' \in [Pages -> [Names -> Nat]] /\ tree'[p] = Empty /\ \A q \in Pages \ {p} : tree'[q] = tree[q]
  BY EmptyTyped DEF Destroy, MirrorInv, Types
<1>3. /\ whole' \in [Pages -> BOOLEAN] /\ ~whole'[p] /\ \A q \in Pages \ {p} : whole'[q] = whole[q]
      /\ flush' \in [Pages -> BOOLEAN] /\ ~flush'[p] /\ \A q \in Pages \ {p} : flush'[q] = flush[q]
      /\ round' \in [Pages -> Rounds] /\ round'[p] = NoRound /\ \A q \in Pages \ {p} : round'[q] = round[q]
      /\ cut' \in SUBSET Pages /\ (\A q \in Pages \ {p} : q \in cut' <=> q \in cut) /\ (Restoring(p) => p \in cut')
  BY NoneTyped DEF Destroy, MirrorInv, Types
<1>4. Types'
  BY <1>1, <1>2, <1>3, Zenon DEF MirrorInv, Types
<1>5. LocalStep(p)
  BY <1>1, <1>2, <1>3 DEF LocalStep, PageSame, Claiming, Harmless
<1>6. Machine(p)' /\ Apart(p)'
  <2>1. Machine(p)
    BY DEF MirrorInv
  <2>2. /\ Restoring(p)' <=> Restoring(p)
        /\ Restoring(p)' => p \in cut' /\ \A n \in replay'[p].left : replay'[p].rows[n] # 0
        /\ ~Restoring(p)' => replay'[p].left = {}
    BY <1>1, <1>3, <2>1 DEF Restoring, Machine
  <2>3. NoRound.step = "idle" /\ ~NoRound.final
    BY DEF NoRound
  <2>4. Machine(p)'
    BY <1>2, <1>3, <2>2, <2>3 DEF Machine, Now
  <2>5. Apart(p)'
    BY <1>3, EmptyTyped DEF Apart, NoRound, Names
  <2> QED BY <2>4, <2>5
<1>7. PlanTrue(p)'
  BY <1>1, PlanStays DEF MirrorInv
<1>8. \A m \in Private : Row(p, m)'
  BY <1>2, <1>4, <1>6, RowOffNext
<1> QED BY <1>4, <1>5, <1>6, <1>7, <1>8, Compose DEF Stays

LEMMA DieStep == ASSUME MirrorInv, NEW p \in Pages, Die(p) PROVE MirrorInv'
<1>1. /\ mirror' = mirror /\ meant' = meant /\ still' = still /\ spent' \in Purse
  BY Spending DEF Die, MirrorInv, Types
<1>2. /\ vm' \in [Pages -> {"off", "ready"}] /\ vm'[p] = "off" /\ \A q \in Pages \ {p} : vm'[q] = vm[q]
      /\ tree' \in [Pages -> [Names -> Nat]] /\ tree'[p] = Empty /\ \A q \in Pages \ {p} : tree'[q] = tree[q]
      /\ claim' \in [Pages -> {"unasked", "owner", "other"}] /\ claim'[p] = "unasked" /\ \A q \in Pages \ {p} : claim'[q] = claim[q]
      /\ clean' \in [Pages -> SUBSET Names] /\ \A q \in Pages \ {p} : clean'[q] = clean[q]
  BY EmptyTyped DEF Die, MirrorInv, Types
<1>3. /\ whole' \in [Pages -> BOOLEAN] /\ ~whole'[p] /\ \A q \in Pages \ {p} : whole'[q] = whole[q]
      /\ flush' \in [Pages -> BOOLEAN] /\ ~flush'[p] /\ \A q \in Pages \ {p} : flush'[q] = flush[q]
      /\ round' \in [Pages -> Rounds] /\ round'[p] = NoRound /\ \A q \in Pages \ {p} : round'[q] = round[q]
      /\ cut' \in SUBSET Pages /\ \A q \in Pages \ {p} : q \in cut' <=> q \in cut
      /\ replay' \in [Pages -> Replays] /\ replay'[p] = NoReplay /\ \A q \in Pages \ {p} : replay'[q] = replay[q]
      /\ writer' \in [Pages -> Writers] /\ writer'[p] = NoWriter /\ \A q \in Pages \ {p} : writer'[q] = writer[q]
  BY NoneTyped DEF Die, MirrorInv, Types
<1>4. inbox' \in [Pages -> Seq(Messages)] /\ applying' \in [Pages -> Seq(Copies)]
  <2>1. <<>> \in Seq(Messages) /\ <<>> \in Seq(Copies)
    OBVIOUS
  <2> QED BY <2>1 DEF Die, MirrorInv, Types
<1>5. Types'
  BY <1>1, <1>2, <1>3, <1>4, Zenon DEF MirrorInv, Types
<1>6. LocalStep(p)
  BY <1>1, <1>2, <1>3 DEF LocalStep, PageSame, Claiming, Harmless
<1>7. Machine(p)' /\ Apart(p)'
  <2>1. ~Restoring(p)' /\ replay'[p].left = {}
    BY <1>3 DEF Restoring, NoReplay
  <2>2. NoRound.step = "idle" /\ ~NoRound.final
    BY DEF NoRound
  <2>3. Machine(p)'
    BY <1>2, <1>3, <2>1, <2>2 DEF Machine, Now
  <2>4. Apart(p)'
    BY <1>3, EmptyTyped DEF Apart, NoRound, Names
  <2> QED BY <2>3, <2>4
<1>8. PlanTrue(p)'
  BY <1>3, NoPlanTrue
<1> QED BY <1>2, <1>5, <1>6, <1>7, <1>8, Compose DEF Stays

----------------------------------------------------------------------------
(* A snapshot round.                                                       *)

\* A step of a round that leaves the machine, the tree and the rows alone.
LEMMA RoundStep ==
  ASSUME MirrorInv, NEW p \in Pages, NEW r \in Rounds, round' = [round EXCEPT ![p] = r], vm[p] = "ready",
         UNCHANGED <<cut, vm, claim, tree, whole, replay, flush, writer, applying, mirror, still, meant>>,
         spent' \in Purse, inbox' \in [Pages -> Seq(Messages)],
         clean' \in [Pages -> SUBSET Names], \A q \in Pages \ {p} : clean'[q] = clean[q],
         r.final \/ r.step = "flushed" => flush[p], Apart(p)',
         claim[p] = "owner" => \A n \in Private : Row(p, n)'
  PROVE  MirrorInv'
<1>1. /\ vm' = vm /\ tree' = tree /\ claim' = claim /\ whole' = whole /\ cut' = cut /\ applying' = applying /\ still' = still
      /\ replay' = replay /\ writer' = writer /\ mirror' = mirror /\ meant' = meant /\ flush' = flush
  OBVIOUS
<1>2. round' \in [Pages -> Rounds] /\ round'[p] = r /\ \A q \in Pages \ {p} : round'[q] = round[q]
  BY DEF MirrorInv, Types
<1>3. Types'
  BY <1>1, <1>2, Zenon DEF MirrorInv, Types
<1>4. LocalStep(p)
  BY <1>1, <1>2 DEF LocalStep, PageSame, Claiming, Harmless
<1>5. Machine(p)'
  <2>1. Machine(p) /\ vm'[p] # "off" /\ (round'[p].final \/ round'[p].step = "flushed" => flush'[p])
    BY <1>1, <1>2 DEF MirrorInv
  <2> QED BY <1>1, <2>1, Zenon DEF Machine, Now, Restoring
<1>6. PlanTrue(p)'
  BY <1>1, PlanStays DEF MirrorInv
<1> QED BY <1>1, <1>3, <1>4, <1>5, <1>6, Compose DEF Stays

\* A page in a round has a machine, and a claim.
LEMMA InRound ==
  ASSUME MirrorInv, NEW p \in Pages, Now(p, "names") \/ Now(p, "read") \/ Now(p, "tell")
  PROVE  vm[p] = "ready" /\ claim[p] \in {"owner", "other"}
<1>1. vm[p] \in {"off", "ready"} /\ claim[p] \in {"unasked", "owner", "other"} /\ Machine(p)
  BY DEF MirrorInv, Types
<1> QED BY <1>1 DEF Machine

LEMMA SnapListStep == ASSUME MirrorInv, NEW p \in Pages, SnapList(p) PROVE MirrorInv'
<1>1. vm[p] = "ready" /\ ~Restoring(p) /\ AskClaim(p) /\ claim[p] # "unasked"
  BY DEF SnapList, MayRound, MirrorInv, Machine
<1>2. claim' = claim /\ ClaimOf(p) = claim[p]
  BY <1>1 DEF AskClaim, ClaimOf, MirrorInv, Types
<1>3. PICK final \in {FALSE, flush[p]} : round' = [round EXCEPT ![p] =
         [NoRound EXCEPT !.step = "names", !.listing = Listed(p), !.dirty = Listed(p) \ clean[p], !.final = final]]
  BY DEF SnapList
<1> DEFINE r == [NoRound EXCEPT !.step = "names", !.listing = Listed(p), !.dirty = Listed(p) \ clean[p], !.final = final]
<1>4. final \in BOOLEAN /\ (final => flush[p])
  BY DEF MirrorInv, Types
<1>5. Listed(p) \subseteq Names
  BY DEF Listed, Held
<1>6. r \in Rounds /\ r.step = "names" /\ r.listing = Listed(p) /\ r.dirty = Listed(p) \ clean[p] /\ (r.final <=> final)
      /\ r.moved = {} /\ r.read = {} /\ r.remove = {} /\ r.changed = Empty
  <2> DEFINE r1 == [NoRound EXCEPT !.step = "names"]
             r2 == [r1 EXCEPT !.listing = Listed(p)]
             r3 == [r2 EXCEPT !.dirty = Listed(p) \ clean[p]]
  <2>1. r = [r3 EXCEPT !.final = final]
    OBVIOUS
  <2>2. r1 \in Rounds /\ r1.step = "names" /\ r1.moved = {} /\ r1.read = {} /\ r1.remove = {} /\ r1.changed = Empty
    BY NoneTyped DEF NoRound, Rounds, Steps
  <2> HIDE DEF r, r1
  <2>3. r2 \in Rounds /\ r2.step = "names" /\ r2.listing = Listed(p) /\ r2.moved = {} /\ r2.read = {} /\ r2.remove = {}
        /\ r2.changed = Empty
    BY <1>5, <2>2 DEF Rounds
  <2> HIDE DEF r2
  <2>4. r3 \in Rounds /\ r3.step = "names" /\ r3.listing = Listed(p) /\ r3.dirty = Listed(p) \ clean[p] /\ r3.moved = {}
        /\ r3.read = {} /\ r3.remove = {} /\ r3.changed = Empty
    <3>1. Listed(p) \ clean[p] \in SUBSET Names
      BY <1>5
    <3> QED BY <2>3, <3>1 DEF Rounds
  <2> HIDE DEF r3
  <2> QED BY <1>4, <2>1, <2>4 DEF Rounds
<1>7. round' = [round EXCEPT ![p] = r]
  BY <1>3
<1> HIDE DEF r
<1>8. round'[p] = r
  BY <1>7 DEF MirrorInv, Types
<1>9. UNCHANGED <<cut, vm, tree, clean, whole, replay, flush, writer, inbox, applying, mirror, still, meant>>
  BY DEF SnapList
<1>12. spent' \in Purse
  BY Spending DEF SnapList, MirrorInv, Types
<1>10. Apart(p)'
  BY <1>2, <1>6, <1>8, EmptyTyped, ShareMirrorAssumption DEF Apart, Listed, Names, ShareMirrorAssumption
<1>11. ASSUME claim[p] = "owner", NEW n \in Private PROVE Row(p, n)'
  <2>1. Row(p, n) /\ n \in Names /\ (n \in Listed(p) <=> tree[p][n] # 0)
    BY <1>2, <1>11 DEF MirrorInv, Names, Listed, Held
  <2>2. vm' = vm /\ tree' = tree /\ clean' = clean /\ replay' = replay /\ writer' = writer /\ mirror' = mirror /\ meant' = meant
    BY <1>9
  <2>3. (Excused(p, n)' <=> Excused(p, n)) /\ (Same(p, n)' <=> Same(p, n))
    BY <2>2, Zenon DEF Excused, Same
  <2>4. RowTrue(p, n)'
    BY <2>1, <2>2, <2>3, Zenon DEF Row, RowTrue, Restoring
  <2>5. Now(p, "names")' /\ ~Now(p, "read")' /\ ~Now(p, "tell")' /\ ~Now(p, "flushed")'
    BY <1>6, <1>8 DEF Now
  <2>6. ListTrue(p, n)' /\ TellTrue(p, n)' /\ ReadTrue(p, n)'
    BY <1>6, <1>8, <2>1, <2>2, <2>5, EmptyTyped DEF ListTrue, TellTrue, ReadTrue
  <2>7. NamesTrue(p, n)'
    <3>1. mirror[n] # 0 /\ tree[p][n] = 0 => Excused(p, n)
      BY <1>1, <2>1, Zenon DEF Row, RowTrue
    <3> QED BY <1>6, <1>8, <2>1, <2>2, <2>3, <3>1, EmptyTyped DEF NamesTrue
  <2> QED BY <2>4, <2>6, <2>7 DEF Row
<1> QED BY <1>1, <1>2, <1>4, <1>6, <1>7, <1>9, <1>10, <1>11, <1>12, RoundStep DEF MirrorInv, Types

\* RoundOver.
LEMMA RoundOverFacts ==
  ASSUME round \in [Pages -> Rounds], NEW p \in Pages, NEW done \in {"paused", "flushed"}, round' = RoundOver(p, done)
  PROVE  \E r \in Rounds : /\ round' = [round EXCEPT ![p] = r] /\ r.step = (IF round[p].final THEN done ELSE "idle")
                           /\ r.moved = round[p].moved /\ ~r.final /\ r.listing = {} /\ r.dirty = {} /\ r.read = {}
                           /\ r.remove = {} /\ r.changed = Empty
<1> DEFINE to == IF round[p].final THEN done ELSE "idle"
           r1 == [NoRound EXCEPT !.step = to]
           r == [r1 EXCEPT !.moved = round[p].moved]
<1>1. round[p] \in Rounds /\ to \in Steps
  BY DEF Steps
<1>2. round' = [round EXCEPT ![p] = r]
  BY DEF RoundOver
<1> HIDE DEF to
<1>3. r1 \in Rounds /\ r1.step = to /\ ~r1.final /\ r1.listing = {} /\ r1.dirty = {} /\ r1.read = {} /\ r1.remove = {}
      /\ r1.changed = Empty
  BY <1>1, NoneTyped DEF NoRound, Rounds
<1> HIDE DEF r1
<1>4. r \in Rounds /\ r.step = to /\ ~r.final /\ r.listing = {} /\ r.dirty = {} /\ r.read = {} /\ r.remove = {}
      /\ r.changed = Empty /\ r.moved = round[p].moved
  BY <1>1, <1>3 DEF Rounds
<1> HIDE DEF r
<1> QED BY <1>2, <1>4 DEF to

\* A round ends; the rows a flush says it kept, and the files it knows, are the tree's.
LEMMA RoundEnds ==
  ASSUME MirrorInv, NEW p \in Pages, NEW done \in {"paused", "flushed"}, round' = RoundOver(p, done), vm[p] = "ready",
         UNCHANGED <<cut, vm, claim, tree, whole, replay, flush, writer, applying, mirror, still, meant>>,
         spent' \in Purse, inbox' \in [Pages -> Seq(Messages)],
         clean' \in [Pages -> SUBSET Names], \A q \in Pages \ {p} : clean'[q] = clean[q],
         claim[p] = "owner" => \A n \in Private : /\ done = "flushed" /\ n \notin round[p].moved => Same(p, n)
                                                  /\ n \in clean'[p] /\ tree[p][n] # 0 => Same(p, n)
  PROVE  MirrorInv'
<1>1. PICK r \in Rounds : /\ round' = [round EXCEPT ![p] = r] /\ r.step = (IF round[p].final THEN done ELSE "idle")
                          /\ r.moved = round[p].moved /\ ~r.final /\ r.listing = {} /\ r.dirty = {} /\ r.read = {}
                          /\ r.remove = {} /\ r.changed = Empty
  BY RoundOverFacts DEF MirrorInv, Types
<1>2. round'[p] = r
  BY <1>1 DEF MirrorInv, Types
<1>3. r.final \/ r.step = "flushed" => flush[p]
  BY <1>1 DEF MirrorInv, Machine
<1>4. Apart(p)'
  BY <1>1, <1>2, EmptyTyped DEF Apart, Names
<1>5. ASSUME claim[p] = "owner", NEW n \in Private PROVE Row(p, n)'
  <2>1. Row(p, n)
    BY <1>5 DEF MirrorInv
  <2>2. vm' = vm /\ tree' = tree /\ replay' = replay /\ writer' = writer /\ mirror' = mirror /\ meant' = meant /\ still' = still
    OBVIOUS
  <2>3. (Excused(p, n)' <=> Excused(p, n)) /\ (Same(p, n)' <=> Same(p, n))
    BY <2>2, Zenon DEF Excused, Same
  <2>4. RowTrue(p, n)'
    <3>1. n \in clean'[p] /\ tree'[p][n] # 0 => Same(p, n)'
      BY <1>5, <2>2, <2>3
    <3> QED BY <2>1, <2>2, <2>3, <3>1, Zenon DEF Row, RowTrue, Restoring
  <2>5. ~Now(p, "names")' /\ ~Now(p, "read")' /\ ~Now(p, "tell")' /\ ~round'[p].final
    BY <1>1, <1>2 DEF Now
  <2>6. ListTrue(p, n)' /\ NamesTrue(p, n)' /\ ReadTrue(p, n)'
    BY <2>5, Zenon DEF ListTrue, NamesTrue, ReadTrue
  <2>7. TellTrue(p, n)'
    <3>1. Now(p, "flushed")' => round[p].final /\ done = "flushed"
      BY <1>1, <1>2 DEF Now
    <3>2. round[p].final /\ n \in still[p] => n \notin round[p].moved
      BY <2>1 DEF Row, TellTrue
    <3>3. Now(p, "flushed")' /\ n \in still'[p] => Same(p, n)'
      BY <1>5, <2>2, <2>3, <3>1, <3>2
    <3> QED BY <2>5, <3>3, Zenon DEF TellTrue
  <2> QED BY <2>4, <2>6, <2>7 DEF Row
<1> QED BY <1>1, <1>3, <1>4, <1>5, RoundStep

LEMMA SnapPauseStep == ASSUME MirrorInv, NEW p \in Pages, SnapPause(p) PROVE MirrorInv'
<1>1. Now(p, "names") /\ Spend("pause") /\ round' = RoundOver(p, "paused")
      /\ UNCHANGED <<cut, vm, claim, tree, clean, whole, replay, flush, writer, inbox, applying, mirror, still, meant>>
  BY DEF SnapPause
<1>2. vm[p] = "ready" /\ spent' \in Purse
  BY <1>1, InRound, Spending DEF MirrorInv, Types
<1>3. claim[p] = "owner" => \A n \in Private : n \in clean'[p] /\ tree[p][n] # 0 => Same(p, n)
  BY <1>1 DEF MirrorInv, Row, RowTrue
<1>4. "paused" # "flushed"
  OBVIOUS
<1>5. inbox' \in [Pages -> Seq(Messages)] /\ clean' \in [Pages -> SUBSET Names] /\ \A q \in Pages \ {p} : clean'[q] = clean[q]
  BY <1>1 DEF MirrorInv, Types
<1> QED BY <1>1, <1>2, <1>3, <1>4, <1>5, RoundEnds

LEMMA SnapTellStep == ASSUME MirrorInv, NEW p \in Pages, SnapTell(p) PROVE MirrorInv'
<1>1. Now(p, "tell") /\ round' = RoundOver(p, "flushed") /\ clean' = [clean EXCEPT ![p] = round[p].listing \ round[p].moved]
      /\ UNCHANGED <<cut, vm, claim, tree, whole, replay, flush, writer, applying, mirror, spent, still, meant>>
  BY DEF SnapTell, history
<1>2. vm[p] = "ready" /\ spent' \in Purse
  BY <1>1, InRound DEF MirrorInv, Types
<1>3. clean' \in [Pages -> SUBSET Names] /\ clean'[p] = round[p].listing \ round[p].moved
      /\ \A q \in Pages \ {p} : clean'[q] = clean[q]
  <2>1. round[p] \in Rounds
    BY DEF MirrorInv, Types
  <2>2. round[p].listing \ round[p].moved \in SUBSET Names
    BY <2>1 DEF Rounds
  <2> QED BY <1>1, <2>2 DEF MirrorInv, Types
<1>4. inbox' \in [Pages -> Seq(Messages)]
  <2> DEFINE a == News(Held(round[p].changed), FALSE)
             b == News(round[p].remove, TRUE)
  <2>1. a \in Seq(Messages) /\ b \in Seq(Messages)
    BY NewsTyped
  <2>2. Tell(p, a \o b)
    BY DEF SnapTell
  <2> HIDE DEF a, b
  <2>3. a \o b \in Seq(Messages)
    BY <2>1
  <2> QED BY <2>2, <2>3, TellTyped DEF MirrorInv, Types
<1>5. claim[p] = "owner" => \A n \in Private : n \notin round[p].moved => Same(p, n)
  BY <1>1 DEF MirrorInv, Row, TellTrue
<1> QED BY <1>1, <1>2, <1>3, <1>4, <1>5, RoundEnds

LEMMA SnapNamesStep == ASSUME MirrorInv, NEW p \in Pages, SnapNames(p) PROVE MirrorInv'
<1>1. Now(p, "names") /\ UNCHANGED <<cut, vm, claim, tree, clean, whole, replay, flush, writer, inbox, applying, mirror, spent, still, meant>>
  BY DEF SnapNames, history
<1>2. vm[p] = "ready" /\ round[p] \in Rounds
  BY <1>1, InRound DEF MirrorInv, Types
<1> DEFINE read == round[p].dirty \cup (round[p].listing \ RowsSeen(p))
           remove == RowsSeen(p) \ round[p].listing
           f1 == [round EXCEPT ![p].step = "read"]
           f2 == [f1 EXCEPT ![p].read = read]
           f3 == [f2 EXCEPT ![p].remove = remove]
           r1 == [round[p] EXCEPT !.step = "read"]
           r2 == [r1 EXCEPT !.read = read]
           r == [r2 EXCEPT !.remove = remove]
<1>3. RowsSeen(p) \subseteq Names
  BY DEF RowsSeen, Held
<1>4. read \in SUBSET Names /\ remove \in SUBSET Names
  BY <1>2, <1>3 DEF Rounds
<1>5. round' = f3
  BY DEF SnapNames
<1> HIDE DEF read, remove
<1>6. f1 = [round EXCEPT ![p] = r1]
  OBVIOUS
<1>7. f1[p] = r1
  BY <1>6 DEF MirrorInv, Types
<1> HIDE DEF f1
<1>8. f2 = [f1 EXCEPT ![p] = r2]
  BY <1>7
<1>9. f2 = [round EXCEPT ![p] = r2] /\ f2[p] = r2
  <2> HIDE DEF f2, r1, r2
  <2> QED BY <1>6, <1>8 DEF MirrorInv, Types
<1> HIDE DEF f2
<1>10. f3 = [f2 EXCEPT ![p] = r]
  BY <1>9
<1>11. f3 = [round EXCEPT ![p] = r] /\ f3[p] = r
  <2> HIDE DEF f3, r2, r
  <2> QED BY <1>9, <1>10 DEF MirrorInv, Types
<1> HIDE DEF f3
<1>12. r1 \in Rounds /\ r1.step = "read" /\ r1.final = round[p].final /\ r1.listing = round[p].listing
       /\ r1.moved = round[p].moved /\ r1.changed = round[p].changed /\ r1.dirty = round[p].dirty
  BY <1>2 DEF Rounds, Steps
<1> HIDE DEF r1
<1>13. r2 \in Rounds /\ r2.step = "read" /\ r2.final = round[p].final /\ r2.listing = round[p].listing
       /\ r2.moved = round[p].moved /\ r2.changed = round[p].changed /\ r2.dirty = round[p].dirty /\ r2.read = read
  BY <1>4, <1>12 DEF Rounds
<1> HIDE DEF r2
<1>14. r \in Rounds /\ r.step = "read" /\ r.final = round[p].final /\ r.listing = round[p].listing
       /\ r.moved = round[p].moved /\ r.changed = round[p].changed /\ r.dirty = round[p].dirty /\ r.read = read
       /\ r.remove = remove
  BY <1>4, <1>13 DEF Rounds
<1> HIDE DEF r
<1>15. round' = [round EXCEPT ![p] = r] /\ round'[p] = r
  BY <1>5, <1>11
<1>16. r.final \/ r.step = "flushed" => flush[p]
  BY <1>14 DEF MirrorInv, Machine
<1>17. Apart(p)'
  <2>1. Apart(p) /\ claim' = claim
    BY <1>1 DEF MirrorInv
  <2> QED BY <1>14, <1>15, <2>1, ShareMirrorAssumption DEF Apart, read, remove, RowsSeen, ShareMirrorAssumption
<1>18. ASSUME claim[p] = "owner", NEW n \in Private PROVE Row(p, n)'
  <2>1. Row(p, n) /\ n \in Names
    BY <1>18 DEF MirrorInv, Names
  <2>2. vm' = vm /\ tree' = tree /\ clean' = clean /\ replay' = replay /\ writer' = writer /\ mirror' = mirror /\ meant' = meant
        /\ still' = still
    BY <1>1
  <2>3. (Excused(p, n)' <=> Excused(p, n)) /\ (Same(p, n)' <=> Same(p, n))
    BY <2>2, Zenon DEF Excused, Same
  <2>4. RowTrue(p, n)'
    BY <2>1, <2>2, <2>3, Zenon DEF Row, RowTrue, Restoring
  <2>5. Now(p, "read")' /\ ~Now(p, "names")' /\ ~Now(p, "tell")' /\ ~Now(p, "flushed")'
    BY <1>14, <1>15 DEF Now
  <2>6. ListTrue(p, n)' /\ TellTrue(p, n)' /\ NamesTrue(p, n)'
    BY <1>1, <1>14, <1>15, <2>1, <2>2, <2>5 DEF Row, ListTrue, TellTrue, NamesTrue
  <2>7. ReadTrue(p, n)'
    <3>1. n \in RowsSeen(p) <=> mirror[n] # 0
      BY <1>18, <2>1 DEF RowsSeen, Held
    <3>2. /\ n \notin round[p].listing /\ mirror[n] # 0 => Excused(p, n) \/ n \in round[p].moved
          /\ n \notin round[p].moved /\ n \in round[p].listing /\ n \notin round[p].dirty => n \in clean[p]
          /\ round[p].changed[n] = 0
      BY <1>1, <2>1 DEF Row, NamesTrue
    <3>3. n \notin round[p].moved => (n \in round[p].listing <=> tree[p][n] # 0)
      BY <1>1, <2>1 DEF Row, ListTrue
    <3>4. n \in clean[p] /\ tree[p][n] # 0 => Same(p, n)
      BY <2>1 DEF Row, RowTrue
    <3>5. (n \in read <=> n \in round[p].dirty \/ (n \in round[p].listing /\ mirror[n] = 0))
          /\ (n \in remove <=> mirror[n] # 0 /\ n \notin round[p].listing)
      BY <3>1 DEF read, remove
    <3>6. mirror'[n] = mirror[n] /\ tree'[p][n] = tree[p][n]
      BY <2>2
    <3> QED BY <1>14, <1>15, <2>3, <3>2, <3>3, <3>4, <3>5, <3>6 DEF ReadTrue
  <2> QED BY <2>4, <2>6, <2>7 DEF Row
<1> QED
  <2>1. spent' \in Purse /\ inbox' \in [Pages -> Seq(Messages)] /\ clean' \in [Pages -> SUBSET Names]
        /\ \A q \in Pages \ {p} : clean'[q] = clean[q]
    BY <1>1 DEF MirrorInv, Types
  <2> QED BY <1>1, <1>2, <1>14, <1>15, <1>16, <1>17, <1>18, <2>1, RoundStep

LEMMA SnapReadStep == ASSUME MirrorInv, NEW p \in Pages, NEW n \in Names, SnapRead(p, n) PROVE MirrorInv'
<1>1. Now(p, "read") /\ n \in round[p].read
      /\ UNCHANGED <<cut, vm, claim, tree, clean, whole, replay, flush, writer, inbox, applying, mirror, spent, still, meant>>
  BY DEF SnapRead, history
<1>2. vm[p] = "ready" /\ round[p] \in Rounds /\ tree[p][n] \in Nat
  BY <1>1, InRound DEF MirrorInv, Types
<1> DEFINE read == round[p].read \ {n}
           listing == IF tree[p][n] = 0 THEN round[p].listing \ {n} ELSE round[p].listing
           v == IF Settled(p, n) THEN 0 ELSE tree[p][n]
           changed == [round[p].changed EXCEPT ![n] = v]
           f1 == [round EXCEPT ![p].read = round[p].read \ {n}]
           f2 == [f1 EXCEPT ![p].listing = IF tree[p][n] = 0 THEN f1[p].listing \ {n} ELSE f1[p].listing]
           f3 == [f2 EXCEPT ![p].changed[n] = v]
           r1 == [round[p] EXCEPT !.read = read]
           r2 == [r1 EXCEPT !.listing = listing]
           r == [r2 EXCEPT !.changed = changed]
<1>3. read \in SUBSET Names /\ listing \in SUBSET Names /\ v \in Nat
  BY <1>2 DEF Rounds
<1>4. changed \in [Names -> Nat] /\ changed[n] = v /\ \A m \in Names \ {n} : changed[m] = round[p].changed[m]
  <2>1. round[p].changed \in [Names -> Nat]
    BY <1>2 DEF Rounds
  <2> HIDE DEF v
  <2> QED BY <1>3, <2>1
<1>5. round' = f3
  BY DEF SnapRead
<1>6. f1 = [round EXCEPT ![p] = r1]
  OBVIOUS
<1> HIDE DEF f1, v
<1>7. f1 \in [Pages -> Rounds] /\ f1[p] = r1 /\ r1.step = "read" /\ r1.final = round[p].final /\ r1.dirty = round[p].dirty
      /\ r1.moved = round[p].moved /\ r1.remove = round[p].remove /\ r1.read = read /\ r1.listing = round[p].listing
      /\ r1.changed = round[p].changed /\ r1 \in Rounds
  <2>1. r1.step = "read" /\ r1.final = round[p].final /\ r1.dirty = round[p].dirty
      /\ r1.moved = round[p].moved /\ r1.remove = round[p].remove /\ r1.read = read /\ r1.listing = round[p].listing
      /\ r1.changed = round[p].changed /\ r1 \in Rounds
    BY <1>1, <1>2, <1>3 DEF Rounds, Now
  <2> HIDE DEF r1
  <2> QED BY <1>6, <2>1 DEF MirrorInv, Types
<1> HIDE DEF read, r1
<1>8. f2 = [f1 EXCEPT ![p] = r2]
  BY <1>7
<1>9. r2 \in Rounds /\ r2.step = "read" /\ r2.final = round[p].final /\ r2.dirty = round[p].dirty
      /\ r2.moved = round[p].moved /\ r2.remove = round[p].remove /\ r2.read = read /\ r2.listing = listing
      /\ r2.changed = round[p].changed
  <2> HIDE DEF listing
  <2> QED BY <1>3, <1>7 DEF Rounds
<1> HIDE DEF f2, r2
<1>10. f2 = [round EXCEPT ![p] = r2] /\ f2[p] = r2
  <2> HIDE DEF listing
  <2> QED BY <1>6, <1>7, <1>8, <1>9 DEF MirrorInv, Types
<1> HIDE DEF listing
<1>11. f3 = [f2 EXCEPT ![p] = r]
  <2>1. f3 = [f2 EXCEPT ![p] = [f2[p] EXCEPT !.changed = [f2[p].changed EXCEPT ![n] = v]]]
    OBVIOUS
  <2>2. r = [f2[p] EXCEPT !.changed = [f2[p].changed EXCEPT ![n] = v]]
    BY <1>9, <1>10
  <2> HIDE DEF f3, r
  <2> QED BY <2>1, <2>2
<1> HIDE DEF f3, changed
<1>12. r \in Rounds /\ r.step = "read" /\ r.final = round[p].final /\ r.dirty = round[p].dirty
       /\ r.moved = round[p].moved /\ r.remove = round[p].remove /\ r.read = read /\ r.listing = listing
       /\ r.changed = changed
  BY <1>4, <1>9 DEF Rounds
<1> HIDE DEF r
<1>13. round' = [round EXCEPT ![p] = r] /\ round'[p] = r
  BY <1>5, <1>10, <1>11 DEF MirrorInv, Types
<1>14. r.final \/ r.step = "flushed" => flush[p]
  BY <1>12 DEF MirrorInv, Machine
<1>15. \A m \in Names \ {n} : (m \in read <=> m \in round[p].read) /\ (m \in listing <=> m \in round[p].listing)
  BY DEF read, listing
<1>16. n \notin read /\ (n \in listing <=> n \in round[p].listing /\ tree[p][n] # 0)
  BY DEF read, listing
<1>17. Apart(p)'
  <2>1. SUFFICES ASSUME claim[p] # "owner", NEW m \in Private
                 PROVE  m \notin listing /\ m \notin round[p].dirty /\ m \notin read /\ m \notin round[p].remove /\ changed[m] = 0
    BY <1>1, <1>12, <1>13 DEF Apart
  <2>2. m \notin round[p].listing /\ m \notin round[p].dirty /\ m \notin round[p].read /\ m \notin round[p].remove
        /\ round[p].changed[m] = 0
    BY <2>1 DEF MirrorInv, Apart
  <2>3. m # n /\ m \in Names
    BY <1>1, <2>2 DEF Names
  <2> QED BY <1>4, <1>15, <2>2, <2>3
<1>18. ASSUME claim[p] = "owner", NEW m \in Private PROVE Row(p, m)'
  <2>1. Row(p, m) /\ m \in Names
    BY <1>18 DEF MirrorInv, Names
  <2>2. vm' = vm /\ tree' = tree /\ clean' = clean /\ replay' = replay /\ writer' = writer /\ mirror' = mirror /\ meant' = meant
        /\ still' = still
    BY <1>1
  <2>3. CASE m # n
    <3>1. changed[m] = round[p].changed[m]
      BY <1>4, <2>1, <2>3
    <3>2. (m \in read <=> m \in round[p].read) /\ (m \in listing <=> m \in round[p].listing)
      BY <1>15, <2>1, <2>3
    <3>3. round[p].step = "read"
      BY <1>1 DEF Now
    <3>4. Untouched(p, m)
      BY <1>12, <1>13, <2>2, <3>1, <3>2, <3>3 DEF Untouched
    <3> QED BY <2>1, <3>4, RowUntouched
  <2>4. CASE m = n
    <3>1. (Excused(p, n)' <=> Excused(p, n)) /\ (Same(p, n)' <=> Same(p, n))
      BY <2>2, Zenon DEF Excused, Same
    <3>2. RowTrue(p, n)'
      BY <2>1, <2>2, <2>4, <3>1, Zenon DEF Row, RowTrue, Restoring
    <3>3. Now(p, "read")' /\ ~Now(p, "names")' /\ ~Now(p, "tell")' /\ ~Now(p, "flushed")'
      BY <1>12, <1>13 DEF Now
    <3>4. changed[n] = tree[p][n]
      <4>1. n \notin Shared
        BY <2>4, ShareMirrorAssumption DEF ShareMirrorAssumption
      <4> QED BY <1>4, <4>1 DEF v, Settled
    <3>5. n \notin round[p].moved \/ n \in clean[p] => (n \in round[p].listing <=> tree[p][n] # 0)
      BY <1>1, <2>1, <2>4 DEF Row, ListTrue
    <3>6. ListTrue(p, n)'
      BY <1>12, <1>13, <1>16, <2>2, <3>4, <3>5 DEF ListTrue
    <3>7. NamesTrue(p, n)' /\ TellTrue(p, n)'
      BY <1>12, <1>13, <2>1, <2>2, <2>4, <3>3 DEF Row, NamesTrue, TellTrue
    <3>8. /\ n \in round[p].remove => Excused(p, n) \/ n \in round[p].moved
          /\ n \in round[p].listing => n \notin round[p].remove
          /\ n \notin round[p].moved /\ n \notin round[p].listing /\ n \notin round[p].remove => mirror[n] = 0
      BY <1>1, <2>1, <2>4 DEF Row, ReadTrue
    <3>9. tree'[p][n] = tree[p][n] /\ mirror'[n] = mirror[n]
      BY <2>2
    <3>10. ReadTrue(p, n)'
      BY <1>12, <1>13, <1>16, <3>1, <3>4, <3>5, <3>8, <3>9 DEF ReadTrue
    <3> QED BY <2>4, <3>2, <3>6, <3>7, <3>10 DEF Row
  <2> QED BY <2>3, <2>4
<1> QED
  <2>1. spent' \in Purse /\ inbox' \in [Pages -> Seq(Messages)] /\ clean' \in [Pages -> SUBSET Names]
        /\ \A q \in Pages \ {p} : clean'[q] = clean[q]
    BY <1>1 DEF MirrorInv, Types
  <2> QED BY <1>1, <1>2, <1>12, <1>13, <1>14, <1>17, <1>18, <2>1, RoundStep

\* What a round stores of a private name: nothing, for a page that is not the owner.
LEMMA Stored ==
  ASSUME MirrorInv, NEW p \in Pages, SnapCommit(p)
  PROVE  /\ \A n \in Names : mirror'[n] = IF round[p].changed[n] # 0 THEN round[p].changed[n]
                                          ELSE IF n \in round[p].remove THEN 0 ELSE mirror[n]
         /\ mirror' \in [Names -> Nat]
         /\ claim[p] # "owner" => \A n \in Private : mirror'[n] = mirror[n]
<1>1. \A n \in Names : mirror'[n] = IF round[p].changed[n] # 0 THEN round[p].changed[n]
                                    ELSE IF n \in round[p].remove THEN 0 ELSE mirror[n]
  BY DEF SnapCommit
<1>2. mirror' \in [Names -> Nat]
  <2>1. round[p].changed \in [Names -> Nat] /\ mirror \in [Names -> Nat]
    BY DEF MirrorInv, Types, Rounds
  <2> QED BY <2>1 DEF SnapCommit
<1>3. claim[p] # "owner" => \A n \in Private : mirror'[n] = mirror[n]
  BY <1>1 DEF MirrorInv, Apart, Names
<1> QED BY <1>1, <1>2, <1>3

LEMMA SnapCommitStep == ASSUME MirrorInv, NEW p \in Pages, SnapCommit(p) PROVE MirrorInv'
<1>1. Now(p, "read") /\ round[p].read = {}
      /\ vm' = vm /\ claim' = claim /\ tree' = tree /\ clean' = clean /\ whole' = whole /\ cut' = cut /\ replay' = replay /\ flush' = flush
      /\ writer' = writer /\ inbox' = inbox /\ applying' = applying /\ spent' = spent /\ still' = still /\ meant' = meant
  BY DEF SnapCommit, history
<1>2. vm[p] = "ready" /\ round[p] \in Rounds /\ round[p].step = "read"
  BY <1>1, InRound DEF MirrorInv, Types, Now
<1> DEFINE r == [round[p] EXCEPT !.step = "tell"]
<1>3. r \in Rounds /\ r.step = "tell" /\ r.final = round[p].final /\ r.dirty = round[p].dirty
       /\ r.moved = round[p].moved /\ r.remove = round[p].remove /\ r.read = round[p].read /\ r.listing = round[p].listing
       /\ r.changed = round[p].changed
  BY <1>2 DEF Rounds, Steps
<1>4. round' = [round EXCEPT ![p] = r]
  BY DEF SnapCommit
<1> HIDE DEF r
<1>5. round' \in [Pages -> Rounds] /\ round'[p] = r /\ \A q \in Pages \ {p} : round'[q] = round[q]
  BY <1>3, <1>4 DEF MirrorInv, Types
<1>6. Types'
  <2>1. mirror' \in [Names -> Nat]
    BY Stored
  <2> QED BY <1>1, <1>5, <2>1, Zenon DEF MirrorInv, Types
<1>7. LocalStep(p)
  <2>1. Harmless(p)
    BY <1>1, Stored DEF Harmless
  <2> QED BY <1>1, <1>5, <2>1 DEF LocalStep, PageSame, Claiming
<1>8. Machine(p)'
  <2>1. Machine(p) /\ vm'[p] # "off"
    BY <1>1, <1>2 DEF MirrorInv
  <2>2. round'[p].final = round[p].final /\ ~Now(p, "flushed")'
    BY <1>3, <1>5 DEF Now
  <2> QED BY <1>1, <2>1, <2>2, Zenon DEF Machine, Restoring
<1>9. PlanTrue(p)'
  BY <1>1, PlanStays DEF MirrorInv
<1>10. Apart(p)'
  <2>1. Apart(p)
    BY DEF MirrorInv
  <2> QED BY <1>1, <1>3, <1>5, <2>1, Zenon DEF Apart
<1>11. ASSUME claim'[p] = "owner", NEW n \in Private PROVE Row(p, n)'
  <2>1. Row(p, n) /\ n \in Names
    BY <1>1, <1>11 DEF MirrorInv, Names
  <2>2. mirror'[n] = IF round[p].changed[n] # 0 THEN round[p].changed[n] ELSE IF n \in round[p].remove THEN 0 ELSE mirror[n]
    BY <2>1, Stored
  <2>3. Excused(p, n)' <=> Excused(p, n)
    BY <1>1, Zenon DEF Excused
  <2>4. tree'[p][n] = tree[p][n] /\ writer'[p] = writer[p] /\ vm'[p] = vm[p] /\ replay'[p] = replay[p] /\ clean'[p] = clean[p]
        /\ still'[p] = still[p]
    BY <1>1
  <2>5. /\ n \in round[p].remove => Excused(p, n) \/ n \in round[p].moved
        /\ n \in round[p].listing => n \notin round[p].remove
        /\ round[p].changed[n] # 0 /\ tree[p][n] = 0 => Excused(p, n)
        /\ n \notin round[p].moved =>
             /\ n \in round[p].listing /\ n \notin round[p].read /\ round[p].changed[n] = 0 => Same(p, n)
             /\ n \notin round[p].listing /\ n \notin round[p].remove => mirror[n] = 0
    BY <1>1, <2>1 DEF Row, ReadTrue
  <2>6. n \notin round[p].moved \/ n \in clean[p] =>
          (n \in round[p].listing <=> tree[p][n] # 0) /\ round[p].changed[n] \in {0, tree[p][n]}
    BY <1>1, <2>1 DEF Row, ListTrue
  <2>7. RowTrue(p, n)'
    <3>1. vm[p] = "ready" /\ mirror[n] # 0 /\ tree[p][n] = 0 => Excused(p, n) \/ (Restoring(p) /\ n \in replay[p].left)
      BY <2>1 DEF Row, RowTrue
    <3>2. mirror'[n] # 0 /\ tree[p][n] = 0 => Excused(p, n) \/ mirror[n] # 0
      BY <2>2, <2>5
    <3>3. vm'[p] = "ready" /\ mirror'[n] # 0 /\ tree'[p][n] = 0 => Excused(p, n)' \/ (Restoring(p)' /\ n \in replay'[p].left)
      BY <2>3, <2>4, <3>1, <3>2 DEF Restoring
    <3>4. vm'[p] = "ready" /\ writer'[p].plan = <<"row">> /\ writer'[p].name = n => tree'[p][n] = writer'[p].version
      BY <2>1, <2>4, Zenon DEF Row, RowTrue
    <3>5. n \in clean[p] /\ tree[p][n] # 0 => Same(p, n)
      BY <2>1 DEF Row, RowTrue
    <3>6. n \in clean'[p] /\ tree'[p][n] # 0 => Same(p, n)'
      BY <2>2, <2>4, <2>5, <2>6, <3>5 DEF Same
    <3> QED BY <3>3, <3>4, <3>6, Zenon DEF RowTrue
  <2>8. ~Now(p, "names")' /\ ~Now(p, "read")' /\ ~Now(p, "flushed")'
    BY <1>3, <1>5 DEF Now
  <2>9. ListTrue(p, n)' /\ NamesTrue(p, n)' /\ ReadTrue(p, n)'
    BY <2>8, Zenon DEF ListTrue, NamesTrue, ReadTrue
  <2>10. TellTrue(p, n)'
    <3>1. n \notin round[p].moved => Same(p, n)'
      BY <1>1, <2>2, <2>4, <2>5, <2>6 DEF Same
    <3>2. round[p].final /\ n \in still[p] => n \notin round[p].moved
      BY <2>1 DEF Row, TellTrue
    <3> QED BY <1>3, <1>5, <2>4, <2>8, <3>1, <3>2 DEF TellTrue
  <2> QED BY <2>7, <2>9, <2>10 DEF Row
<1> QED BY <1>1, <1>6, <1>7, <1>8, <1>9, <1>10, <1>11, Compose DEF Stays

----------------------------------------------------------------------------
(* The invariant of the specification.                                     *)

LEMMA InitMirror == ASSUME Init PROVE MirrorInv
<1>1. Types
  <2>1. /\ vm \in [Pages -> {"off", "ready"}] /\ claim \in [Pages -> {"unasked", "owner", "other"}]
        /\ clean \in [Pages -> SUBSET Names] /\ whole \in [Pages -> BOOLEAN] /\ flush \in [Pages -> BOOLEAN]
        /\ still \in [Pages -> SUBSET Names] /\ meant \in SUBSET Names
    BY DEF Init
  <2>2. tree \in [Pages -> [Names -> Nat]] /\ mirror \in [Names -> Nat]
    BY EmptyTyped DEF Init
  <2>3. replay \in [Pages -> Replays] /\ round \in [Pages -> Rounds] /\ writer \in [Pages -> Writers]
    BY NoneTyped DEF Init
  <2>4. inbox \in [Pages -> Seq(Messages)] /\ applying \in [Pages -> Seq(Copies)]
    <3>1. <<>> \in Seq(Messages) /\ <<>> \in Seq(Copies)
      OBVIOUS
    <3> QED BY <3>1 DEF Init
  <2>5. spent \in Purse
    BY DEF Init, Purse
  <2>6. cut \in SUBSET Pages
    BY DEF Init
  <2> QED BY <2>6, <2>1, <2>2, <2>3, <2>4, <2>5 DEF Types
<1>2. OneOwner
  BY DEF Init, OneOwner
<1>3. ASSUME NEW p \in Pages PROVE Machine(p) /\ PlanTrue(p) /\ Apart(p) /\ claim[p] # "owner"
  <2>1. vm[p] = "off" /\ claim[p] = "unasked" /\ tree[p] = Empty /\ ~whole[p] /\ replay[p] = NoReplay /\ round[p] = NoRound
        /\ ~flush[p] /\ writer[p] = NoWriter
    BY DEF Init
  <2>2. NoReplay.on = FALSE /\ NoReplay.left = {} /\ NoRound.step = "idle" /\ NoRound.final = FALSE
    BY DEF NoReplay, NoRound
  <2>3. Machine(p)
    BY <2>1, <2>2 DEF Machine, Now, Restoring
  <2>4. Apart(p)
    BY <2>1, EmptyTyped DEF Apart, NoRound, Names
  <2>5. PlanTrue(p)
    BY <2>1, NoPlan DEF PlanTrue
  <2> QED BY <2>1, <2>3, <2>4, <2>5
<1> QED BY <1>1, <1>2, <1>3 DEF MirrorInv

LEMMA StepMirror == ASSUME MirrorInv, NEW p \in Pages, Step(p) PROVE MirrorInv'
<1>1. CASE PowerOn(p) \/ RestoreEnd(p) \/ PressOff(p) \/ Destroy(p) \/ Die(p)
  BY <1>1, PowerOnStep, RestoreEndStep, PressOffStep, DestroyStep, DieStep
<1>2. CASE SnapList(p) \/ SnapPause(p) \/ SnapNames(p) \/ SnapCommit(p) \/ SnapTell(p)
  BY <1>2, SnapListStep, SnapPauseStep, SnapNamesStep, SnapCommitStep, SnapTellStep
<1>3. CASE HearRemoved(p) \/ HearChanged(p) \/ Apply(p) \/ WriteRow(p) \/ WriteLive(p) \/ WriteTell(p)
  BY <1>3, HearRemovedStep, HearChangedStep, ApplyStep, WriteRowStep, WriteLiveStep, WriteTellStep
<1>4. ASSUME NEW n \in Names, \/ RestoreFile(p, n) \/ GuestWrite(p, n) \/ GuestDelete(p, n) \/ SnapRead(p, n)
                              \/ BeginLand(p, n) \/ BeginDrop(p, n) \/ BeginShare(p, n) \/ RemoveRow(p, n)
      PROVE MirrorInv'
  BY <1>4, RestoreFileStep, GuestWriteStep, GuestDeleteStep, SnapReadStep, BeginsStep, RemoveRowStep
<1> QED BY <1>1, <1>2, <1>3, <1>4 DEF Step

LEMMA StillMirror == ASSUME MirrorInv, UNCHANGED vars PROVE MirrorInv'
<1>1. /\ vm' = vm /\ claim' = claim /\ tree' = tree /\ clean' = clean /\ whole' = whole /\ cut' = cut /\ replay' = replay /\ round' = round
      /\ flush' = flush /\ writer' = writer /\ inbox' = inbox /\ applying' = applying /\ mirror' = mirror
      /\ spent' = spent /\ still' = still /\ meant' = meant
  BY DEF vars, pageVars, history
<1>2. Types' /\ OneOwner'
  BY <1>1, Zenon DEF MirrorInv, Types, OneOwner
<1>3. \A p \in Pages : PageSame(p)
  BY <1>1 DEF PageSame
<1>4. \A p \in Pages : (Machine(p) /\ PlanTrue(p) /\ Apart(p))'
  BY <1>3, OtherPage DEF MirrorInv
<1>5. \A p \in Pages : claim'[p] = "owner" => \A n \in Private : Row(p, n)'
  BY <1>1, <1>3, OtherRow DEF MirrorInv
<1> QED BY <1>2, <1>4, <1>5 DEF MirrorInv

\* The owner's private rows, whoever the owner is and wherever its machine, its
\* round and its writers are.
THEOREM MirrorHolds == Spec => []MirrorInv
<1>1. Init => MirrorInv
  BY InitMirror
<1>2. MirrorInv /\ [Next]_vars => MirrorInv'
  BY StepMirror, StillMirror DEF Next
<1> QED BY <1>1, <1>2, PTL DEF Spec

\* whole is said of a machine that is up and whose replay has landed, and of no
\* other but one whose replay a power-off overtook, until the next has landed
\* (share-store.ts, the state listener and restore).
THEOREM WholeIsReplayed == Spec => []WholeMeansReplayed
<1>1. MirrorInv => WholeMeansReplayed
  BY DEF MirrorInv, Machine, WholeMeansReplayed
<1> QED BY <1>1, MirrorHolds, PTL

----------------------------------------------------------------------------
(* What a step may do to a row.                                            *)

\* A step that stores or removes private rows is a commit, a writer's row or an
\* uninstall.
LEMMA WhoStores ==
  ASSUME NEW p \in Pages, Step(p)
  PROVE  \/ mirror' = mirror \/ SnapCommit(p) \/ WriteRow(p) \/ \E n \in Names : RemoveRow(p, n)
<1>1. CASE PowerOn(p) \/ RestoreEnd(p) \/ PressOff(p) \/ Destroy(p) \/ Die(p)
  BY <1>1 DEF PowerOn, RestoreEnd, PressOff, Destroy, Die
<1>2. CASE SnapList(p) \/ SnapPause(p) \/ SnapNames(p) \/ SnapCommit(p) \/ SnapTell(p)
  BY <1>2 DEF SnapList, SnapPause, SnapNames, SnapTell
<1>3. CASE HearRemoved(p) \/ HearChanged(p) \/ Apply(p) \/ WriteRow(p) \/ WriteLive(p) \/ WriteTell(p)
  BY <1>3 DEF HearRemoved, HearChanged, Apply, WriteLive, WriteTell
<1>4. ASSUME NEW n \in Names, \/ RestoreFile(p, n) \/ GuestWrite(p, n) \/ GuestDelete(p, n) \/ SnapRead(p, n)
                              \/ BeginLand(p, n) \/ BeginDrop(p, n) \/ BeginShare(p, n) \/ RemoveRow(p, n)
      PROVE mirror' = mirror \/ RemoveRow(p, n)
  BY <1>4 DEF RestoreFile, GuestWrite, GuestDelete, SnapRead, BeginLand, BeginDrop, BeginShare, Begin
<1> QED BY <1>1, <1>2, <1>3, <1>4 DEF Step

\* A private row a page writes is the owner's.
LEMMA RowWritten ==
  ASSUME MirrorInv, NEW p \in Pages, WriteRow(p)
  PROVE  /\ writer[p].name \in Names /\ writer[p].version \in Nat \ {0}
         /\ \A n \in Names : mirror'[n] = IF n = writer[p].name THEN writer[p].version ELSE mirror[n]
         /\ writer[p].name \in Private => claim[p] = "owner"
<1>1. writer[p] \in Writers /\ writer[p].plan # <<>> /\ Head(writer[p].plan) = "row" /\ PlanTrue(p)
  BY DEF WriteRow, Next1, MirrorInv, Types
<1>2. writer[p].plan \in Plans /\ writer[p].version \in Nat
  BY <1>1 DEF Writers
<1>3. writer[p].name \in Names /\ writer[p].version # 0
  BY <1>1 DEF PlanTrue
<1>4. \A n \in Names : mirror'[n] = IF n = writer[p].name THEN writer[p].version ELSE mirror[n]
  BY <1>3 DEF WriteRow, MirrorInv, Types
<1>5. writer[p].plan \notin {<<>>, <<"live">>}
  <2>1. Head(<<"live">>) = "live"
    OBVIOUS
  <2> QED BY <1>1, <2>1
<1> QED BY <1>1, <1>2, <1>3, <1>4, <1>5 DEF PlanTrue

LEMMA NoRowLost ==
  ASSUME MirrorInv, NEW p \in Pages, Step(p), NEW n \in Private, mirror[n] # 0, mirror'[n] = 0
  PROVE  n \in meant' \/ \E q \in Pages : claim[q] = "owner" /\ (n \in round[q].moved \/ writer[q].name = n)
<1>0. n \in Names
  BY DEF Names
<1>1. CASE mirror' = mirror
  BY <1>1
<1>2. CASE SnapCommit(p)
  <2>1. claim[p] = "owner" /\ round[p].changed[n] = 0 /\ n \in round[p].remove
    BY <1>0, <1>2, Stored
  <2>2. Now(p, "read") /\ meant' = meant
    BY <1>2 DEF SnapCommit, history
  <2>3. Excused(p, n) \/ n \in round[p].moved
    BY <2>1, <2>2 DEF MirrorInv, Row, ReadTrue
  <2> QED BY <2>1, <2>2, <2>3 DEF Excused
<1>3. CASE WriteRow(p)
  BY <1>0, <1>3, RowWritten
<1>4. ASSUME NEW m \in Names, RemoveRow(p, m) PROVE n \in meant'
  BY <1>0, <1>4 DEF RemoveRow, MirrorInv, Types
<1> QED BY <1>1, <1>2, <1>3, <1>4, WhoStores

\* Only the end of a flush switches a machine off that keeps its name.
LEMMA WhoGoesDown ==
  ASSUME MirrorInv, NEW p \in Pages, Step(p), NEW q \in Pages, vm[q] = "ready", vm'[q] = "off", claim'[q] = "owner"
  PROVE  q = p /\ Destroy(p)
<1>0. vm \in [Pages -> {"off", "ready"}] /\ claim \in [Pages -> {"unasked", "owner", "other"}] /\ vm' # vm
  BY DEF MirrorInv, Types
<1>1. CASE PowerOn(p) \/ RestoreEnd(p) \/ PressOff(p)
  BY <1>0, <1>1 DEF PowerOn, RestoreEnd, PressOff
<1>2. CASE Destroy(p)
  BY <1>0, <1>2 DEF Destroy
<1>3. CASE Die(p)
  BY <1>0, <1>3 DEF Die
<1>4. CASE SnapList(p) \/ SnapPause(p) \/ SnapNames(p) \/ SnapCommit(p) \/ SnapTell(p)
  BY <1>0, <1>4 DEF SnapList, SnapPause, SnapNames, SnapCommit, SnapTell
<1>5. CASE HearRemoved(p) \/ HearChanged(p) \/ Apply(p) \/ WriteRow(p) \/ WriteLive(p) \/ WriteTell(p)
  BY <1>0, <1>5 DEF HearRemoved, HearChanged, Apply, WriteRow, WriteLive, WriteTell
<1>6. ASSUME NEW n \in Names, \/ RestoreFile(p, n) \/ GuestWrite(p, n) \/ GuestDelete(p, n) \/ SnapRead(p, n)
                              \/ BeginLand(p, n) \/ BeginDrop(p, n) \/ BeginShare(p, n) \/ RemoveRow(p, n)
      PROVE FALSE
  BY <1>0, <1>6 DEF RestoreFile, GuestWrite, GuestDelete, SnapRead, BeginLand, BeginDrop, BeginShare, Begin, RemoveRow
<1> QED BY <1>1, <1>2, <1>3, <1>4, <1>5, <1>6 DEF Step

LEMMA NothingLostAtDestroy ==
  ASSUME MirrorInv, NEW p \in Pages, Step(p), NEW q \in Pages,
         flush[q], vm'[q] = "off", claim'[q] = "owner", ~Restoring(q), ~Now(q, "paused"), NEW n \in still[q] \cap Private
  PROVE  writer[q].name = n \/ mirror[n] = tree[q][n]
<1>1. vm[q] = "ready"
  BY DEF MirrorInv, Machine
<1>2. Destroy(q)
  BY <1>1, WhoGoesDown
<1>3. claim[q] = "owner" /\ Now(q, "flushed")
  BY <1>1, <1>2 DEF Destroy, Flushed
<1>4. Row(q, n)
  BY <1>3 DEF MirrorInv
<1> QED BY <1>3, <1>4 DEF Row, TellTrue, Same

\* A private row is lost only when the owner's guest or page removed the file, or
\* while a writer is at it; and a power-off loses nothing the guest had written
\* when it was pressed (share.ts: restore, snapshot, flushMirror; vm.ts: powerOff).
THEOREM OwnersRowsAreKept == Spec => RowsKept
<1> DEFINE A == \A n \in Private : mirror[n] # 0 /\ mirror'[n] = 0 =>
                   n \in meant' \/ \E p \in Pages : claim[p] = "owner"
                                    /\ (n \in round[p].moved \/ writer[p].name = n)
           B == \A p \in Pages : flush[p] /\ vm'[p] = "off" /\ claim'[p] = "owner" /\ ~Restoring(p) /\ ~Now(p, "paused") =>
                   \A n \in still[p] \cap Private : writer[p].name = n \/ mirror[n] = tree[p][n]
<1>1. MirrorInv /\ [Next]_vars => [A]_vars
  BY NoRowLost DEF Next
<1>2. MirrorInv /\ [Next]_vars => [B]_vars
  BY NothingLostAtDestroy DEF Next
<1>3. RowsKept <=> [][A]_vars /\ [][B]_vars
  BY DEF RowsKept
<1> HIDE DEF A, B
<1> QED BY <1>1, <1>2, <1>3, MirrorHolds, PTL DEF Spec

\* What is stored under a private name came from the owner's tree or the owner's
\* page (share.ts: listing and storing the private tier only for the claim).
THEOREM OwnersRowsAreTheirs == Spec => RowsAreTheOwners
<1> DEFINE C == \A n \in Private : mirror'[n] \notin {0, mirror[n]} =>
                   \E p \in Pages : claim[p] = "owner"
                     /\ (round'[p].changed[n] = mirror'[n] \/ writer[p].version = mirror'[n])
<1>1. ASSUME MirrorInv, NEW p \in Pages, Step(p), NEW n \in Private, mirror'[n] \notin {0, mirror[n]}
      PROVE  claim[p] = "owner" /\ (round'[p].changed[n] = mirror'[n] \/ writer[p].version = mirror'[n])
  <2>0. n \in Names
    BY DEF Names
  <2>1. CASE SnapCommit(p)
    <3>1. claim[p] = "owner" /\ mirror'[n] = round[p].changed[n]
      BY <1>1, <2>0, <2>1, Stored
    <3>2. round[p] \in Rounds /\ round' = [round EXCEPT ![p].step = "tell"]
      BY <1>1, <2>1 DEF SnapCommit, MirrorInv, Types
    <3>3. round'[p].changed = round[p].changed
      BY <1>1, <3>2 DEF MirrorInv, Types, Rounds
    <3> QED BY <3>1, <3>3
  <2>2. CASE WriteRow(p)
    BY <1>1, <2>0, <2>2, RowWritten
  <2>3. ASSUME NEW m \in Names, RemoveRow(p, m) PROVE mirror'[n] \in {0, mirror[n]}
    BY <1>1, <2>0, <2>3 DEF RemoveRow, MirrorInv, Types
  <2> QED BY <1>1, <2>1, <2>2, <2>3, WhoStores
<1>2. MirrorInv /\ [Next]_vars => [C]_vars
  BY <1>1 DEF Next
<1>3. RowsAreTheOwners <=> [][C]_vars
  BY DEF RowsAreTheOwners
<1> HIDE DEF C
<1> QED BY <1>2, <1>3, MirrorHolds, PTL DEF Spec

----------------------------------------------------------------------------
(* The mounted folder: the disk is given nothing that came from the disk,   *)
(* and what is known on both sides is the same, but for a failed write.     *)

Written == [content : Nat \ {0}, stamp : Nat \ {0}]

MountTypeOK ==
  /\ disk \in [Files -> Written \cup {None}] /\ guestFile \in [Files -> Written \cup {None}]
  /\ hostFp \in [Files -> Nat] /\ guestFp \in [Files -> Nat] /\ synced \in [Files -> Nat]
  /\ sweep \in {"idle", "host", "guest"} /\ scan \in [Files -> Nat]
  /\ todo \subseteq Files /\ bytes \in [Files -> Nat] /\ clock \in Nat \ {0}

\* What the guest has that its programs did not write is what was synced last,
\* or is about to be replaced; a content in hand was synced just now, and on its
\* way back it is a program's.
Ringless(p) ==
  /\ guestFile[p] # None /\ guestFile[p].content \notin own =>
       guestFile[p].content = synced[p] \/ IF bytes[p] # 0 THEN sweep = "host" ELSE p \in lost
  /\ bytes[p] # 0 => bytes[p] = synced[p] /\ (sweep = "host" \/ bytes[p] \in own \/ p \in lost)

\* Every write has a stamp of its own, and what a side is known by is what was
\* synced, unless that is in hand for this side, or was lost.
Stamped(p) ==
  /\ hostFp[p] <= clock /\ guestFp[p] <= clock /\ scan[p] <= clock
  /\ disk[p].stamp <= clock /\ guestFile[p].stamp <= clock
Known(p) ==
  /\ disk[p] # None /\ hostFp[p] = disk[p].stamp =>
       disk[p].content = synced[p] \/ IF bytes[p] # 0 THEN sweep = "guest" ELSE p \in lost
  /\ guestFile[p] # None /\ guestFp[p] = guestFile[p].stamp =>
       guestFile[p].content = synced[p] \/ IF bytes[p] # 0 THEN sweep = "host" ELSE p \in lost

FileTrue(p) == Ringless(p) /\ Stamped(p) /\ Known(p)

MountInv ==
  /\ MountTypeOK
  /\ sweep = "idle" => bytes = Zero
  /\ sweep = "host" => \A p \in todo : scan[p] # 0
  /\ sweep = "guest" => \A p \in Files \ todo : bytes[p] = 0
  /\ \A p \in Files : FileTrue(p)
  /\ NoEcho

----------------------------------------------------------------------------
LEMMA MountInitInv == MountInit => MountInv
  BY DEF MountInit, MountInv, MountTypeOK, Written, None, Zero, FileTrue, Ringless, Stamped, Known, NoEcho

\* What a side holds of a file.
LEMMA SidesAre ==
  ASSUME MountTypeOK, NEW p \in Files
  PROVE  /\ disk[p].stamp \in Nat /\ disk[p].content \in Nat /\ guestFile[p].stamp \in Nat /\ guestFile[p].content \in Nat
         /\ disk[p] # None => disk[p] \in Written /\ disk[p].stamp # 0 /\ disk[p].content # 0
         /\ guestFile[p] # None => guestFile[p] \in Written /\ guestFile[p].stamp # 0 /\ guestFile[p].content # 0
  BY DEF MountTypeOK, Written, None

LEMMA EditIs ==
  ASSUME MountTypeOK
  PROVE  /\ NewEdit \in Written /\ NewEdit.content = clock + 1 /\ NewEdit.stamp = clock + 1
         /\ Edit => clock' = clock + 1 /\ clock' \in Nat \ {0}
         /\ None.stamp = 0 /\ None.content = 0
  BY DEF MountTypeOK, Edit, NewEdit, Written, None

\* The person's acts move the disk alone, and its stamp.
LEMMA PersonKeeps ==
  ASSUME MountInv, NEW p \in Files, NEW new \in Written \cup {None}, disk' = [disk EXCEPT ![p] = new],
         new # None => new.stamp = clock + 1, Edit, UNCHANGED <<guestFile, maps, loop, own, lost, echoed>>
  PROVE  MountInv'
<1>1. MountTypeOK /\ clock' = clock + 1 /\ clock \in Nat /\ clock' \in Nat \ {0}
  BY EditIs DEF MountInv, MountTypeOK
<1>2. MountTypeOK'
  BY <1>1 DEF MountTypeOK, maps, loop
<1>3. ASSUME NEW q \in Files  PROVE FileTrue(q)'
  <2>1. FileTrue(q) /\ hostFp[q] \in Nat /\ guestFp[q] \in Nat /\ scan[q] \in Nat
    BY DEF MountInv, MountTypeOK
  <2>2. disk'[q] = IF q = p THEN new ELSE disk[q]
    BY <1>1 DEF MountTypeOK
  <2>3. Ringless(q)'
    BY <2>1 DEF FileTrue, Ringless, maps, loop
  <2>4. Stamped(q)'
    <3>1. disk'[q].stamp <= clock + 1
      BY <1>1, <2>1, <2>2, SidesAre DEF FileTrue, Stamped, None
    <3> QED  BY <1>1, <2>1, <3>1, SidesAre DEF FileTrue, Stamped, maps, loop
  <2>5. Known(q)'
    <3>1. disk'[q] # None /\ hostFp'[q] = disk'[q].stamp => disk'[q] = disk[q]
      BY <1>1, <2>1, <2>2 DEF FileTrue, Stamped, maps
    <3> QED  BY <2>1, <3>1 DEF FileTrue, Known, maps, loop
  <2> QED  BY <2>3, <2>4, <2>5 DEF FileTrue
<1> QED  BY <1>2, <1>3 DEF MountInv, NoEcho, loop, Zero

LEMMA PersonActs ==
  ASSUME MountInv, NEW p \in Files, PersonWrites(p) \/ PersonTouches(p) \/ PersonDeletes(p)
  PROVE  MountInv'
<1>1. CASE PersonWrites(p)
  BY <1>1, PersonKeeps, EditIs DEF PersonWrites, MountInv
<1>2. CASE PersonTouches(p)
  <2>1. PICK old \in Written : old = disk[p]
    BY <1>2, SidesAre DEF PersonTouches, There, MountInv
  <2>2. PICK new : new = [old EXCEPT !.stamp = clock + 1]
    OBVIOUS
  <2>3. new \in Written /\ new.stamp = clock + 1
    BY <2>2 DEF Written, MountInv, MountTypeOK
  <2>4. disk' = [disk EXCEPT ![p] = new]
    BY <1>2, <2>1, <2>2 DEF PersonTouches
  <2> QED  BY <1>2, <2>3, <2>4, PersonKeeps DEF PersonTouches
<1>3. CASE PersonDeletes(p)
  BY <1>3, PersonKeeps DEF PersonDeletes
<1> QED  BY <1>1, <1>2, <1>3

\* What the guest's programs write is theirs.
LEMMA GuestActs ==
  ASSUME MountInv, NEW p \in Files, GuestEdits(p) \/ GuestDeletes(p)
  PROVE  MountInv'
<1>1. PICK new \in Written \cup {None} :
        /\ guestFile' = [guestFile EXCEPT ![p] = new]
        /\ new # None => (new.stamp = clock + 1 /\ new.content \in own')
  BY EditIs DEF GuestEdits, GuestDeletes, MountInv
<1>2. MountTypeOK /\ clock' = clock + 1 /\ clock \in Nat /\ clock' \in Nat \ {0}
      /\ UNCHANGED <<disk, maps, loop, lost, echoed>> /\ own \subseteq own'
  BY EditIs DEF GuestEdits, GuestDeletes, MountInv, MountTypeOK
<1>3. MountTypeOK'
  BY <1>1, <1>2 DEF MountTypeOK, maps, loop
<1>4. ASSUME NEW q \in Files  PROVE FileTrue(q)'
  <2>1. FileTrue(q) /\ hostFp[q] \in Nat /\ guestFp[q] \in Nat /\ scan[q] \in Nat
    BY DEF MountInv, MountTypeOK
  <2>2. guestFile'[q] = IF q = p THEN new ELSE guestFile[q]
    BY <1>1, <1>2 DEF MountTypeOK
  <2>3. Ringless(q)'
    BY <1>1, <1>2, <2>1, <2>2 DEF FileTrue, Ringless, maps, loop
  <2>4. Stamped(q)'
    <3>1. guestFile'[q].stamp <= clock + 1
      BY <1>1, <1>2, <2>1, <2>2, SidesAre DEF FileTrue, Stamped, None
    <3> QED  BY <1>2, <2>1, <3>1, SidesAre DEF FileTrue, Stamped, maps, loop
  <2>5. Known(q)'
    <3>1. guestFile'[q] # None /\ guestFp'[q] = guestFile'[q].stamp => guestFile'[q] = guestFile[q]
      BY <1>1, <1>2, <2>1, <2>2 DEF FileTrue, Stamped, maps
    <3> QED  BY <1>2, <2>1, <3>1 DEF FileTrue, Known, maps, loop
  <2> QED  BY <2>3, <2>4, <2>5 DEF FileTrue
<1> QED  BY <1>2, <1>3, <1>4 DEF MountInv, NoEcho, loop, Zero

----------------------------------------------------------------------------
LEMMA HostScanKeeps == MountInv /\ HostScan => MountInv'
<1> SUFFICES ASSUME MountInv, HostScan PROVE MountInv'  OBVIOUS
<1>1. scan' = [p \in Files |-> disk[p].stamp] /\ todo' = {p \in Files : disk[p] # None} /\ sweep' = "host"
      /\ UNCHANGED <<sides, maps, bytes, clock, past>> /\ MountTypeOK /\ bytes = Zero
  BY DEF HostScan, Stamps, There, MountInv
<1>2. scan' \in [Files -> Nat] /\ \A p \in todo' : scan'[p] # 0
  BY <1>1, SidesAre
<1>3. MountTypeOK'
  BY <1>1, <1>2 DEF MountTypeOK, sides, maps
<1>4. ASSUME NEW p \in Files PROVE FileTrue(p)'
  BY <1>1 DEF MountInv, FileTrue, Ringless, Stamped, Known, sides, maps, past, Zero
<1> QED  BY <1>1, <1>2, <1>3, <1>4 DEF MountInv, past, NoEcho

\* A sweep that fails loses what it has in hand; one that has nothing just ends.
LEMMA FailKeeps ==
  ASSUME MountInv, SweepFails, UNCHANGED <<guestFile, disk, clock>>
  PROVE  MountInv'
<1>1. Rest /\ lost' = lost \cup {p \in Files : bytes[p] # 0} /\ UNCHANGED <<maps, own, echoed>>
  BY DEF SweepFails
<1>2. sweep' = "idle" /\ bytes' = Zero /\ Zero' = Zero /\ scan' = Zero /\ todo' = {} /\ Zero \in [Files -> Nat] /\ \A p \in Files : Zero[p] = 0
  BY <1>1 DEF Rest, Zero
<1>3. MountTypeOK'
  BY <1>1, <1>2 DEF MountInv, MountTypeOK, maps
<1>4. ASSUME NEW p \in Files PROVE FileTrue(p)'
  <2>1. FileTrue(p) /\ clock \in Nat /\ (bytes[p] # 0 => p \in lost')
    BY <1>1 DEF MountInv, MountTypeOK
  <2> QED  BY <1>1, <1>2, <2>1 DEF FileTrue, Ringless, Stamped, Known, maps
<1> QED  BY <1>1, <1>2, <1>3, <1>4 DEF MountInv, NoEcho

LEMMA HostReadKeeps ==
  ASSUME MountInv, NEW p \in Files, HostRead(p)
  PROVE  MountInv'
<1>1. sweep = "host" /\ p \in todo /\ UNCHANGED <<disk, guestFile, clock>> /\ scan[p] # 0 /\ MountTypeOK
  BY DEF HostRead, sides, MountInv
<1>2. CASE hostFp[p] = scan[p]
  <2>1. todo' = todo \ {p} /\ UNCHANGED <<maps, sweep, scan, bytes, past>>
    BY <1>2 DEF HostRead
  <2>2. MountTypeOK'
    BY <1>1, <2>1 DEF MountTypeOK, maps
  <2>3. ASSUME NEW q \in Files PROVE FileTrue(q)'
    BY <1>1, <2>1 DEF MountInv, FileTrue, Ringless, Stamped, Known, maps, past
  <2> QED  BY <1>1, <2>1, <2>2, <2>3 DEF MountInv, NoEcho, past, Zero
<1>3. CASE hostFp[p] # scan[p] /\ disk[p].stamp # scan[p]
  BY <1>1, <1>3, FailKeeps DEF HostRead
<1>4. CASE hostFp[p] # scan[p] /\ disk[p].stamp = scan[p]
  <2>1. disk[p].content \in Nat \ {0}
    BY <1>1, <1>4, SidesAre DEF None
  <2>2. /\ hostFp' = [hostFp EXCEPT ![p] = scan[p]] /\ todo' = todo \ {p} /\ UNCHANGED <<guestFp, sweep, scan, past>>
        /\ \/ synced[p] = disk[p].content /\ UNCHANGED <<synced, bytes>>
           \/ synced' = [synced EXCEPT ![p] = disk[p].content] /\ bytes' = [bytes EXCEPT ![p] = disk[p].content]
    BY <1>4 DEF HostRead
  <2>3. MountTypeOK'
    BY <1>1, <2>1, <2>2 DEF MountTypeOK
  <2>4. ASSUME NEW q \in Files PROVE FileTrue(q)'
    <3>1. FileTrue(q)
      BY DEF MountInv
    <3>2. CASE q # p
      <4>1. hostFp'[q] = hostFp[q] /\ synced'[q] = synced[q] /\ bytes'[q] = bytes[q]
        BY <1>1, <2>2, <3>2 DEF MountTypeOK
      <4> QED  BY <1>1, <2>2, <3>1, <4>1 DEF FileTrue, Ringless, Stamped, Known, past
    <3>3. CASE q = p
      <4>1. hostFp'[q] = scan[q] /\ synced'[q] = disk[q].content
            /\ (bytes'[q] = disk[q].content \/ (bytes'[q] = bytes[q] /\ synced'[q] = synced[q]))
        BY <1>1, <2>2, <3>3 DEF MountTypeOK
      <4>2. Ringless(q)'
        BY <1>1, <2>1, <2>2, <3>1, <3>3, <4>1 DEF FileTrue, Ringless, past
      <4>3. Stamped(q)'
        BY <1>1, <2>2, <3>1, <4>1 DEF FileTrue, Stamped
      <4>4. Known(q)'
        BY <1>1, <2>1, <2>2, <3>1, <3>3, <4>1 DEF FileTrue, Known, past
      <4> QED  BY <4>2, <4>3, <4>4 DEF FileTrue
    <3> QED  BY <3>2, <3>3
  <2> QED  BY <1>1, <2>2, <2>3, <2>4 DEF MountInv, NoEcho, past
<1> QED  BY <1>2, <1>3, <1>4

LEMMA HostPushKeeps ==
  ASSUME MountInv, NEW p \in Files, HostPush(p)
  PROVE  MountInv'
<1>1. CASE SweepFails /\ UNCHANGED <<guestFile, clock>>
  BY <1>1, FailKeeps DEF HostPush
<1>2. CASE ~(SweepFails /\ UNCHANGED <<guestFile, clock>>)
  <2>1. PICK pushed : pushed = [content |-> bytes[p], stamp |-> clock + 1]
    OBVIOUS
  <2>2. /\ sweep = "host" /\ todo = {} /\ bytes[p] # 0 /\ clock' = clock + 1
        /\ guestFile' = [guestFile EXCEPT ![p] = pushed] /\ bytes' = [bytes EXCEPT ![p] = 0] /\ lost' = lost \ {p}
        /\ UNCHANGED <<sweep, scan, todo, disk, maps, own, echoed>> /\ MountTypeOK
    BY <1>2, <2>1 DEF HostPush, MountInv
  <2>3. pushed \in Written /\ pushed.content = bytes[p] /\ pushed.stamp = clock + 1 /\ clock \in Nat
    BY <2>1, <2>2 DEF Written, MountTypeOK
  <2>4. MountTypeOK'
    BY <2>2, <2>3 DEF MountTypeOK, maps
  <2>5. ASSUME NEW q \in Files PROVE FileTrue(q)'
    <3>1. FileTrue(q) /\ hostFp[q] \in Nat /\ guestFp[q] \in Nat /\ scan[q] \in Nat
      BY DEF MountInv, MountTypeOK
    <3>2. guestFile'[q] = (IF q = p THEN pushed ELSE guestFile[q]) /\ bytes'[q] = (IF q = p THEN 0 ELSE bytes[q])
          /\ (q # p => (q \in lost' <=> q \in lost))
      BY <2>2 DEF MountTypeOK
    <3>3. Ringless(q)'
      BY <2>2, <2>3, <3>1, <3>2 DEF FileTrue, Ringless, maps
    <3>4. Stamped(q)'
      <4>1. guestFile'[q].stamp <= clock + 1
        BY <2>2, <2>3, <3>1, <3>2, SidesAre DEF FileTrue, Stamped
      <4> QED  BY <2>2, <2>3, <3>1, <4>1, SidesAre DEF FileTrue, Stamped, maps
    <3>5. Known(q)'
      <4>1. q = p => guestFp'[q] # guestFile'[q].stamp
        BY <2>2, <2>3, <3>1, <3>2 DEF FileTrue, Stamped, maps
      <4> QED  BY <2>2, <3>1, <3>2, <4>1 DEF FileTrue, Known, maps
    <3> QED  BY <3>3, <3>4, <3>5 DEF FileTrue
  <2> QED  BY <2>2, <2>4, <2>5 DEF MountInv, NoEcho
<1> QED  BY <1>1, <1>2

LEMMA HostGoneKeeps == MountInv /\ HostGone => MountInv'
<1> SUFFICES ASSUME MountInv, HostGone PROVE MountInv'  OBVIOUS
<1> DEFINE gone == {p \in Files : hostFp[p] # 0 /\ scan[p] = 0}
           left == [p \in Files |-> IF p \in gone THEN None ELSE guestFile[p]]
<1>1. /\ bytes = Zero /\ UNCHANGED <<disk, clock, own, echoed>> /\ guestFile' = left /\ lost' = lost \ gone
      /\ hostFp' = [p \in Files |-> IF p \in gone THEN 0 ELSE hostFp[p]]
      /\ synced' = [p \in Files |-> IF p \in gone THEN 0 ELSE synced[p]]
      /\ guestFp' = [p \in Files |-> IF p \in gone THEN 0 ELSE guestFp[p]]
  BY DEF HostGone
<1>2. \/ Rest
      \/ sweep' = "guest" /\ scan' = Stamps(left) /\ todo' = There(left) /\ UNCHANGED bytes
  BY DEF HostGone
<1>3. /\ left \in [Files -> Written \cup {None}] /\ MountTypeOK
      /\ \A p \in Files : left[p] = None \/ (p \notin gone /\ left[p] = guestFile[p])
  BY DEF MountInv, MountTypeOK
<1> HIDE DEF gone, left
<1>4. Stamps(left) \in [Files -> Nat] /\ There(left) \subseteq Files /\ \A p \in Files : Stamps(left)[p] = left[p].stamp
  BY <1>3 DEF Stamps, There, Written, None
<1>5. /\ sweep' \in {"idle", "guest"} /\ todo' \subseteq Files /\ bytes' = Zero
      /\ scan' \in [Files -> Nat] /\ \A p \in Files : scan'[p] = 0 \/ scan'[p] = left[p].stamp
  BY <1>1, <1>2, <1>4 DEF Rest, Zero
<1>6. bytes' \in [Files -> Nat] /\ \A p \in Files : bytes[p] = 0 /\ bytes'[p] = 0
  BY <1>1, <1>5 DEF Zero
<1>7. MountTypeOK'
  BY <1>1, <1>3, <1>5, <1>6 DEF MountTypeOK
<1>8. ASSUME NEW p \in Files PROVE FileTrue(p)'
  <2>1. FileTrue(p) /\ clock \in Nat /\ None.stamp = 0
    BY DEF MountInv, MountTypeOK, None
  <2>2. /\ guestFile'[p] = None \/ (p \notin gone /\ guestFile'[p] = guestFile[p])
        /\ scan'[p] = 0 \/ scan'[p] = guestFile'[p].stamp
        /\ hostFp'[p] = (IF p \in gone THEN 0 ELSE hostFp[p]) /\ guestFp'[p] = (IF p \in gone THEN 0 ELSE guestFp[p])
        /\ synced'[p] = (IF p \in gone THEN 0 ELSE synced[p]) /\ disk'[p] = disk[p] /\ (p \notin gone => (p \in lost' <=> p \in lost))
    BY <1>1, <1>3, <1>5
  <2>3. Ringless(p)'
    BY <1>1, <1>6, <2>1, <2>2 DEF FileTrue, Ringless
  <2>4. Stamped(p)'
    <3>1. guestFile'[p].stamp <= clock /\ scan'[p] <= clock
      BY <2>1, <2>2 DEF FileTrue, Stamped
    <3> QED  BY <1>1, <2>1, <2>2, <3>1 DEF FileTrue, Stamped
  <2>5. Known(p)'
    <3>1. disk'[p] # None /\ hostFp'[p] = disk'[p].stamp => p \notin gone
      BY <1>3, <2>2, SidesAre
    <3> QED  BY <1>6, <2>1, <2>2, <3>1 DEF FileTrue, Known
  <2> QED  BY <2>3, <2>4, <2>5 DEF FileTrue
<1>9. Zero' = Zero
  BY DEF Zero
<1> QED  BY <1>1, <1>5, <1>6, <1>7, <1>8, <1>9 DEF MountInv, NoEcho

----------------------------------------------------------------------------
LEMMA GuestReadKeeps ==
  ASSUME MountInv, NEW p \in Files, GuestRead(p)
  PROVE  MountInv'
<1>1. /\ sweep = "guest" /\ guestFp' = [guestFp EXCEPT ![p] = scan[p]]
      /\ UNCHANGED <<disk, guestFile, hostFp, sweep, scan, clock, own, lost, echoed>>
      /\ MountTypeOK /\ p \in todo /\ \A q \in Files : bytes[q] = 0
  BY DEF GuestRead, sides, past, Zero, MountInv
<1>2. \/ todo' = todo \ {p} /\ UNCHANGED <<synced, bytes>>
         /\ (guestFp[p] = scan[p] \/ guestFile[p] = None \/ synced[p] = guestFile[p].content)
      \/ /\ guestFile[p] # None /\ guestFile[p].content # synced[p] /\ UNCHANGED todo
         /\ synced' = [synced EXCEPT ![p] = guestFile[p].content]
         /\ bytes' = [bytes EXCEPT ![p] = guestFile[p].content]
  BY DEF GuestRead
<1>3. MountTypeOK'
  BY <1>1, <1>2, SidesAre DEF MountTypeOK
<1>4. ASSUME NEW q \in Files PROVE FileTrue(q)'
  <2>1. FileTrue(q) /\ bytes[q] = 0
    BY <1>1 DEF MountInv
  <2>2. CASE q # p
    <3>1. guestFp'[q] = guestFp[q] /\ synced'[q] = synced[q] /\ bytes'[q] = bytes[q]
      BY <1>1, <1>2, <2>2 DEF MountTypeOK
    <3> QED  BY <1>1, <2>1, <3>1 DEF FileTrue, Ringless, Stamped, Known
  <2>3. CASE q = p
    <3>1. guestFp'[q] = scan[q]
      BY <1>1, <2>3 DEF MountTypeOK
    <3>2. \/ synced'[q] = synced[q] /\ bytes'[q] = 0 /\ (guestFp[q] = scan[q] \/ guestFile[q] = None \/ synced[q] = guestFile[q].content)
          \/ guestFile[q] # None /\ synced'[q] = guestFile[q].content /\ bytes'[q] = guestFile[q].content /\ guestFile[q].content # synced[q]
      BY <1>1, <1>2, <2>1, <2>3 DEF MountTypeOK
    <3>3. guestFile[q] # None => guestFile[q].content # 0
      BY <1>1, SidesAre
    <3>4. Ringless(q)'
      BY <1>1, <2>1, <3>2 DEF FileTrue, Ringless
    <3>5. Stamped(q)'
      BY <1>1, <2>1, <3>1 DEF FileTrue, Stamped
    <3>6. Known(q)'
      BY <1>1, <2>1, <3>1, <3>2, <3>3 DEF FileTrue, Known
    <3> QED  BY <3>4, <3>5, <3>6 DEF FileTrue
  <2> QED  BY <2>2, <2>3
<1>5. sweep' = "guest"
  BY <1>1
<1>6. \A q \in Files \ todo' : bytes'[q] = 0
  BY <1>1, <1>2 DEF MountTypeOK
<1> QED  BY <1>1, <1>3, <1>4, <1>5, <1>6 DEF MountInv, NoEcho

LEMMA WriteHostKeeps ==
  ASSUME MountInv, NEW p \in Files, WriteHost(p)
  PROVE  MountInv'
<1>1. /\ sweep = "guest" /\ bytes[p] # 0 /\ bytes' = [bytes EXCEPT ![p] = 0] /\ todo' = todo \ {p}
      /\ UNCHANGED <<guestFile, guestFp, synced, sweep, scan, own>> /\ MountTypeOK
  BY DEF WriteHost, MountInv
<1>2. PICK put : put = [content |-> bytes[p], stamp |-> clock + 1]
  OBVIOUS
<1>3. \/ /\ clock' = clock + 1 /\ disk' = [disk EXCEPT ![p] = put] /\ hostFp' = [hostFp EXCEPT ![p] = 0] /\ lost' = lost \ {p}
         /\ echoed' = (echoed \/ (bytes[p] \notin own /\ p \notin lost))
      \/ /\ lost' = lost \cup {p} /\ UNCHANGED <<hostFp, echoed>>
         /\ UNCHANGED <<disk, clock>> \/ (disk[p] = None /\ clock' = clock + 1 /\ disk' = [disk EXCEPT ![p] = NewEdit])
  BY <1>2 DEF WriteHost
<1>4. put \in Written /\ put.stamp = clock + 1 /\ put.content = bytes[p] /\ clock \in Nat
  BY <1>1, <1>2 DEF Written, MountTypeOK
<1>5. bytes[p] \in own \/ p \in lost
  BY <1>1 DEF MountInv, FileTrue, Ringless
<1>6. NoEcho'
  BY <1>3, <1>5 DEF MountInv, NoEcho
<1>7. NewEdit \in Written /\ NewEdit.stamp = clock + 1
  BY <1>1, EditIs
<1>8. MountTypeOK'
  BY <1>1, <1>3, <1>4, <1>7 DEF MountTypeOK
<1>9. ASSUME NEW q \in Files PROVE FileTrue(q)'
  <2>1. FileTrue(q) /\ hostFp[q] \in Nat /\ guestFp[q] \in Nat /\ scan[q] \in Nat /\ bytes'[q] = IF q = p THEN 0 ELSE bytes[q]
    BY <1>1 DEF MountInv, MountTypeOK
  <2>2. q # p => disk'[q] = disk[q] /\ hostFp'[q] = hostFp[q] /\ (q \in lost' <=> q \in lost)
    BY <1>1, <1>3 DEF MountTypeOK
  <2>3. clock \in Nat /\ clock' \in Nat /\ clock <= clock'
    BY <1>3, <1>4
  <2>4. CASE q # p
    <3>1. Ringless(q)' /\ Known(q)'
      BY <1>1, <2>1, <2>2, <2>4 DEF FileTrue, Ringless, Known
    <3>2. Stamped(q)'
      BY <1>1, <2>1, <2>2, <2>3, <2>4, SidesAre DEF FileTrue, Stamped
    <3> QED  BY <3>1, <3>2 DEF FileTrue
  <2>5. CASE q = p
    <3>1. \/ disk'[q] = put /\ hostFp'[q] = 0 /\ clock' = clock + 1
          \/ q \in lost' /\ hostFp'[q] = hostFp[q] /\ disk'[q] = disk[q] /\ clock' = clock
          \/ q \in lost' /\ hostFp'[q] = hostFp[q] /\ disk'[q] = NewEdit /\ clock' = clock + 1
      BY <1>1, <1>3, <2>5 DEF MountTypeOK
    <3>2. Ringless(q)'
      <4>1. guestFile[q] # None /\ guestFile[q].content \notin own => guestFile[q].content = synced[q]
        BY <1>1, <2>1, <2>5 DEF FileTrue, Ringless
      <4> QED  BY <1>1, <2>1, <2>5, <4>1 DEF Ringless
    <3>3. Stamped(q)'
      <4>1. hostFp'[q] <= clock' /\ disk'[q].stamp <= clock'
        BY <1>4, <1>7, <2>1, <2>3, <3>1 DEF FileTrue, Stamped
      <4> QED  BY <1>1, <2>1, <2>3, <4>1, SidesAre DEF FileTrue, Stamped
    <3>4. Known(q)'
      <4>1. guestFile[q] # None /\ guestFp[q] = guestFile[q].stamp => guestFile[q].content = synced[q]
        BY <1>1, <2>1, <2>5 DEF FileTrue, Known
      <4>2. disk'[q] # None /\ hostFp'[q] = disk'[q].stamp => q \in lost'
        BY <1>4, <3>1
      <4> QED  BY <1>1, <2>1, <2>5, <4>1, <4>2 DEF Known
    <3> QED  BY <3>2, <3>3, <3>4 DEF FileTrue
  <2> QED  BY <2>4, <2>5
<1>10. sweep' = "guest"
  BY <1>1
<1>11. \A q \in Files \ todo' : bytes'[q] = 0
  BY <1>1 DEF MountInv, MountTypeOK
<1> QED  BY <1>6, <1>8, <1>9, <1>10, <1>11 DEF MountInv

LEMMA GuestForgetsKeeps == MountInv /\ GuestForgets => MountInv'
<1> SUFFICES ASSUME MountInv, GuestForgets PROVE MountInv'  OBVIOUS
<1>1. /\ sweep = "guest" /\ Rest /\ guestFp' = [p \in Files |-> IF scan[p] = 0 THEN 0 ELSE guestFp[p]]
      /\ UNCHANGED <<disk, guestFile, hostFp, synced, clock, own, lost, echoed>> /\ todo = {}
  BY DEF GuestForgets, sides, past
<1>2. sweep' = "idle" /\ bytes' = Zero /\ Zero' = Zero /\ scan' = Zero /\ todo' = {} /\ Zero \in [Files -> Nat] /\ \A p \in Files : Zero[p] = 0
  BY <1>1 DEF Rest, Zero
<1>3. guestFp' \in [Files -> Nat]
  BY <1>1 DEF MountInv, MountTypeOK
<1>4. MountTypeOK'
  BY <1>1, <1>2, <1>3 DEF MountInv, MountTypeOK
<1>5. ASSUME NEW p \in Files PROVE FileTrue(p)'
  <2>1. FileTrue(p) /\ clock \in Nat /\ (guestFp'[p] = 0 \/ guestFp'[p] = guestFp[p]) /\ (guestFile[p] # None => guestFile[p].stamp # 0)
    BY <1>1, SidesAre DEF MountInv, MountTypeOK
  <2>2. bytes[p] = 0
    BY <1>1 DEF MountInv
  <2>3. Ringless(p)' /\ Known(p)'
    BY <1>1, <1>2, <2>1, <2>2 DEF FileTrue, Ringless, Known
  <2>4. Stamped(p)'
    BY <1>1, <1>2, <2>1 DEF FileTrue, Stamped
  <2> QED  BY <2>3, <2>4 DEF FileTrue
<1> QED  BY <1>1, <1>2, <1>4, <1>5 DEF MountInv, NoEcho

\* A new mount takes what lies in the guest for the guest's own.
LEMMA RemountKeeps == MountInv /\ Remount => MountInv'
<1> SUFFICES ASSUME MountInv, Remount PROVE MountInv'  OBVIOUS
<1>1. /\ sweep = "idle" /\ bytes = Zero /\ UNCHANGED <<disk, loop, echoed>> /\ clock' = clock + 1 /\ clock' \in Nat \ {0}
      /\ hostFp' = Zero /\ guestFp' = Zero /\ synced' = Zero /\ lost' = {} /\ MountTypeOK
      /\ \/ own' = {guestFile[p].content : p \in There(guestFile)} /\ UNCHANGED guestFile
         \/ guestFile' = [p \in Files |-> None]
  BY EditIs DEF Remount, MountInv
<1>2. Zero \in [Files -> Nat] /\ Zero' = Zero /\ \A p \in Files : Zero[p] = 0
  BY DEF Zero
<1>3. MountTypeOK'
  BY <1>1, <1>2 DEF MountTypeOK, loop
<1>4. ASSUME NEW p \in Files PROVE FileTrue(p)'
  <2>1. FileTrue(p) /\ clock \in Nat /\ None.stamp = 0 /\ scan[p] \in Nat
    BY DEF MountInv, MountTypeOK, None
  <2>2. /\ guestFile'[p] = None \/ (guestFile'[p] = guestFile[p] /\ guestFile'[p].content \in own')
        /\ hostFp'[p] = 0 /\ guestFp'[p] = 0 /\ synced'[p] = 0 /\ bytes'[p] = 0 /\ scan'[p] = scan[p] /\ disk'[p] = disk[p]
    BY <1>1, <1>2 DEF There, loop
  <2>3. (disk[p] # None => disk[p].stamp # 0) /\ (guestFile[p] # None => guestFile[p].stamp # 0)
    BY <1>1, SidesAre
  <2>4. Stamped(p)'
    BY <1>1, <2>1, <2>2, SidesAre DEF FileTrue, Stamped
  <2>5. Ringless(p)' /\ Known(p)'
    BY <2>2, <2>3 DEF Ringless, Known
  <2> QED  BY <2>4, <2>5 DEF FileTrue
<1> QED  BY <1>1, <1>2, <1>3, <1>4 DEF MountInv, loop, NoEcho

\* What moves nothing moves none of it.
LEMMA MountStutters == MountInv /\ UNCHANGED mountVars => MountInv'
  BY DEF MountInv, MountTypeOK, FileTrue, Ringless, Stamped, Known, NoEcho, mountVars, sides, maps, loop, past, Zero, None, Written

\* The disk is only ever given what a program in the guest wrote, and what is
\* known on both sides is the same, for any number of files, edits, sweeps and
\* mounts, and whatever fails, except for a file noted as synced whose write failed:
\* hostSweep, guestSweep and writeHost.
THEOREM MountKeepsItsWord == MountSpec => []MountTrue
<1>1. ASSUME MountInv, [MountNext]_mountVars PROVE MountInv'
  BY <1>1, MountStutters, PersonActs, GuestActs, HostScanKeeps, HostReadKeeps, HostPushKeeps,
     HostGoneKeeps, GuestReadKeeps, WriteHostKeeps, GuestForgetsKeeps, RemountKeeps DEF MountNext
<1>2. MountInv => MountTrue
  <2> SUFFICES ASSUME MountInv PROVE MountTrue  OBVIOUS
  <2>1. ASSUME sweep = "idle", NEW p \in (There(disk) \cap There(guestFile)) \ lost,
               hostFp[p] = disk[p].stamp, guestFp[p] = guestFile[p].stamp
        PROVE  disk[p].content = guestFile[p].content
    <3>1. p \in Files /\ disk[p] # None /\ guestFile[p] # None /\ p \notin lost
      BY <2>1 DEF There
    <3>2. bytes[p] = 0 /\ Known(p)
      BY <2>1, <3>1 DEF MountInv, FileTrue, Zero
    <3> QED  BY <2>1, <3>1, <3>2 DEF Known
  <2> QED  BY <2>1 DEF MountTrue, KnownIsSame, MountInv
<1> QED  BY <1>1, <1>2, MountInitInv, PTL DEF MountSpec
=============================================================================
