----------------------------- MODULE Rpcd_proofs -----------------------------
(***************************************************************************)
(* The router's promise, for any number of clients, sessions, calls and    *)
(* methods; what the windows show of the apps that run behind it; and the  *)
(* bound of the byte queue rpcd writes the stream lane through.            *)
(***************************************************************************)
EXTENDS Rpcd, AppWindows, OutQueue, FiniteSetTheorems, WellFoundedInduction, TLAPS

RouterTypes ==
  /\ conns \in 0 .. MaxConn /\ conn \in [Slots -> 0 .. conns]
  /\ sessions \in 0 .. MaxSession /\ session \in 0 .. sessions
  /\ pend \in [CallIds -> Entries]
  /\ calls \in [Slots -> Nat]
  /\ rund \subseteq Clients
  /\ ext \in [Slots -> SUBSET Methods]
  /\ used \subseteq CallIds /\ owes \in [Parties -> [CallIds -> Int]]
  /\ working \subseteq Parties \X CallIds /\ overlong \subseteq Parties \X CallIds

\* Connections are numbered as they are accepted, so a slot inherits nothing.
OneSlotEach == \A s, t \in Clients : conn[s] = conn[t] => s = t

\* An entry's asker is there or was struck out; while it is there, so is its
\* executor; and ids are spent when they are asked under.
EntriesHeld ==
  \A i \in CallIds : InFlight(i) =>
    /\ i \in used
    /\ pend[i].from \in Ends \cup {Gone}
    /\ pend[i].from # Gone => pend[i].to \in Ends

\* A party yet to come is owed nothing and has done nothing.
Comes(w) == w > conns \/ w < -sessions

ComesClean ==
  /\ \A w \in Parties, i \in CallIds : Comes(w) => owes[w][i] = 0
  /\ \A d \in working : d[2] \in used /\ ~Comes(d[1])

\* An answer too long for the wire was to a session of the page, its call is over
\* and its id spent.
OverlongSpent ==
  \A w \in Parties, i \in CallIds : <<w, i>> \in overlong =>
    i \in used /\ ~InFlight(i) /\ ~Comes(w) /\ w < 0

CapsHeld ==
  /\ Cardinality({i \in CallIds : InFlight(i)}) <= MAX_PENDING
  /\ Cardinality(EntriesFrom(Page)) <= PAGE_PENDING

RouterInv ==
  /\ RouterTypes /\ OneSlotEach /\ EntriesHeld /\ ComesClean /\ CapsHeld /\ OverlongSpent
  /\ OneAnswerEach /\ LedgerExact /\ EntriesNameParties /\ OneServer /\ AbandonedWorkIsCancelled

----------------------------------------------------------------------------
(* Parties, counts and the lowest slot.                                    *)

\* The lowest of some slots is one of them (the loops of find_rund, ext_find
\* and of accept stop at a slot that fits).
LEMMA LowestIsOne ==
  ASSUME NEW S \in SUBSET Nat, S # {}
  PROVE  Min(S) \in S
<1> DEFINE Down == {0 .. x : x \in S}
<1>1. Down \subseteq FiniteSubsetsOf(Nat) /\ Down # {}
  <2>1. ASSUME NEW x \in S PROVE 0 .. x \in SUBSET Nat /\ IsFiniteSet(0 .. x)
    BY FS_Interval
  <2> QED BY <2>1 DEF FiniteSubsetsOf
<1>2. \E D \in Down : \A E \in Down : ~(<<E, D>> \in StrictSubsetOrdering(Nat))
  BY <1>1, FS_StrictSubsetOrderingWellFounded, WFMin
<1>3. PICK x \in S : \A y \in S : ~(<<0 .. y, 0 .. x>> \in StrictSubsetOrdering(Nat))
  BY <1>2
<1>4. ASSUME NEW y \in S, y < x PROVE FALSE
  <2>1. 0 .. y \subseteq 0 .. x /\ x \in 0 .. x /\ x \notin 0 .. y
    BY <1>4
  <2>2. 0 .. y \in SUBSET Nat /\ 0 .. x \in SUBSET Nat /\ 0 .. y # 0 .. x
    BY <2>1
  <2>3. <<0 .. y, 0 .. x>> \in StrictSubsetOrdering(Nat)
    <3> DEFINE below == 0 .. y
               above == 0 .. x
    <3>1. below \in SUBSET Nat /\ above \in SUBSET Nat /\ below \subseteq above /\ below # above
      BY <2>1, <2>2
    <3> HIDE DEF below, above
    <3>2. <<below, above>> \in StrictSubsetOrdering(Nat)
      BY <3>1 DEF StrictSubsetOrdering
    <3> QED BY <3>2 DEF below, above
  <2> QED BY <2>3, <1>3
<1>5. \A y \in S : x <= y
  BY <1>4
<1> QED BY <1>5 DEF Min

\* Whoever is there has come, and has a name of its own.
LEMMA WhoIsParty ==
  ASSUME RouterTypes, NEW e \in Ends
  PROVE  Who(e) \in Parties /\ Who(e) # 0 /\ ~Comes(Who(e)) /\ e # Gone /\ Who(Gone) = 0
<1>1. CASE e = Page
  <2>1. session # 0 /\ session \in 1 .. MaxSession /\ session <= sessions /\ Who(e) = -session
    BY <1>1, RpcdAssumption DEF RouterTypes, Ends, Clients, Slots, Page, Who
  <2>2. -session \in Parties
    BY <2>1 DEF Parties
  <2> QED BY <1>1, <2>1, <2>2, RpcdAssumption DEF RouterTypes, Page, Gone, Who, Comes
<1>2. CASE e # Page
  <2>1. e \in Clients /\ e # Gone /\ Who(e) = conn[e] /\ conn[e] \in 1 .. conns
    BY <1>2, RpcdAssumption DEF RouterTypes, Ends, Clients, Slots, Page, Gone, Who
  <2> QED BY <2>1, RpcdAssumption DEF RouterTypes, Page, Gone, Who, Parties, Comes
<1> QED BY <1>1, <1>2

LEMMA WhoIsOne ==
  ASSUME RouterTypes, OneSlotEach, NEW e \in Ends, NEW f \in Ends, Who(e) = Who(f)
  PROVE  e = f
BY RpcdAssumption DEF RouterTypes, OneSlotEach, Ends, Clients, Slots, Page, Gone, Who

\* Counting down by what is deleted leaves the count of the rest (pend_del).
LEMMA CountedDown ==
  ASSUME NEW S, IsFiniteSet(S), NEW T
  PROVE  Less(Cardinality(S), Cardinality(S \cap T)) = Cardinality(S \ T) /\ Cardinality(S \ T) <= Cardinality(S)
<1>1. Cardinality(S) \in Nat /\ Cardinality(S \cap T) \in Nat /\ Cardinality(S \cap T) <= Cardinality(S)
  BY FS_Intersection, FS_CardinalityType
<1>2. Cardinality(S \ T) = Cardinality(S) - Cardinality(S \cap T)
  BY FS_Difference
<1> QED BY <1>1, <1>2 DEF Less

LEMMA OneMore ==
  ASSUME NEW S, IsFiniteSet(S), NEW x, NEW n \in Nat, Cardinality(S) < n
  PROVE  Cardinality(S \cup {x}) <= n
<1>1. Cardinality(S) \in Nat
  BY FS_CardinalityType
<1>2. Cardinality(S \cup {x}) = Cardinality(S) \/ Cardinality(S \cup {x}) = Cardinality(S) + 1
  BY FS_AddElement
<1> QED BY <1>1, <1>2

LEMMA EntriesFinite ==
  ASSUME NEW e
  PROVE  /\ IsFiniteSet(EntriesFrom(e)) /\ Cardinality(EntriesFrom(e)) \in Nat
         /\ IsFiniteSet({i \in CallIds : InFlight(i)}) /\ Cardinality({i \in CallIds : InFlight(i)}) \in Nat
<1>1. EntriesFrom(e) \in SUBSET CallIds /\ {i \in CallIds : InFlight(i)} \in SUBSET CallIds
  BY DEF EntriesFrom
<1> QED BY <1>1, FS_Subset, FS_CardinalityType, RpcdAssumption


\* Fewer entries keep the caps.
LEMMA FewerKeepCaps ==
  ASSUME CapsHeld, {i \in CallIds : InFlight(i)}' \subseteq {i \in CallIds : InFlight(i)},
         EntriesFrom(Page)' \subseteq EntriesFrom(Page)
  PROVE  CapsHeld'
<1>1. IsFiniteSet(EntriesFrom(Page)) /\ Cardinality(EntriesFrom(Page)) \in Nat
      /\ IsFiniteSet({i \in CallIds : InFlight(i)}) /\ Cardinality({i \in CallIds : InFlight(i)}) \in Nat
  BY EntriesFinite
<1>2. Cardinality(EntriesFrom(Page)') \in Nat /\ Cardinality({i \in CallIds : InFlight(i)}') \in Nat
      /\ Cardinality(EntriesFrom(Page)') <= Cardinality(EntriesFrom(Page))
      /\ Cardinality({i \in CallIds : InFlight(i)}') <= Cardinality({i \in CallIds : InFlight(i)})
  BY <1>1, FS_Subset, FS_CardinalityType
<1> QED BY <1>1, <1>2, RpcdAssumption DEF CapsHeld

\* No call that is over comes back under its id.
LEMMA OverlongStays ==
  ASSUME RouterInv, UNCHANGED overlong, used \subseteq used', conns' \in Nat, sessions' \in Nat,
         conns <= conns', sessions <= sessions',
         \A j \in CallIds : j \in used /\ InFlight(j)' => InFlight(j)
  PROVE  OverlongSpent'
<1>1. \A w \in Parties : Comes(w)' => Comes(w)
  BY RpcdAssumption DEF Comes, RouterInv, RouterTypes, Parties
<1> QED BY <1>1 DEF RouterInv, OverlongSpent

----------------------------------------------------------------------------
(* Steps that leave the table alone.                                       *)

\* What the table's part of the invariant reads.
LEMMA TableUntouched ==
  ASSUME RouterInv, UNCHANGED <<conn, conns, session, sessions, pend, calls, used, owes, working, overlong>>
  PROVE  /\ OneSlotEach' /\ EntriesHeld' /\ ComesClean' /\ OverlongSpent' /\ CapsHeld' /\ OneAnswerEach' /\ LedgerExact'
         /\ EntriesNameParties' /\ AbandonedWorkIsCancelled' /\ Clients' = Clients
<1>1. /\ Clients' = Clients /\ Ends' = Ends
      /\ \A e : Who(e)' = Who(e) /\ EntriesFrom(e)' = EntriesFrom(e)
      /\ \A i : InFlight(i)' = InFlight(i)
      /\ {i \in CallIds : InFlight(i)}' = {i \in CallIds : InFlight(i)}
  BY DEF Clients, Ends, Who, EntriesFrom, InFlight
<1>2. LiveParties' = LiveParties
  BY <1>1 DEF LiveParties
<1>3. OneSlotEach' /\ EntriesHeld' /\ EntriesNameParties'
  BY <1>1 DEF RouterInv, OneSlotEach, EntriesHeld, EntriesNameParties
<1>4. ComesClean' /\ OverlongSpent' /\ OneAnswerEach' /\ AbandonedWorkIsCancelled'
  BY <1>1, <1>2 DEF RouterInv, ComesClean, Comes, OverlongSpent, OneAnswerEach, Awaits, AbandonedWorkIsCancelled
<1>5. CapsHeld' /\ LedgerExact'
  BY <1>1 DEF RouterInv, CapsHeld, LedgerExact
<1> QED BY <1>1, <1>3, <1>4, <1>5

LEMMA ServeKeeps ==
  ASSUME RouterInv, NEW s \in Slots, NEW m \in Methods, Serve(s, m)
  PROVE  RouterInv'
<1>1. UNCHANGED <<conn, conns, session, sessions, pend, calls, rund, used, owes, working, overlong>>
  BY DEF Serve
<1>2. RouterTypes'
  BY <1>1 DEF RouterInv, RouterTypes, Serve, Clients
<1>3. ASSUME NEW t \in Clients, NEW u \in Clients, t # u PROVE ext'[t] \cap ext'[u] = {}
  BY <1>3 DEF RouterInv, RouterTypes, OneServer, Serve, Clients
<1> QED BY <1>1, <1>2, <1>3, TableUntouched DEF RouterInv, OneServer

LEMMA ServeProcKeeps ==
  ASSUME RouterInv, NEW s \in Slots, ServeProc(s)
  PROVE  RouterInv'
<1>1. UNCHANGED <<conn, conns, session, sessions, pend, calls, ext, used, owes, working, overlong>>
  BY DEF ServeProc
<1>2. RouterTypes'
  BY <1>1 DEF RouterInv, RouterTypes, ServeProc, Clients
<1> QED BY <1>1, <1>2, TableUntouched DEF RouterInv, OneServer

LEMMA RouterStutters ==
  ASSUME RouterInv, UNCHANGED routerVars
  PROVE  RouterInv'
<1>1. RouterTypes'
  BY DEF RouterInv, RouterTypes, routerVars, Clients
<1> QED BY <1>1, TableUntouched DEF RouterInv, OneServer, routerVars

\* Work forgotten (route_cancel, an answer nobody waits for).
LEMMA LessWork ==
  ASSUME RouterInv, working' \subseteq working,
         UNCHANGED <<conn, conns, session, sessions, pend, calls, rund, ext, used, owes, overlong>>
  PROVE  RouterInv'
<1>2. RouterTypes'
  BY DEF RouterInv, RouterTypes, Clients
<1>3. /\ Clients' = Clients /\ Ends' = Ends
      /\ \A f : Who(f)' = Who(f) /\ EntriesFrom(f)' = EntriesFrom(f)
      /\ \A j : InFlight(j)' = InFlight(j)
      /\ {j \in CallIds : InFlight(j)}' = {j \in CallIds : InFlight(j)}
  BY DEF Clients, Ends, Who, EntriesFrom, InFlight
<1>4. LiveParties' = LiveParties
  BY <1>3 DEF LiveParties
<1>5. OneSlotEach' /\ EntriesHeld' /\ EntriesNameParties' /\ OneServer'
  BY <1>3 DEF RouterInv, OneSlotEach, EntriesHeld, EntriesNameParties, OneServer
<1>6. ComesClean' /\ OverlongSpent' /\ OneAnswerEach' /\ AbandonedWorkIsCancelled'
  BY <1>3, <1>4 DEF RouterInv, ComesClean, Comes, OverlongSpent, OneAnswerEach, Awaits, AbandonedWorkIsCancelled
<1>7. CapsHeld' /\ LedgerExact'
  BY <1>3 DEF RouterInv, CapsHeld, LedgerExact
<1> QED BY <1>2, <1>5, <1>6, <1>7 DEF RouterInv

LEMMA CancelKeeps ==
  ASSUME RouterInv, NEW e \in Slots \cup {Page}, NEW i \in CallIds, Cancel(e, i)
  PROVE  RouterInv'
<1>1. working' \subseteq working
  BY DEF Cancel, Told
<1> QED BY <1>1, LessWork DEF Cancel

----------------------------------------------------------------------------
(* A call ends: its answer, or the sweep.                                   *)

LEMMA DeleteTypes ==
  ASSUME RouterTypes, NEW ids, Delete(ids)
  PROVE  pend' \in [CallIds -> Entries] /\ calls' \in [Slots -> Nat]
<1>1. pend' \in [CallIds -> Entries]
  BY DEF RouterTypes, Entries, Delete
<1>2. ASSUME NEW s \in Slots PROVE Less(calls[s], Cardinality(EntriesFrom(s) \cap ids)) \in Nat
  <2>1. IsFiniteSet(EntriesFrom(s))
    BY EntriesFinite
  <2>2. Cardinality(EntriesFrom(s) \cap ids) \in Nat /\ calls[s] \in Nat
    BY <2>1, FS_Intersection, FS_CardinalityType DEF RouterTypes
  <2> QED BY <2>2 DEF Less
<1> QED BY <1>1, <1>2 DEF Delete

LEMMA AnswerTypes ==
  ASSUME RouterTypes, NEW ids, NEW w, AnswerTo(ids, w)
  PROVE  owes' \in [Parties -> [CallIds -> Int]]
BY DEF AnswerTo, RouterTypes

\* Its asker is answered; or is the page, and the answer is thrown away.
Settled(i) ==
  \/ AnswerTo({i}, Nobody) /\ UNCHANGED overlong
  \/ pend[i].from = Page /\ overlong' = overlong \cup {<<-session, i>>} /\ UNCHANGED owes

\* An entry goes, its asker is settled with, and its executor is done or told.
LEMMA CallEnds ==
  ASSUME RouterInv, NEW i \in CallIds, InFlight(i),
         Delete({i}), Settled(i),
         working' \subseteq working, \A w \in LiveParties : Who(pend[i].to) = w => <<w, i>> \notin working',
         UNCHANGED <<conn, conns, session, sessions, rund, ext, used>>
  PROVE  RouterInv'
<1>1. /\ Clients' = Clients /\ Ends' = Ends /\ \A f : Who(f)' = Who(f)
      /\ pend' = [j \in CallIds |-> IF j = i THEN NoEntry ELSE pend[j]]
  BY DEF Clients, Ends, Who, Delete
<1>2. /\ \A j \in CallIds : InFlight(j)' <=> InFlight(j) /\ j # i
      /\ \A j \in CallIds : j # i => pend'[j] = pend[j]
  BY <1>1 DEF InFlight
<1>3. /\ \A f : EntriesFrom(f)' = EntriesFrom(f) \ {i}
      /\ {j \in CallIds : InFlight(j)}' \subseteq {j \in CallIds : InFlight(j)}
  BY <1>1, <1>2 DEF EntriesFrom
<1>4. LiveParties' = LiveParties
  BY <1>1 DEF LiveParties
<1>5. \A s \in Slots : calls'[s] = Less(calls[s], Cardinality(EntriesFrom(s) \cap {i}))
  BY DEF Delete
<1>16. pend[i].from = Page => session # 0 /\ Who(Page) = -session /\ -session \in Parties /\ ~Comes(-session) /\ -session < 0
  <2>1. CASE pend[i].from = Page
    <3>1. Page \in Ends
      BY <2>1 DEF RouterInv, EntriesHeld, Page, Gone
    <3>2. Who(Page) = -session /\ session \in Nat
      BY RpcdAssumption DEF Who, RouterInv, RouterTypes
    <3> QED BY <3>1, <3>2, WhoIsParty DEF RouterInv
  <2> QED BY <2>1
<1>6. RouterTypes'
  <2>1. owes' \in [Parties -> [CallIds -> Int]] /\ overlong' \subseteq Parties \X CallIds
    BY <1>16, AnswerTypes DEF RouterInv, RouterTypes, Settled
  <2> QED BY <1>1, <2>1, DeleteTypes DEF RouterInv, RouterTypes
<1>7. OneSlotEach' /\ EntriesHeld' /\ EntriesNameParties' /\ OneServer'
  BY <1>1, <1>2 DEF RouterInv, OneSlotEach, EntriesHeld, EntriesNameParties, OneServer
<1>8. CapsHeld'
  BY <1>3, FewerKeepCaps DEF RouterInv
<1>9. LedgerExact'
  <2>1. ASSUME NEW s \in Clients
        PROVE  calls'[s] = Cardinality(EntriesFrom(s)') /\ calls'[s] <= PER_CLIENT_PENDING
    <3>1. calls[s] = Cardinality(EntriesFrom(s)) /\ calls[s] <= PER_CLIENT_PENDING /\ s \in Slots /\ calls[s] \in Nat
      BY DEF RouterInv, RouterTypes, LedgerExact, Clients
    <3>2. IsFiniteSet(EntriesFrom(s))
      BY EntriesFinite
    <3>4. Less(Cardinality(EntriesFrom(s)), Cardinality(EntriesFrom(s) \cap {i})) = Cardinality(EntriesFrom(s) \ {i})
          /\ Cardinality(EntriesFrom(s) \ {i}) <= Cardinality(EntriesFrom(s))
      BY <3>2, CountedDown
    <3>5. calls'[s] = Cardinality(EntriesFrom(s) \ {i}) /\ calls'[s] <= calls[s]
      BY <3>1, <3>4, <1>5
    <3>3. calls'[s] \in Nat
      BY <1>6, <3>1 DEF RouterTypes
    <3> QED BY <3>1, <3>5, <3>3, <1>3, RpcdAssumption

  <2> QED BY <2>1, <1>1 DEF LedgerExact
<1>10. ASSUME NEW w \in Parties, NEW j \in CallIds, w # 0
       PROVE  /\ ~(j = i /\ Who(pend[i].from) = w) =>
                   owes'[w][j] = owes[w][j] /\ (<<w, j>> \in overlong' <=> <<w, j>> \in overlong)
              /\ j = i /\ Who(pend[i].from) = w =>
                   \/ owes'[w][j] = owes[w][j] - 1 /\ (<<w, j>> \in overlong' <=> <<w, j>> \in overlong)
                   \/ owes'[w][j] = owes[w][j] /\ <<w, j>> \in overlong'
  <2>1. CASE AnswerTo({i}, Nobody) /\ UNCHANGED overlong
    BY <2>1, <1>10 DEF AnswerTo, Nobody
  <2>2. CASE pend[i].from = Page /\ overlong' = overlong \cup {<<-session, i>>} /\ UNCHANGED owes
    BY <2>2, <1>16
  <2> QED BY <2>1, <2>2 DEF Settled
<1>11. 0 \notin Parties
  BY DEF Parties
<1>12. LiveParties \subseteq Parties /\ \A w \in LiveParties : ~Comes(w)
  BY WhoIsParty DEF LiveParties, RouterInv
<1>17. OverlongSpent'
  <2>1. ASSUME NEW w \in Parties, NEW j \in CallIds, <<w, j>> \in overlong'
        PROVE  j \in used /\ ~InFlight(j)' /\ ~Comes(w) /\ w < 0
    <3>1. <<w, j>> \in overlong \/ (j = i /\ w = -session /\ pend[i].from = Page)
      BY <2>1 DEF Settled
    <3>2. CASE <<w, j>> \in overlong
      BY <3>2, <1>2 DEF RouterInv, OverlongSpent
    <3>3. CASE j = i /\ w = -session /\ pend[i].from = Page
      BY <3>3, <1>2, <1>16 DEF RouterInv, EntriesHeld
    <3> QED BY <3>1, <3>2, <3>3
  <2> QED BY <2>1 DEF OverlongSpent, Comes
<1>13. OneAnswerEach'
  <2>1. ASSUME NEW w \in LiveParties, NEW j \in CallIds
        PROVE  owes'[w][j] = IF (InFlight(j)' /\ Who(pend'[j].from) = w) \/ <<w, j>> \in overlong' THEN 1 ELSE 0
    <3>1. owes[w][j] = IF (InFlight(j) /\ Who(pend[j].from) = w) \/ <<w, j>> \in overlong THEN 1 ELSE 0
      BY DEF RouterInv, OneAnswerEach, Awaits
    <3>2. <<w, i>> \notin overlong /\ w \in Parties /\ w # 0
      BY <1>11, <1>12 DEF RouterInv, OverlongSpent
    <3>3. CASE ~(j = i /\ Who(pend[i].from) = w)
      BY <3>1, <3>2, <3>3, <1>2, <1>10
    <3>4. CASE j = i /\ Who(pend[i].from) = w
      BY <3>1, <3>2, <3>4, <1>2, <1>10
    <3> QED BY <3>3, <3>4
  <2> QED BY <2>1, <1>1, <1>4 DEF OneAnswerEach, Awaits
<1>14. ComesClean'
  <2>1. ASSUME NEW w \in Parties, NEW j \in CallIds, Comes(w) PROVE owes'[w][j] = 0
    <3>1. owes[w][j] = 0
      BY <2>1 DEF RouterInv, ComesClean
    <3>2. Who(pend[i].from) # w
      <4>1. pend[i].from \in Ends \cup {Gone}
        BY DEF RouterInv, EntriesHeld
      <4>2. CASE pend[i].from = Gone
        BY <4>2, <1>11 DEF Who, Gone, Page
      <4>3. CASE pend[i].from \in Ends
        BY <4>3, <2>1, WhoIsParty DEF RouterInv
      <4> QED BY <4>1, <4>2, <4>3
    <3> QED BY <3>1, <3>2, <1>10, <1>11
  <2> QED BY <2>1 DEF ComesClean, Comes, RouterInv
<1>15. AbandonedWorkIsCancelled'
  <2>1. ASSUME NEW w \in LiveParties, NEW j \in CallIds, <<w, j>> \in working'
        PROVE  InFlight(j)' /\ pend'[j].at = w /\ pend'[j].from # Gone
    <3>1. InFlight(j) /\ pend[j].at = w /\ pend[j].from # Gone
      BY <2>1 DEF RouterInv, AbandonedWorkIsCancelled
    <3>2. Who(pend[j].to) = w
      BY <3>1 DEF RouterInv, EntriesNameParties
    <3> QED BY <2>1, <3>1, <3>2, <1>2
  <2> QED BY <2>1, <1>1, <1>4 DEF AbandonedWorkIsCancelled
<1> QED BY <1>6, <1>7, <1>8, <1>9, <1>13, <1>14, <1>15, <1>17 DEF RouterInv

LEMMA ExpireKeeps ==
  ASSUME RouterInv, NEW i \in CallIds, Expire(i)
  PROVE  RouterInv'
<1>1. working' \subseteq working /\ \A w \in LiveParties : Who(pend[i].to) = w => <<w, i>> \notin working'
  BY DEF Expire, Told
<1> QED BY <1>1, CallEnds DEF Expire, Settled

LEMMA RespondKeeps ==
  ASSUME RouterInv, NEW e \in Slots \cup {Page}, NEW i \in CallIds, RouteResponse(e, i)
  PROVE  RouterInv'
<1>1. working' \subseteq working /\ <<Who(e), i>> \notin working'
  BY DEF RouteResponse
<1>2. CASE InFlight(i) /\ pend[i].to = e
  BY <1>1, <1>2, CallEnds DEF RouteResponse, Settled
<1>3. CASE ~(InFlight(i) /\ pend[i].to = e)
  <2>1. UNCHANGED <<conn, conns, session, sessions, pend, calls, rund, ext, used, owes, overlong>>
    BY <1>3 DEF RouteResponse
  <2> QED BY <1>1, <2>1, LessWork
<1> QED BY <1>2, <1>3

----------------------------------------------------------------------------
(* The page's session.                                                     *)

LEMMA NextSession ==
  ASSUME RouterTypes, sessions < MaxSession
  PROVE  -(sessions + 1) \in Parties /\ Comes(-(sessions + 1))
<1>1. sessions + 1 \in 1 .. MaxSession
  BY RpcdAssumption DEF RouterTypes
<1>2. -(sessions + 1) \in Parties
  BY <1>1 DEF Parties
<1> QED BY <1>2 DEF Comes, RouterTypes

\* cancel_all: nothing is in flight, the clients are answered, and whatever
\* they were doing they were told to stop.
LEMMA SessionGoneKeeps ==
  ASSUME RouterInv, session # 0, SessionGone,
         \/ session' = 0 /\ sessions' = sessions
         \/ session' = sessions + 1 /\ sessions' = sessions + 1 /\ sessions < MaxSession,
         UNCHANGED <<conn, conns, rund, ext, used, overlong>>
  PROVE  RouterInv'
<1> DEFINE all == {j \in CallIds : InFlight(j)}
           asked == {j \in all : pend[j].from # Page}
           done == {j \in all : pend[j].to # Page}
<1>1. Delete(all) /\ AnswerTo(asked, -session) /\ Told(done, -session)
  BY DEF SessionGone
<1>2. /\ Clients' = Clients /\ \A s \in Clients : Who(s)' = Who(s) /\ Who(s) = conn[s] /\ Who(s) \in Nat /\ s \in Ends
      /\ Ends' \subseteq Clients \cup {Page}
      /\ Page \in Ends' => session' = sessions + 1 /\ sessions < MaxSession /\ Who(Page)' = -(sessions + 1)
  BY RpcdAssumption DEF Clients, Ends, Who, RouterInv, RouterTypes, Slots, Page, Gone
<1>3. \A j \in CallIds : ~InFlight(j)'
  BY <1>1 DEF Delete, InFlight
<1>4. (\A f : EntriesFrom(f)' = {}) /\ {j \in CallIds : InFlight(j)}' = {}
  BY <1>3 DEF EntriesFrom
<1>5. RouterTypes'
  <2>1. session' \in 0 .. sessions' /\ sessions' \in 0 .. MaxSession
    BY RpcdAssumption DEF RouterInv, RouterTypes
  <2>2. working' \subseteq working
    BY <1>1 DEF Told
  <2> HIDE DEF all, asked
  <2> QED BY <1>1, <1>2, <2>1, <2>2, DeleteTypes, AnswerTypes DEF RouterInv, RouterTypes
<1>6. OneSlotEach' /\ EntriesHeld' /\ EntriesNameParties' /\ OneServer'
  BY <1>2, <1>3 DEF RouterInv, OneSlotEach, EntriesHeld, EntriesNameParties, OneServer
<1>7. CapsHeld'
  BY <1>4, FewerKeepCaps DEF RouterInv
<1>8. LedgerExact'
  <2>1. ASSUME NEW s \in Clients PROVE calls'[s] = 0
    <3>1. s \in Slots /\ calls[s] = Cardinality(EntriesFrom(s)) /\ EntriesFrom(s) \cap all = EntriesFrom(s)
      BY DEF Clients, RouterInv, LedgerExact, EntriesFrom
    <3>2. calls'[s] = Less(calls[s], calls[s]) /\ calls[s] \in Nat
      BY <1>1, <3>1, EntriesFinite DEF Delete
    <3> QED BY <3>2 DEF Less
  <2>2. ASSUME NEW s \in Clients'
        PROVE  calls'[s] = Cardinality(EntriesFrom(s)') /\ calls'[s] <= PER_CLIENT_PENDING
    <3>1. EntriesFrom(s)' = {}
      BY <1>4
    <3>2. calls'[s] = 0
      BY <2>1, <1>2
    <3> QED BY <3>1, <3>2, FS_EmptySet, RpcdAssumption

  <2> QED BY <2>2 DEF LedgerExact
<1>9. ASSUME NEW w \in LiveParties'
      PROVE  w \in Parties /\ (Comes(w) \/ (w \in LiveParties /\ w \in Nat))
  <2>1. PICK e \in Ends' : w = Who(e)'
    BY DEF LiveParties
  <2>2. CASE e \in Clients
    <3>1. e \in Slots /\ e # Page /\ e # Gone
      BY <2>2, RpcdAssumption DEF Clients, Slots, Page, Gone
    <3>2. w = conn[e] /\ w = Who(e) /\ e \in Ends /\ w \in Nat
      BY <2>1, <2>2, <3>1, <1>2 DEF Who
    <3> QED BY <3>2, WhoIsParty DEF LiveParties, RouterInv
  <2>3. CASE e = Page
    <3>1. Page \in Ends' /\ w = -session'
      BY <2>1, <2>3 DEF Who
    <3>2. w = -(sessions + 1) /\ sessions < MaxSession
      BY <3>1, <1>2
    <3> QED BY <3>2, NextSession DEF RouterInv
  <2> QED BY <2>1, <2>2, <2>3, <1>2
<1>10. ASSUME NEW w \in Parties, NEW j \in CallIds
       PROVE  owes'[w][j] = IF w = -session THEN 0
                            ELSE IF j \in asked /\ Who(pend[j].from) = w THEN owes[w][j] - 1 ELSE owes[w][j]
  BY <1>1 DEF AnswerTo
<1>11. ASSUME NEW w \in Parties, NEW j \in CallIds, Comes(w) PROVE owes'[w][j] = 0
  <2>1. owes[w][j] = 0
    BY <1>11 DEF RouterInv, ComesClean
  <2>2. CASE j \in asked
    <3>1. pend[j].from \in Ends \cup {Gone}
      BY <2>2 DEF RouterInv, EntriesHeld
    <3>2. pend[j].from \in Ends => ~Comes(Who(pend[j].from))
      BY WhoIsParty DEF RouterInv
    <3>3. Who(Gone) = 0 /\ 0 \notin Parties
      BY DEF Who, Gone, Page, Parties
    <3> QED BY <3>1, <3>2, <3>3, <2>1, <1>10, <1>11
  <2> QED BY <2>1, <2>2, <1>10
<1>15. OverlongSpent'
  BY <1>3, OverlongStays, RpcdAssumption DEF RouterInv, RouterTypes
<1>12. OneAnswerEach'
  <2>1. ASSUME NEW w \in LiveParties', NEW j \in CallIds PROVE owes'[w][j] = 0 /\ <<w, j>> \notin overlong
    <3>0. Comes(w) \/ w \in Nat => <<w, j>> \notin overlong
      BY <1>9 DEF RouterInv, OverlongSpent
    <3>1. CASE Comes(w)
      BY <3>0, <3>1, <1>9, <1>11
    <3>2. CASE w \in LiveParties /\ w \in Nat
      <4>1. owes[w][j] = IF InFlight(j) /\ Who(pend[j].from) = w THEN 1 ELSE 0
        BY <3>0, <3>2 DEF RouterInv, OneAnswerEach, Awaits
      <4>2. Who(Page) = -session /\ ~(-session \in Nat)
        BY DEF Who, RouterInv, RouterTypes
      <4> QED BY <3>0, <4>1, <4>2, <3>2, <1>9, <1>10
    <3> QED BY <3>1, <3>2, <1>9
  <2> QED BY <2>1, <1>3 DEF OneAnswerEach, Awaits
<1>13. ComesClean'
  <2>1. \A w : Comes(w)' => w > conns \/ w < -sessions \/ w < -(sessions + 1)
    BY DEF Comes
  <2>2. \A w \in Parties : Comes(w)' => Comes(w)
    BY <2>1 DEF Comes, RouterInv, RouterTypes, Parties
  <2>3. working' \subseteq working
    BY <1>1 DEF Told
  <2>4. \A d \in working' : d[1] \in Parties
    BY <2>3 DEF RouterInv, RouterTypes
  <2> QED BY <2>2, <2>3, <2>4, <1>11 DEF ComesClean, RouterInv
<1>14. AbandonedWorkIsCancelled'
  <2>1. ASSUME NEW w \in LiveParties', NEW j \in CallIds, <<w, j>> \in working' PROVE FALSE
    <3>1. <<w, j>> \in working /\ ~(j \in done /\ Who(pend[j].to) = w)
      BY <2>1, <1>1 DEF Told
    <3>2. w \in LiveParties /\ w \in Nat
      BY <3>1, <1>9 DEF RouterInv, ComesClean
    <3>3. InFlight(j) /\ Who(pend[j].to) = w
      BY <3>1, <3>2 DEF RouterInv, AbandonedWorkIsCancelled, EntriesNameParties
    <3>4. pend[j].to # Page
      BY <3>2, <3>3 DEF Who, RouterInv, RouterTypes
    <3> QED BY <3>1, <3>3, <3>4
  <2> QED BY <2>1 DEF AbandonedWorkIsCancelled
<1> QED BY <1>5, <1>6, <1>7, <1>8, <1>12, <1>13, <1>14, <1>15 DEF RouterInv

\* The first session, or one after an orderly end, takes nothing over.
LEMMA FirstSessionKeeps ==
  ASSUME RouterInv, session = 0, PageSession
  PROVE  RouterInv'
<1>1. /\ UNCHANGED <<conn, conns, pend, calls, rund, ext, used, owes, working, overlong>>
      /\ session' = sessions + 1 /\ sessions' = sessions + 1 /\ sessions < MaxSession
  BY DEF PageSession
<1>2. /\ Clients' = Clients /\ Ends' = Ends \cup {Page} /\ Page \notin Ends /\ Who(Page)' = -(sessions + 1)
      /\ \A f \in Ends \cup {Gone} : Who(f)' = Who(f)
      /\ (\A j : InFlight(j)' = InFlight(j)) /\ (\A f : EntriesFrom(f)' = EntriesFrom(f))
      /\ {j \in CallIds : InFlight(j)}' = {j \in CallIds : InFlight(j)}
  BY <1>1 DEF Clients, Ends, Who, InFlight, EntriesFrom, RouterInv, RouterTypes, Slots, Page, Gone
<1>3. RouterTypes'
  <2>1. session' \in 0 .. sessions' /\ sessions' \in 0 .. MaxSession
    BY <1>1, RpcdAssumption DEF RouterInv, RouterTypes
  <2> QED BY <1>1, <1>2, <2>1 DEF RouterInv, RouterTypes
<1>4. OneSlotEach' /\ EntriesHeld' /\ EntriesNameParties' /\ OneServer'
  BY <1>1, <1>2 DEF RouterInv, OneSlotEach, EntriesHeld, EntriesNameParties, OneServer
<1>5. CapsHeld' /\ LedgerExact'
  BY <1>1, <1>2 DEF RouterInv, CapsHeld, LedgerExact
<1> DEFINE p == -(sessions + 1)
<1>6. LiveParties' = LiveParties \cup {p}
  BY <1>2 DEF LiveParties
<1>7. p \in Parties /\ Comes(p) /\ \A w \in Parties : Comes(w)' => Comes(w)
  <2>1. p \in Parties /\ Comes(p)
    BY <1>1, NextSession DEF RouterInv
  <2>2. \A w \in Parties : Comes(w)' => Comes(w)
    BY <1>1 DEF Parties, Comes, RouterInv, RouterTypes
  <2> QED BY <2>1, <2>2
<1> HIDE DEF p
<1>8. \A j \in CallIds : InFlight(j) => Who(pend[j].from) # p /\ Who(pend[j].from)' = Who(pend[j].from)
  <2>1. ASSUME NEW j \in CallIds, InFlight(j) PROVE Who(pend[j].from) # p /\ Who(pend[j].from)' = Who(pend[j].from)
    <3>1. pend[j].from \in Ends \cup {Gone}
      BY <2>1 DEF RouterInv, EntriesHeld
    <3>2. pend[j].from \in Ends => ~Comes(Who(pend[j].from))
      BY WhoIsParty DEF RouterInv
    <3>3. Who(Gone) = 0 /\ 0 \notin Parties
      BY DEF Who, Gone, Page, Parties
    <3> QED BY <3>1, <3>2, <3>3, <1>1, <1>2, <1>7
  <2> QED BY <2>1
<1>9. OneAnswerEach'
  <2>1. ASSUME NEW w \in LiveParties', NEW j \in CallIds
        PROVE  owes[w][j] = IF (InFlight(j) /\ Who(pend[j].from) = w) \/ <<w, j>> \in overlong THEN 1 ELSE 0
    <3>1. CASE w = p
      BY <3>1, <1>7, <1>8 DEF RouterInv, ComesClean, OverlongSpent
    <3>2. CASE w # p
      BY <3>2, <1>6 DEF RouterInv, OneAnswerEach, Awaits
    <3> QED BY <3>1, <3>2
  <2>2. ASSUME NEW w \in LiveParties', NEW j \in CallIds
        PROVE  Awaits(w, j)' <=> InFlight(j) /\ Who(pend[j].from) = w
    BY <1>1, <1>2, <1>8 DEF Awaits
  <2> QED BY <2>1, <2>2, <1>1 DEF OneAnswerEach
<1>12. OverlongSpent'
  BY <1>1, <1>2, OverlongStays, RpcdAssumption DEF RouterInv, RouterTypes
<1>10. ComesClean'
  BY <1>1, <1>7 DEF RouterInv, RouterTypes, ComesClean
<1>11. AbandonedWorkIsCancelled'
  BY <1>1, <1>2, <1>6, <1>7 DEF RouterInv, AbandonedWorkIsCancelled, ComesClean
<1> QED BY <1>3, <1>4, <1>5, <1>9, <1>10, <1>11, <1>12 DEF RouterInv

LEMMA SessionsKeep ==
  ASSUME RouterInv, PageGone \/ PageSession
  PROVE  RouterInv'
<1>1. CASE session # 0
  <2>1. CASE PageGone
    BY <1>1, <2>1, SessionGoneKeeps DEF PageGone
  <2>2. CASE PageSession
    BY <1>1, <2>2, SessionGoneKeeps DEF PageSession
  <2> QED BY <2>1, <2>2
<1>2. CASE session = 0
  BY <1>2, FirstSessionKeeps DEF PageGone
<1> QED BY <1>1, <1>2

----------------------------------------------------------------------------
(* Clients come and go.                                                    *)

\* The party behind an end after the step.
WillBe(e) == IF e = Page THEN -session' ELSE IF e = Gone THEN 0 ELSE conn'[e]

\* A new client inherits a slot and nothing else.
LEMMA AcceptKeeps ==
  ASSUME RouterInv, Accept
  PROVE  RouterInv'
<1> DEFINE s == Min(Slots \ Clients)
           c == conns + 1
<1>1. s \in Slots \ Clients
  <2>1. Slots \ Clients \in SUBSET Nat /\ Slots \ Clients # {}
    BY DEF Slots, Clients, Accept
  <2> QED BY <2>1, LowestIsOne
<1>2. /\ conn' = [conn EXCEPT ![s] = c] /\ conns' = c /\ conns < MaxConn
      /\ calls' = [calls EXCEPT ![s] = 0] /\ rund' = rund \ {s} /\ ext' = [ext EXCEPT ![s] = {}]
      /\ UNCHANGED <<session, sessions, pend, used, owes, working, overlong>>
  BY DEF Accept
<1> HIDE DEF s
<1>3. /\ c \in 1 .. MaxConn /\ c \in Parties /\ Comes(c) /\ c \notin {conn[t] : t \in Slots} /\ s # Page /\ s # Gone
      /\ s \in Slots
  BY <1>1, <1>2, RpcdAssumption DEF RouterInv, RouterTypes, Parties, Comes, Page, Gone, Slots
<1>4. /\ Clients' = Clients \cup {s} /\ Ends' = Ends \cup {s} /\ s \notin Ends /\ Page \notin Clients
  BY <1>1, <1>2, <1>3, RpcdAssumption DEF Clients, Ends, RouterInv, RouterTypes, Slots, Page
<1>5. /\ \A f \in Ends \cup {Gone} : WillBe(f) = Who(f)
      /\ WillBe(s) = c
      /\ (\A j : InFlight(j)' = InFlight(j)) /\ (\A f : EntriesFrom(f)' = EntriesFrom(f))
      /\ {j \in CallIds : InFlight(j)}' = {j \in CallIds : InFlight(j)}
  <2>1. WillBe(s) = c
    BY <1>2, <1>3 DEF WillBe, RouterInv, RouterTypes
  <2>2. ASSUME NEW f \in Ends \cup {Gone} PROVE WillBe(f) = Who(f)
    <3>1. f # s
      BY <1>3, <1>4
    <3>2. f \in {Page, Gone} \/ f \in Slots
      BY DEF Ends, Clients
    <3> QED BY <3>1, <3>2, <1>2 DEF Who, WillBe, RouterInv, RouterTypes
  <2>3. \A j : InFlight(j)' = InFlight(j)
    BY <1>2 DEF InFlight
  <2>4. \A f : EntriesFrom(f)' = EntriesFrom(f)
    BY <1>2 DEF InFlight, EntriesFrom
  <2>5. {j \in CallIds : InFlight(j)}' = {j \in CallIds : InFlight(j)}
    BY <1>2 DEF InFlight
  <2> QED BY <2>1, <2>2, <2>3, <2>4, <2>5
<1>6. RouterTypes'
  <2>1. conn' \in [Slots -> 0 .. c] /\ c \in 0 .. MaxConn
    BY <1>1, <1>2, <1>3 DEF RouterInv, RouterTypes
  <2> QED BY <1>1, <1>2, <1>4, <2>1 DEF RouterInv, RouterTypes
<1>7. OneSlotEach'
  <2>1. ASSUME NEW t \in Clients', NEW u \in Clients', conn'[t] = conn'[u] PROVE t = u
    <3>1. t \in Slots /\ u \in Slots /\ (t # s => t \in Clients) /\ (u # s => u \in Clients)
      BY <1>3, <1>4 DEF Clients
    <3>2. /\ conn'[t] = IF t = s THEN c ELSE conn[t]
          /\ conn'[u] = IF u = s THEN c ELSE conn[u]
      BY <1>2, <3>1 DEF RouterInv, RouterTypes
    <3> QED BY <2>1, <3>1, <3>2, <1>3 DEF RouterInv, OneSlotEach
  <2> QED BY <2>1 DEF OneSlotEach
<1>8. OneServer'
  <2>1. ASSUME NEW t \in Clients', NEW u \in Clients', t # u PROVE ext'[t] \cap ext'[u] = {}
    BY <2>1, <1>1, <1>2, <1>4 DEF RouterInv, RouterTypes, OneServer, Clients
  <2> QED BY <2>1 DEF OneServer
<1>9. \A j \in CallIds : InFlight(j) => /\ pend[j].from \in Ends \cup {Gone} /\ pend[j].from # s
                                        /\ pend[j].from # Gone => pend[j].to \in Ends
                                        /\ j \in used
  BY <1>3, <1>4 DEF RouterInv, EntriesHeld
<1>10. EntriesHeld' /\ EntriesNameParties'
  <2>1. EntriesHeld'
    BY <1>2, <1>4, <1>5, <1>9 DEF EntriesHeld
  <2>2. ASSUME NEW j \in CallIds, InFlight(j), pend[j].from # Gone
        PROVE  WillBe(pend[j].from) = pend[j].by /\ WillBe(pend[j].to) = pend[j].at
    BY <2>2, <1>5, <1>9 DEF RouterInv, EntriesNameParties
  <2>3. EntriesNameParties'
    BY <2>2, <1>2, <1>5 DEF EntriesNameParties, Who, WillBe
  <2> QED BY <2>1, <2>3
<1>11. CapsHeld'
  BY <1>5 DEF RouterInv, CapsHeld
<1>12. LedgerExact'
  <2>1. EntriesFrom(s) = {}
    BY <1>9 DEF EntriesFrom
  <2>2. ASSUME NEW t \in Clients' PROVE calls'[t] = Cardinality(EntriesFrom(t)) /\ calls'[t] <= PER_CLIENT_PENDING
    <3>1. CASE t = s
      BY <3>1, <2>1, <1>2, <1>3, FS_EmptySet, RpcdAssumption DEF RouterInv, RouterTypes
    <3>2. CASE t # s
      <4>1. t \in Clients /\ t \in Slots
        BY <3>2, <1>4 DEF Clients
      <4> QED BY <3>2, <4>1, <1>2 DEF RouterInv, RouterTypes, LedgerExact
    <3> QED BY <3>1, <3>2
  <2> QED BY <2>2, <1>5 DEF LedgerExact
<1>13. ASSUME NEW w \in LiveParties', w # c
       PROVE  w \in LiveParties
  <2>1. PICK e \in Ends' : w = WillBe(e)
    BY DEF LiveParties, Who, WillBe
  <2>2. e # s
    BY <1>5, <1>13, <2>1
  <2>3. e \in Ends /\ w = Who(e)
    BY <1>4, <1>5, <2>1, <2>2
  <2> QED BY <2>3 DEF LiveParties
<1>14. \A j \in CallIds : InFlight(j) => Who(pend[j].from) # c /\ WillBe(pend[j].from) = Who(pend[j].from)
  <2>1. ASSUME NEW j \in CallIds, InFlight(j) PROVE Who(pend[j].from) # c /\ WillBe(pend[j].from) = Who(pend[j].from)
    <3>1. pend[j].from \in Ends => ~Comes(Who(pend[j].from))
      BY WhoIsParty DEF RouterInv
    <3>2. Who(Gone) = 0 /\ 0 \notin Parties
      BY DEF Who, Gone, Page, Parties
    <3> QED BY <2>1, <3>1, <3>2, <1>2, <1>3, <1>5, <1>9
  <2> QED BY <2>1
<1> HIDE DEF c
<1>15. OneAnswerEach'
  <2>1. ASSUME NEW w \in LiveParties', NEW j \in CallIds
        PROVE  owes[w][j] = IF (InFlight(j) /\ WillBe(pend[j].from) = w) \/ <<w, j>> \in overlong THEN 1 ELSE 0
    <3>1. CASE w = c
      BY <3>1, <1>3, <1>14 DEF RouterInv, ComesClean, OverlongSpent
    <3>2. CASE w # c
      BY <3>2, <1>13, <1>14 DEF RouterInv, OneAnswerEach, Awaits
    <3> QED BY <3>1, <3>2
  <2>2. ASSUME NEW w \in LiveParties', NEW j \in CallIds
        PROVE  Awaits(w, j)' <=> InFlight(j) /\ WillBe(pend[j].from) = w
    BY <1>2, <1>5 DEF Awaits, Who, WillBe
  <2> QED BY <2>1, <2>2, <1>2 DEF OneAnswerEach
<1>16. \A w \in Parties : Comes(w)' => Comes(w)
  BY <1>2 DEF c, Parties, Comes, RouterInv, RouterTypes
<1>17. ComesClean'
  BY <1>2, <1>16 DEF RouterInv, RouterTypes, ComesClean
<1>18. AbandonedWorkIsCancelled'
  <2>1. ASSUME NEW w \in LiveParties', NEW j \in CallIds, <<w, j>> \in working
        PROVE  InFlight(j) /\ pend[j].at = w /\ pend[j].from # Gone
    <3>1. w # c
      BY <2>1, <1>3 DEF RouterInv, ComesClean
    <3> QED BY <2>1, <3>1, <1>13 DEF RouterInv, AbandonedWorkIsCancelled
  <2> QED BY <2>1, <1>2, <1>5 DEF AbandonedWorkIsCancelled
<1>19. OverlongSpent'
  BY <1>2, <1>3, <1>5, OverlongStays DEF c, RouterInv, RouterTypes
<1> QED BY <1>6, <1>7, <1>8, <1>10, <1>11, <1>12, <1>15, <1>17, <1>18, <1>19 DEF RouterInv

\* A client leaves: what it asked is nobody's, what it was asked is answered.
LEMMA DropClientKeeps ==
  ASSUME RouterInv, NEW s \in Slots, DropClient(s)
  PROVE  RouterInv'
<1> DEFINE orphans == {j \in CallIds : InFlight(j) /\ pend[j].to = s /\ pend[j].from # s}
           told == {j \in EntriesFrom(s) : pend[j].to # s}
           c == conn[s]
<1>1. /\ s \in Clients /\ conn' = [conn EXCEPT ![s] = 0]
      /\ pend' = [j \in CallIds |-> IF j \in EntriesFrom(s) THEN [pend[j] EXCEPT !.from = Gone]
                                    ELSE IF j \in orphans THEN NoEntry ELSE pend[j]]
      /\ calls' = [t \in Slots |-> IF t = s THEN 0 ELSE Less(calls[t], Cardinality(EntriesFrom(t) \cap orphans))]
      /\ AnswerTo(orphans, c) /\ Told(told, c)
      /\ rund' = rund \ {s} /\ ext' = [ext EXCEPT ![s] = {}]
      /\ UNCHANGED <<conns, session, sessions, used, overlong>>
  BY DEF DropClient
<1>2. /\ s # Page /\ s # Gone /\ c \in Nat /\ c # 0
      /\ Clients' = Clients \ {s} /\ Ends' = Ends \ {s} /\ s \in Ends /\ Who(s) = c
      /\ \A f \in (Ends \cup {Gone}) \ {s} : WillBe(f) = Who(f)
  BY <1>1, RpcdAssumption DEF Clients, Ends, Who, WillBe, Slots, Page, Gone, RouterInv, RouterTypes
<1>3. Who(Gone) = 0 /\ WillBe(Gone) = 0 /\ 0 \notin Parties
  BY DEF Who, WillBe, Gone, Page, Parties
<1>4. /\ EntriesFrom(s) \subseteq CallIds /\ orphans \cap EntriesFrom(s) = {}
      /\ \A j \in CallIds : j \in EntriesFrom(s) <=> InFlight(j) /\ pend[j].from = s
  BY DEF EntriesFrom
<1>5. ASSUME NEW j \in CallIds
      PROVE  /\ j \in EntriesFrom(s) => /\ InFlight(j) /\ InFlight(j)' /\ pend'[j].from = Gone /\ pend'[j].to = pend[j].to
                                         /\ pend'[j].by = pend[j].by /\ pend'[j].at = pend[j].at
                                         /\ pend'[j] = [pend[j] EXCEPT !.from = Gone]
             /\ j \in orphans => InFlight(j) /\ ~InFlight(j)' /\ pend'[j] = NoEntry
             /\ j \notin EntriesFrom(s) \cup orphans => pend'[j] = pend[j] /\ InFlight(j)' = InFlight(j)
  <2>1. CASE j \in EntriesFrom(s)
    <3>1. InFlight(j) /\ pend[j] \in Entries /\ pend'[j] = [pend[j] EXCEPT !.from = Gone]
      BY <2>1, <1>1, <1>4 DEF RouterInv, RouterTypes
    <3>2. pend[j].by \in Parties /\ pend'[j].by = pend[j].by /\ pend'[j].from = Gone
          /\ pend'[j].to = pend[j].to /\ pend'[j].at = pend[j].at
      BY <3>1 DEF InFlight, Entries
    <3> QED BY <2>1, <1>4, <3>1, <3>2, <1>3 DEF InFlight, NoEntry
  <2>2. CASE j \in orphans
    BY <2>2, <1>1, <1>4 DEF InFlight
  <2>3. CASE j \notin EntriesFrom(s) \cup orphans
    BY <2>3, <1>1, <1>4 DEF InFlight
  <2> QED BY <2>1, <2>2, <2>3, <1>4
<1>6. \A j \in CallIds : InFlight(j)' => InFlight(j)
  BY <1>5
<1>7. /\ \A t : t # s /\ t # Gone => EntriesFrom(t)' = EntriesFrom(t) \ orphans
      /\ {j \in CallIds : InFlight(j)}' \subseteq {j \in CallIds : InFlight(j)}
  <2>1. ASSUME NEW t, t # s, t # Gone PROVE EntriesFrom(t)' = EntriesFrom(t) \ orphans
    <3>1. ASSUME NEW j \in CallIds
          PROVE  InFlight(j)' /\ pend'[j].from = t <=> InFlight(j) /\ pend[j].from = t /\ j \notin orphans
      BY <2>1, <1>4, <1>5
    <3> QED BY <3>1 DEF EntriesFrom
  <2> QED BY <2>1, <1>6
<1> HIDE DEF orphans, told
<1>8. RouterTypes'
  <2>1. pend' \in [CallIds -> Entries]
    <3>1. ASSUME NEW j \in CallIds PROVE pend'[j] \in Entries
      <4>1. CASE j \in EntriesFrom(s)
        BY <4>1, <1>4, <1>5 DEF RouterInv, RouterTypes, Entries, InFlight
      <4>2. CASE j \in orphans
        BY <4>2, <1>5 DEF Entries
      <4>3. CASE j \notin EntriesFrom(s) \cup orphans
        BY <4>3, <1>5 DEF RouterInv, RouterTypes
      <4> QED BY <4>1, <4>2, <4>3
    <3> QED BY <3>1, <1>1
  <2>2. calls' \in [Slots -> Nat]
    <3>1. ASSUME NEW t \in Slots PROVE Less(calls[t], Cardinality(EntriesFrom(t) \cap orphans)) \in Nat
      <4>1. IsFiniteSet(EntriesFrom(t))
        BY EntriesFinite
      <4>2. Cardinality(EntriesFrom(t) \cap orphans) \in Nat /\ calls[t] \in Nat
        BY <4>1, FS_Intersection, FS_CardinalityType DEF RouterInv, RouterTypes
      <4> QED BY <4>2 DEF Less
    <3> QED BY <3>1, <1>1
  <2>3. owes' \in [Parties -> [CallIds -> Int]]
    BY <1>1, AnswerTypes DEF RouterInv
  <2>4. working' \subseteq working /\ conn' \in [Slots -> 0 .. conns] /\ rund' \subseteq Clients'
        /\ ext' \in [Slots -> SUBSET Methods]
    BY <1>1, <1>2 DEF Told, RouterInv, RouterTypes
  <2> QED BY <1>1, <2>1, <2>2, <2>3, <2>4 DEF RouterInv, RouterTypes
<1>9. OneSlotEach' /\ OneServer'
  BY <1>1, <1>2 DEF RouterInv, RouterTypes, OneSlotEach, OneServer, Clients
<1>10. ASSUME NEW j \in CallIds, InFlight(j)', pend'[j].from # Gone
       PROVE  /\ InFlight(j) /\ pend'[j] = pend[j] /\ pend[j].from \in Ends' /\ pend[j].to \in Ends'
              /\ j \notin orphans
  <2>1. InFlight(j) /\ pend'[j] = pend[j] /\ pend[j].from # s /\ j \notin orphans
    BY <1>10, <1>4, <1>5
  <2>2. pend[j].from \in Ends /\ pend[j].to \in Ends /\ pend[j].to # s
    BY <2>1, <1>10 DEF RouterInv, EntriesHeld, orphans
  <2> QED BY <2>1, <2>2, <1>2
<1>11. EntriesHeld'
  <2>1. \A j \in CallIds : InFlight(j)' => j \in used
    BY <1>6 DEF RouterInv, EntriesHeld
  <2> QED BY <2>1, <1>1, <1>10 DEF EntriesHeld
<1>12. EntriesNameParties'
  <2>1. ASSUME NEW j \in CallIds, InFlight(j)', pend'[j].from # Gone
        PROVE  WillBe(pend'[j].from) = pend'[j].by /\ WillBe(pend'[j].to) = pend'[j].at
    <3>1. /\ InFlight(j) /\ pend'[j] = pend[j] /\ pend[j].from # Gone
          /\ pend[j].from \in Ends \ {s} /\ pend[j].to \in Ends \ {s}
      BY <2>1, <1>2, <1>10
    <3>2. WillBe(pend[j].from) = Who(pend[j].from) /\ WillBe(pend[j].to) = Who(pend[j].to)
      BY <3>1, <1>2
    <3> QED BY <3>1, <3>2 DEF RouterInv, EntriesNameParties
  <2> QED BY <2>1 DEF EntriesNameParties, Who, WillBe
<1>13. CapsHeld'
  <2>1. EntriesFrom(Page)' \subseteq EntriesFrom(Page)
    BY <1>7, <1>2 DEF Page, Gone
  <2> QED BY <2>1, <1>7, FewerKeepCaps DEF RouterInv
<1>14. LedgerExact'
  <2>1. ASSUME NEW t \in Clients'
        PROVE  calls'[t] = Cardinality(EntriesFrom(t)') /\ calls'[t] <= PER_CLIENT_PENDING
    <3>1. /\ t \in Clients /\ t \in Slots /\ t # s /\ t # Gone
          /\ calls[t] = Cardinality(EntriesFrom(t)) /\ calls[t] <= PER_CLIENT_PENDING /\ calls[t] \in Nat
      <4>1. t \in Clients /\ t \in Slots /\ t # s
        BY <1>2 DEF Clients
      <4>2. t # Gone
        BY <4>1, RpcdAssumption DEF Slots, Gone
      <4> QED BY <4>1, <4>2 DEF RouterInv, RouterTypes, LedgerExact
    <3>2. IsFiniteSet(EntriesFrom(t))
      BY EntriesFinite
    <3>3. Less(Cardinality(EntriesFrom(t)), Cardinality(EntriesFrom(t) \cap orphans)) = Cardinality(EntriesFrom(t) \ orphans)
          /\ Cardinality(EntriesFrom(t) \ orphans) <= Cardinality(EntriesFrom(t))
      BY <3>2, CountedDown
    <3>4. calls'[t] = Cardinality(EntriesFrom(t) \ orphans) /\ calls'[t] <= calls[t] /\ calls'[t] \in Nat
      BY <3>1, <3>3, <1>1, <1>8 DEF RouterTypes
    <3>5. EntriesFrom(t)' = EntriesFrom(t) \ orphans
      BY <3>1, <1>7
    <3> QED BY <3>1, <3>4, <3>5, RpcdAssumption

  <2> QED BY <2>1 DEF LedgerExact
<1>15. ASSUME NEW w \in LiveParties'
       PROVE  w \in LiveParties /\ w \in Parties /\ w # c
  <2>1. PICK e \in Ends' : w = WillBe(e)
    BY DEF LiveParties, Who, WillBe
  <2>2. e \in Ends /\ e # s /\ w = Who(e)
    BY <2>1, <1>2
  <2>3. w # c
    BY <2>2, <1>2, WhoIsOne DEF RouterInv
  <2> QED BY <2>2, <2>3, WhoIsParty DEF LiveParties, RouterInv
<1>16. ASSUME NEW w \in Parties, NEW j \in CallIds
       PROVE  owes'[w][j] = IF w = c THEN 0
                            ELSE IF j \in orphans /\ Who(pend[j].from) = w THEN owes[w][j] - 1 ELSE owes[w][j]
  BY <1>1 DEF AnswerTo
<1> HIDE DEF c
<1>17. OneAnswerEach'
  <2>1. ASSUME NEW w \in LiveParties', NEW j \in CallIds
        PROVE  owes'[w][j] = IF (InFlight(j)' /\ WillBe(pend'[j].from) = w) \/ <<w, j>> \in overlong THEN 1 ELSE 0
    <3>1. owes[w][j] = IF (InFlight(j) /\ Who(pend[j].from) = w) \/ <<w, j>> \in overlong THEN 1 ELSE 0
      BY <1>15 DEF RouterInv, OneAnswerEach, Awaits
    <3>7. InFlight(j) => <<w, j>> \notin overlong
      BY <1>15 DEF RouterInv, OverlongSpent
    <3>2. owes'[w][j] = IF j \in orphans /\ Who(pend[j].from) = w THEN owes[w][j] - 1 ELSE owes[w][j]
      BY <1>15, <1>16
    <3>3. w # 0 /\ w # c
      BY <1>15, <1>3
    <3>4. CASE j \in EntriesFrom(s)
      <4>1. Who(pend[j].from) = c /\ j \notin orphans
        BY <3>4, <1>2, <1>4
      <4>2. WillBe(pend'[j].from) = 0
        BY <3>4, <1>3, <1>5
      <4>3. InFlight(j)
        BY <3>4, <1>4
      <4> QED BY <3>1, <3>2, <3>3, <3>7, <4>1, <4>2, <4>3
    <3>5. CASE j \in orphans
      <4>1. InFlight(j) /\ ~InFlight(j)'
        BY <3>5, <1>5
      <4>2. owes'[w][j] = 0
        <5>1. CASE Who(pend[j].from) = w
          BY <3>5, <4>1, <3>1, <3>2, <3>7, <5>1
        <5>2. CASE Who(pend[j].from) # w
          BY <4>1, <3>1, <3>2, <3>7, <5>2
        <5> QED BY <5>1, <5>2
      <4> QED BY <3>7, <4>1, <4>2
    <3>6. CASE j \notin EntriesFrom(s) \cup orphans
      <4>1. pend'[j] = pend[j] /\ (InFlight(j)' <=> InFlight(j))
        BY <3>6, <1>5
      <4>2. CASE InFlight(j)
        <5>1. pend[j].from \in (Ends \cup {Gone}) \ {s}
          BY <3>6, <4>2, <1>4 DEF RouterInv, EntriesHeld
        <5>2. WillBe(pend'[j].from) = Who(pend[j].from)
          BY <4>1, <5>1, <1>2
        <5> QED BY <3>1, <3>2, <3>6, <4>1, <4>2, <5>2
      <4>3. CASE ~InFlight(j)
        BY <3>1, <3>2, <3>6, <4>1, <4>3
      <4> QED BY <4>2, <4>3
    <3> QED BY <3>4, <3>5, <3>6
  <2> QED BY <2>1, <1>1 DEF OneAnswerEach, Awaits, Who, WillBe
<1>18. ComesClean'
  <2>1. ASSUME NEW w \in Parties, NEW j \in CallIds, Comes(w) PROVE owes'[w][j] = 0
    <3>1. owes[w][j] = 0
      BY <2>1 DEF RouterInv, ComesClean
    <3>2. CASE j \in orphans
      <4>1. pend[j].from \in Ends \cup {Gone}
        BY <3>2 DEF RouterInv, EntriesHeld, orphans
      <4>2. pend[j].from \in Ends => ~Comes(Who(pend[j].from))
        BY WhoIsParty DEF RouterInv
      <4> QED BY <4>1, <4>2, <3>1, <2>1, <1>3, <1>16
    <3> QED BY <3>1, <3>2, <1>16
  <2>2. working' \subseteq working /\ \A w : Comes(w)' = Comes(w)
    BY <1>1 DEF Told, Comes
  <2> QED BY <2>1, <2>2, <1>1 DEF ComesClean, RouterInv
<1>19. AbandonedWorkIsCancelled'
  <2>1. ASSUME NEW w \in LiveParties', NEW j \in CallIds, <<w, j>> \in working'
        PROVE  InFlight(j)' /\ pend'[j].at = w /\ pend'[j].from # Gone
    <3>1. <<w, j>> \in working /\ ~(j \in told /\ Who(pend[j].to) = w)
      BY <2>1, <1>1 DEF Told
    <3>2. InFlight(j) /\ pend[j].at = w /\ pend[j].from # Gone /\ Who(pend[j].to) = w
      BY <3>1, <1>15 DEF RouterInv, AbandonedWorkIsCancelled, EntriesNameParties
    <3>3. pend[j].to # s
      BY <3>2, <1>15, <1>2
    <3>4. j \notin EntriesFrom(s) /\ j \notin orphans
      BY <3>1, <3>2, <3>3 DEF told, orphans
    <3> QED BY <3>2, <3>4, <1>5
  <2> QED BY <2>1 DEF AbandonedWorkIsCancelled
<1>20. OverlongSpent'
  BY <1>1, <1>6, OverlongStays, RpcdAssumption DEF RouterInv, RouterTypes
<1> QED BY <1>8, <1>9, <1>11, <1>12, <1>13, <1>14, <1>17, <1>18, <1>19, <1>20 DEF RouterInv

----------------------------------------------------------------------------
(* A request.                                                              *)

\* rpcd's own methods, and refusals: answered at once.
LEMMA AnsweredAtOnce ==
  ASSUME RouterInv, NEW i \in CallIds, used' = used \cup {i},
         UNCHANGED <<conn, conns, session, sessions, pend, calls, rund, ext, owes, working, overlong>>
  PROVE  RouterInv'
<1>1. RouterTypes'
  BY DEF RouterInv, RouterTypes, Clients
<1>2. /\ Clients' = Clients /\ Ends' = Ends
      /\ \A f : Who(f)' = Who(f) /\ EntriesFrom(f)' = EntriesFrom(f)
      /\ \A j : InFlight(j)' = InFlight(j)
      /\ {j \in CallIds : InFlight(j)}' = {j \in CallIds : InFlight(j)}
  BY DEF Clients, Ends, Who, EntriesFrom, InFlight
<1>3. LiveParties' = LiveParties
  BY <1>2 DEF LiveParties
<1>4. OneSlotEach' /\ EntriesHeld' /\ EntriesNameParties' /\ OneServer'
  BY <1>2 DEF RouterInv, OneSlotEach, EntriesHeld, EntriesNameParties, OneServer
<1>5. ComesClean' /\ OverlongSpent' /\ OneAnswerEach' /\ AbandonedWorkIsCancelled'
  BY <1>2, <1>3 DEF RouterInv, ComesClean, Comes, OverlongSpent, OneAnswerEach, Awaits, AbandonedWorkIsCancelled
<1>6. CapsHeld' /\ LedgerExact'
  BY <1>2 DEF RouterInv, CapsHeld, LedgerExact
<1> QED BY <1>1, <1>4, <1>5, <1>6 DEF RouterInv

\* Whoever is chosen to serve is there.
LEMMA ExecutorIsThere ==
  ASSUME NEW e, NEW t, NEW x \in Executor(e, t)
  PROVE  x \in Ends
<1>1. CASE t = "page"
  BY <1>1 DEF Executor, Ends
<1>2. CASE t # "page"
  <2>1. Serving(t) \subseteq Clients
    BY DEF Serving
  <2>2. Serving(t) # {} /\ x = Min(Serving(t))
    BY <1>2 DEF Executor
  <2>3. Serving(t) \in SUBSET Nat
    BY <2>1 DEF Clients, Slots
  <2> QED BY <2>1, <2>2, <2>3, LowestIsOne DEF Ends
<1> QED BY <1>1, <1>2

\* An entry is made, within every cap, and its executor starts.
LEMMA EnterKeeps ==
  ASSUME RouterInv, NEW e \in Ends, NEW i \in CallIds, NEW x \in Ends,
         ~InFlight(i), i \notin used, ~Overloaded(e), Enter(e, i, x), used' = used \cup {i},
         UNCHANGED <<conn, conns, session, sessions, rund, ext, overlong>>
  PROVE  RouterInv'
<1> DEFINE entry == [from |-> e, to |-> x, by |-> Who(e), at |-> Who(x)]
<1>1. /\ pend' = [pend EXCEPT ![i] = entry]
      /\ calls' = IF e = Page THEN calls ELSE [calls EXCEPT ![e] = @ + 1]
      /\ working' = working \cup {<<Who(x), i>>}
      /\ owes' = [owes EXCEPT ![Who(e)][i] = @ + 1]
  BY DEF Enter
<1>2. /\ Who(e) \in Parties /\ Who(x) \in Parties /\ e # Gone /\ x # Gone
      /\ ~Comes(Who(e)) /\ ~Comes(Who(x)) /\ e \in Clients \cup {Page} /\ x \in Clients \cup {Page}
      /\ Page \notin Slots
  BY WhoIsParty, RpcdAssumption DEF RouterInv, Ends, Slots, Page
<1>3. /\ entry \in Entries /\ entry # NoEntry
      /\ entry.from = e /\ entry.to = x /\ entry.by = Who(e) /\ entry.at = Who(x)
  <2>1. e \in Slots \cup {Page, Gone} /\ x \in Slots \cup {Page}
    BY <1>2 DEF Clients
  <2>2. entry \in Entries
    BY <2>1, <1>2 DEF Entries
  <2>3. entry.from # NoEntry.from
    BY <1>2 DEF NoEntry
  <2> QED BY <2>2, <2>3
<1> HIDE DEF entry
<1>4. /\ pend'[i] = entry /\ \A j \in CallIds : j # i => pend'[j] = pend[j]
  BY <1>1 DEF RouterInv, RouterTypes
<1>5. \A j \in CallIds : InFlight(j)' <=> InFlight(j) \/ j = i
  BY <1>3, <1>4 DEF InFlight
<1>6. /\ Clients' = Clients /\ Ends' = Ends /\ \A f : Who(f)' = Who(f)
      /\ {j \in CallIds : InFlight(j)}' = {j \in CallIds : InFlight(j)} \cup {i}
  <2>1. {j \in CallIds : InFlight(j)}' = {j \in CallIds : InFlight(j)} \cup {i}
    BY <1>5
  <2> QED BY <2>1 DEF Clients, Ends, Who
<1>7. /\ EntriesFrom(e)' = EntriesFrom(e) \cup {i} /\ i \notin EntriesFrom(e)
      /\ \A f : f # e => EntriesFrom(f)' = EntriesFrom(f)
  BY <1>3, <1>4, <1>5 DEF EntriesFrom
<1>8. LiveParties' = LiveParties /\ LiveParties \subseteq Parties /\ \A w \in LiveParties : ~Comes(w)
  BY <1>6, WhoIsParty DEF LiveParties, RouterInv
<1>9. RouterTypes'
  <2>1. pend' \in [CallIds -> Entries]
    BY <1>1, <1>3 DEF RouterInv, RouterTypes
  <2>2. calls' \in [Slots -> Nat]
    BY <1>1, <1>2 DEF RouterInv, RouterTypes, Clients
  <2>3. owes' \in [Parties -> [CallIds -> Int]]
    BY <1>1, <1>2 DEF RouterInv, RouterTypes
  <2>4. working' \subseteq Parties \X CallIds
    BY <1>1, <1>2 DEF RouterInv, RouterTypes
  <2> QED BY <1>6, <2>1, <2>2, <2>3, <2>4 DEF RouterInv, RouterTypes
<1>10. OneSlotEach' /\ OneServer'
  BY <1>6 DEF RouterInv, OneSlotEach, OneServer
<1>11. EntriesHeld'
  BY <1>3, <1>4, <1>5, <1>6 DEF RouterInv, EntriesHeld
<1>12. EntriesNameParties'
  <2>1. ASSUME NEW j \in CallIds, InFlight(j)', pend'[j].from # Gone
        PROVE  Who(pend'[j].from) = pend'[j].by /\ Who(pend'[j].to) = pend'[j].at
    <3>1. CASE j = i
      BY <3>1, <1>3, <1>4
    <3>2. CASE j # i
      BY <3>2, <2>1, <1>4, <1>5 DEF RouterInv, EntriesNameParties
    <3> QED BY <3>1, <3>2
  <2> QED BY <2>1, <1>6 DEF EntriesNameParties, Who
<1>13. CapsHeld'
  <2>1. /\ IsFiniteSet(EntriesFrom(Page)) /\ Cardinality(EntriesFrom(Page)) \in Nat
        /\ IsFiniteSet({j \in CallIds : InFlight(j)}) /\ Cardinality({j \in CallIds : InFlight(j)}) \in Nat
    BY EntriesFinite
  <2>2. Cardinality({j \in CallIds : InFlight(j)}) < MAX_PENDING /\ (e = Page => Cardinality(EntriesFrom(Page)) < PAGE_PENDING)
    BY <2>1, RpcdAssumption DEF Overloaded
  <2>3. Cardinality({j \in CallIds : InFlight(j)}') <= MAX_PENDING
    <3> DEFINE T == {j \in CallIds : InFlight(j)}
    <3>1. IsFiniteSet(T) /\ Cardinality(T) \in Nat /\ Cardinality(T) < MAX_PENDING
      BY <2>1, <2>2
    <3>2. {j \in CallIds : InFlight(j)'} = T \cup {i}
      BY <1>5
    <3> HIDE DEF T
    <3>3. Cardinality(T \cup {i}) <= MAX_PENDING
      BY <3>1, OneMore, RpcdAssumption

    <3> QED BY <3>2, <3>3 DEF InFlight
  <2>4. Cardinality(EntriesFrom(Page)') <= PAGE_PENDING
    <3>1. CASE e = Page
      <4> DEFINE T == EntriesFrom(Page)
      <4>1. IsFiniteSet(T) /\ Cardinality(T) \in Nat /\ Cardinality(T) < PAGE_PENDING
        BY <3>1, <2>1, <2>2
      <4>2. EntriesFrom(Page)' = T \cup {i}
        <5>1. ASSUME NEW j \in CallIds
              PROVE  (InFlight(j)' /\ pend'[j].from = Page) <=> (InFlight(j) /\ pend[j].from = Page) \/ j = i
          BY <3>1, <1>3, <1>4, <1>5
        <5> QED BY <5>1 DEF EntriesFrom
      <4> HIDE DEF T
      <4>3. Cardinality(T \cup {i}) <= PAGE_PENDING
        BY <4>1, OneMore, RpcdAssumption

      <4> QED BY <4>2, <4>3
    <3>2. CASE e # Page
      BY <3>2, <1>7 DEF RouterInv, CapsHeld
    <3> QED BY <3>1, <3>2
  <2> QED BY <2>3, <2>4 DEF CapsHeld
<1>14. LedgerExact'
  <2>1. ASSUME NEW s \in Clients'
        PROVE  calls'[s] = Cardinality(EntriesFrom(s)') /\ calls'[s] <= PER_CLIENT_PENDING
    <3>1. /\ s \in Slots /\ calls[s] = Cardinality(EntriesFrom(s)) /\ calls[s] <= PER_CLIENT_PENDING /\ calls[s] \in Nat
          /\ s # Page
      BY <1>2, <1>6 DEF RouterInv, RouterTypes, LedgerExact, Clients
    <3>2. CASE s = e
      <4>1. calls[s] < PER_CLIENT_PENDING
        BY <3>1, <3>2, RpcdAssumption DEF Overloaded
      <4>2. calls'[s] = calls[s] + 1
        BY <3>1, <3>2, <1>1 DEF RouterInv, RouterTypes
      <4>3. Cardinality(EntriesFrom(s) \cup {i}) = Cardinality(EntriesFrom(s)) + 1
        <5>1. IsFiniteSet(EntriesFrom(s)) /\ i \notin EntriesFrom(s)
          BY <3>2, <1>7, EntriesFinite
        <5> QED BY <5>1, FS_AddElement
      <4> QED BY <3>1, <3>2, <4>1, <4>2, <4>3, <1>7, RpcdAssumption

    <3>3. CASE s # e
      <4>1. calls'[s] = calls[s]
        BY <3>1, <3>3, <1>1, <1>2 DEF RouterInv, RouterTypes, Clients
      <4> QED BY <3>1, <3>3, <4>1, <1>7
    <3> QED BY <3>2, <3>3
  <2> QED BY <2>1 DEF LedgerExact
<1>15. OneAnswerEach'
  <2>1. ASSUME NEW w \in LiveParties, NEW j \in CallIds
        PROVE  owes'[w][j] = IF (InFlight(j)' /\ Who(pend'[j].from) = w) \/ <<w, j>> \in overlong THEN 1 ELSE 0
    <3>1. owes[w][j] = IF (InFlight(j) /\ Who(pend[j].from) = w) \/ <<w, j>> \in overlong THEN 1 ELSE 0
      BY DEF RouterInv, OneAnswerEach, Awaits
    <3>5. <<w, i>> \notin overlong
      BY <1>8 DEF RouterInv, OverlongSpent
    <3>2. owes'[w][j] = IF w = Who(e) /\ j = i THEN owes[w][j] + 1 ELSE owes[w][j]
      BY <1>1, <1>8 DEF RouterInv, RouterTypes
    <3>3. CASE j = i
      <4>1. InFlight(j)' /\ Who(pend'[j].from) = Who(e) /\ owes[w][j] = 0
        BY <3>1, <3>3, <3>5, <1>3, <1>4, <1>5
      <4>2. CASE w = Who(e)
        <5>1. owes'[w][j] = owes[w][j] + 1
          BY <3>2, <3>3, <4>2
        <5> QED BY <4>1, <4>2, <5>1
      <4>3. CASE w # Who(e)
        BY <3>2, <3>3, <3>5, <4>1, <4>3
      <4> QED BY <4>2, <4>3
    <3>4. CASE j # i
      <4>1. pend'[j] = pend[j] /\ (InFlight(j)' <=> InFlight(j))
        BY <3>4, <1>4, <1>5
      <4>2. owes'[w][j] = owes[w][j]
        BY <3>2, <3>4
      <4> QED BY <3>1, <4>1, <4>2
    <3> QED BY <3>3, <3>4
  <2> QED BY <2>1, <1>8 DEF OneAnswerEach, Awaits, Who
<1>16. ComesClean'
  <2>1. ASSUME NEW w \in Parties, NEW j \in CallIds, Comes(w) PROVE owes'[w][j] = 0
    BY <2>1, <1>1, <1>2 DEF RouterInv, RouterTypes, ComesClean
  <2>2. ASSUME NEW d \in working' PROVE d[2] \in used' /\ ~Comes(d[1])
    BY <2>2, <1>1, <1>2 DEF RouterInv, ComesClean
  <2> QED BY <2>1, <2>2 DEF ComesClean, Comes
<1>17. AbandonedWorkIsCancelled'
  <2>1. ASSUME NEW w \in LiveParties, NEW j \in CallIds, <<w, j>> \in working'
        PROVE  InFlight(j)' /\ pend'[j].at = w /\ pend'[j].from # Gone
    <3>1. CASE j = i
      <4>1. <<w, j>> \notin working
        BY <3>1 DEF RouterInv, ComesClean
      <4>2. w = Who(x)
        BY <4>1, <2>1, <1>1
      <4> QED BY <3>1, <4>2, <1>2, <1>3, <1>4, <1>5
    <3>2. CASE j # i
      BY <3>2, <2>1, <1>1, <1>4, <1>5 DEF RouterInv, AbandonedWorkIsCancelled
    <3> QED BY <3>1, <3>2
  <2> QED BY <2>1, <1>8 DEF AbandonedWorkIsCancelled
<1>18. OverlongSpent'
  <2>1. ASSUME NEW w \in Parties, NEW j \in CallIds, <<w, j>> \in overlong
        PROVE  j \in used' /\ ~InFlight(j)' /\ ~Comes(w)' /\ w < 0
    <3>1. j \in used /\ ~InFlight(j) /\ ~Comes(w) /\ w < 0
      BY <2>1 DEF RouterInv, OverlongSpent
    <3> QED BY <3>1, <1>5 DEF Comes
  <2> QED BY <2>1 DEF OverlongSpent
<1> QED BY <1>9, <1>10, <1>11, <1>12, <1>13, <1>14, <1>15, <1>16, <1>17, <1>18 DEF RouterInv

LEMMA RequestKeeps ==
  ASSUME RouterInv, NEW e \in Slots \cup {Page}, NEW i \in CallIds, NEW t \in Targets, Request(e, i, t)
  PROVE  RouterInv'
<1>1. CASE t = "rpcd" \/ InFlight(i) \/ Overloaded(e) \/ Executor(e, t) = {}
  BY <1>1, AnsweredAtOnce DEF Request
<1>2. CASE ~(t = "rpcd" \/ InFlight(i) \/ Overloaded(e) \/ Executor(e, t) = {})
  <2>1. PICK x \in Executor(e, t) : Enter(e, i, x)
    BY <1>2 DEF Request
  <2>2. x \in Ends /\ e \in Ends
    BY ExecutorIsThere DEF Request
  <2> QED BY <1>2, <2>1, <2>2, EnterKeeps DEF Request
<1> QED BY <1>1, <1>2

----------------------------------------------------------------------------
LEMMA RouterStarts ==
  ASSUME RouterInit
  PROVE  RouterInv
<1>1. /\ Clients = {} /\ Ends = {} /\ (\A i \in CallIds : ~InFlight(i)) /\ (\A e : EntriesFrom(e) = {})
      /\ {i \in CallIds : InFlight(i)} = {} /\ LiveParties = {}
  BY DEF RouterInit, Clients, Ends, InFlight, EntriesFrom, LiveParties
<1>2. RouterTypes
  BY <1>1, RpcdAssumption DEF RouterInit, RouterTypes, Entries
<1>3. OneSlotEach /\ EntriesHeld /\ EntriesNameParties /\ OneServer /\ OneAnswerEach /\ AbandonedWorkIsCancelled
      /\ LedgerExact
  BY <1>1 DEF OneSlotEach, EntriesHeld, EntriesNameParties, OneServer, OneAnswerEach, AbandonedWorkIsCancelled,
              LedgerExact
<1>4. ComesClean
  BY DEF RouterInit, ComesClean
<1>6. OverlongSpent
  BY DEF RouterInit, OverlongSpent
<1>5. CapsHeld
  BY <1>1, FS_EmptySet, RpcdAssumption DEF CapsHeld
<1> QED BY <1>2, <1>3, <1>4, <1>5, <1>6 DEF RouterInv

LEMMA RouterStep ==
  ASSUME RouterInv, [RouterNext]_routerVars
  PROVE  RouterInv'
<1>1. CASE Accept
  BY <1>1, AcceptKeeps
<1>2. CASE PageGone \/ PageSession
  BY <1>2, SessionsKeep
<1>3. CASE \E s \in Slots : DropClient(s)
  BY <1>3, DropClientKeeps
<1>4. CASE \E s \in Slots : ServeProc(s)
  BY <1>4, ServeProcKeeps
<1>5. CASE \E s \in Slots, m \in Methods : Serve(s, m)
  BY <1>5, ServeKeeps
<1>6. CASE \E e \in Slots \cup {Page}, i \in CallIds : Cancel(e, i)
  BY <1>6, CancelKeeps
<1>7. CASE \E e \in Slots \cup {Page}, i \in CallIds : RouteResponse(e, i)
  BY <1>7, RespondKeeps
<1>8. CASE \E e \in Slots \cup {Page}, i \in CallIds, t \in Targets : Request(e, i, t)
  BY <1>8, RequestKeeps
<1>9. CASE \E i \in CallIds : Expire(i)
  BY <1>9, ExpireKeeps
<1>10. CASE UNCHANGED routerVars
  BY <1>10, RouterStutters
<1> QED BY <1>1, <1>2, <1>3, <1>4, <1>5, <1>6, <1>7, <1>8, <1>9, <1>10 DEF RouterNext

\* Types hold in every reachable state, and the table never outgrows its caps
\* (pend_add's MAX_PENDING, the page's WIRE_PENDING).
THEOREM TypeCorrect == RouterSpec => []RouterTypeOK
<1>1. ASSUME RouterInv PROVE RouterTypeOK
  BY <1>1, RpcdAssumption DEF RouterInv, RouterTypes, CapsHeld, RouterTypeOK
<1> QED BY <1>1, RouterStarts, RouterStep, PTL DEF RouterSpec

\* Every call rpcd takes is answered once to the party that made it, its entry
\* names that party and its executor whatever slots are reused, the counts
\* agree, a method has one server, and whoever works for nobody was told
\* (route_request, route_response, drop_client, cancel_all, sweep).
THEOREM RouterKeepsItsWord == RouterSpec => []RouterExact
<1>1. ASSUME RouterInv PROVE RouterExact
  BY <1>1 DEF RouterInv, RouterExact
<1> QED BY <1>1, RouterStarts, RouterStep, PTL DEF RouterSpec

----------------------------------------------------------------------------
(* Apps and the windows that show them.                                    *)

Births == Nat \ {0}
NoteSet ==
  [kind : {"opened", "closed"}, app : Terms, n : Births] \cup [kind : {"create"}, app : Webs, n : Births]
  \cup [kind : {"exited"}, app : Managed, n : Births]
WordSet == [kind : {"stop"}, app : Managed, n : Nat] \cup [kind : {"close"}, app : Shells, n : Nat]
           \cup [kind : {"watch"}, app : {"page"}, n : Nat]
WindowSet == [app : All, n : Births, exited : BOOLEAN]

FacesTypes ==
  /\ run \in [All -> Nat] /\ spawned \in Nat /\ pty \subseteq Terms
  /\ streams \subseteq [app : Terms, n : Births] /\ control \in {"up", "lost"}
  /\ upward \in Seq(NoteSet) /\ downward \in Seq(WordSet)
  /\ windows \subseteq WindowSet /\ reading \subseteq [app : Webs, n : Births]

\* Everything that is said of a run is of one there has been, and none is of a
\* run later than the one its app is in.
Was(a, n) == n <= spawned /\ (run[a] = 0 \/ n <= run[a])
Numbered ==
  /\ \A a \in All : run[a] <= spawned
  /\ \A s \in streams : Was(s.app, s.n)
  /\ \A w \in windows : Was(w.app, w.n)
  /\ \A r \in reading : Was(r.app, r.n)
  /\ \A i \in DOMAIN upward : Was(upward[i].app, upward[i].n)
  /\ \A s, t \in streams : s.n = t.n => s = t

\* Behind the notice that a terminal opened is the one that it closed, or the
\* terminal is there; none is there that was said to have closed.
ClosedTrue ==
  \A i \in DOMAIN upward : upward[i].kind = "closed" => \A s \in streams : s.n # upward[i].n
OpenedTrue ==
  \A i \in DOMAIN upward : upward[i].kind = "opened" =>
    \/ Of(upward[i].app, upward[i].n) \in streams
    \/ \E j \in DOMAIN upward : j > i /\ upward[j].kind = "closed" /\ upward[j].n = upward[i].n

\* Behind the notice of a run is that of its end, unless it goes on or its end
\* could not be noted; and no notice, window or bundle is of a later run than
\* the one whose end is told after it.
Says(i, kind, a, n) == upward[i].kind = kind /\ upward[i].app = a /\ upward[i].n = n
BornTrue ==
  \A i \in DOMAIN upward : upward[i].kind \in {"opened", "create"} /\ upward[i].app \in Managed =>
    \/ Alive(upward[i].app, upward[i].n) \/ upward[i].n \in unheard
    \/ \E j \in DOMAIN upward : j > i /\ Says(j, "exited", upward[i].app, upward[i].n)
ExitedTrue ==
  \A i \in DOMAIN upward : upward[i].kind = "exited" =>
    /\ run[upward[i].app] # upward[i].n
    /\ \A w \in windows : w.app = upward[i].app => w.n <= upward[i].n
    /\ \A r \in reading : r.app = upward[i].app => r.n <= upward[i].n
    /\ \A j \in DOMAIN upward : j < i /\ upward[j].app = upward[i].app => upward[j].n <= upward[i].n

\* The conjuncts of WindowsTrue, with the words that are on the way.
ScreensTrue ==
  control = "up" => \A w \in windows : w.app \in Terms =>
    Of(w.app, w.n) \in streams \/ \E i \in DOMAIN upward : upward[i].kind = "closed" /\ upward[i].n = w.n
Farewell(s) ==
  \E i \in DOMAIN downward :
    downward[i].app = s.app /\ (downward[i].kind = "stop" \/ (downward[i].kind = "close" /\ downward[i].n = s.n))
Faced(s) ==
  \/ \E w \in windows : w.app = s.app /\ w.n = s.n
  \/ \E i \in DOMAIN upward : Says(i, "opened", s.app, s.n)
  \/ s.n \in headless \/ s.app \in stopping \/ Farewell(s)
StreamsTrue == control = "up" => \A s \in streams : Alive(s.app, s.n) => Faced(s)
Fate(a, n) == Alive(a, n) \/ n \in unheard \/ \E i \in DOMAIN upward : Says(i, "exited", a, n)
MarksTrue == \A w \in windows : w.app \in Managed => IF w.exited THEN ~Alive(w.app, w.n) ELSE Fate(w.app, w.n)
ReadTrue == \A r \in reading : Fate(r.app, r.n)
StopComes(a) == \E i \in DOMAIN downward : downward[i].kind = "stop" /\ downward[i].app = a
DismissTrue ==
  /\ stopping \subseteq latch
  /\ \A a \in dismissed \cap Managed : StopComes(a) \/ (IF run[a] = 0 THEN a \in latch ELSE a \in stopping)
LineEmpty == control = "lost" => upward = <<>> /\ downward = <<>>

NoticesTrue == ClosedTrue /\ OpenedTrue /\ BornTrue /\ ExitedTrue
DeskTrue == ScreensTrue /\ MarksTrue /\ ReadTrue
FacesInv == FacesTypes /\ Numbered /\ NoticesTrue /\ DeskTrue /\ StreamsTrue /\ DismissTrue /\ LineEmpty

LEMMA Added ==
  ASSUME NEW S, NEW q \in Seq(S), NEW m \in S, NEW p, p = Append(q, m)
  PROVE /\ p \in Seq(S) /\ Len(q) + 1 \in DOMAIN p /\ p[Len(q) + 1] = m
        /\ \A i \in DOMAIN q : i \in DOMAIN p /\ p[i] = q[i] /\ i < Len(q) + 1 /\ i \in Nat
        /\ \A i \in DOMAIN p : i \in DOMAIN q \/ (i = Len(q) + 1 /\ p[i] = m)
        /\ Len(q) \in Nat
OBVIOUS

LEMMA Dropped ==
  ASSUME NEW S, NEW q \in Seq(S), q # <<>>, NEW p, p = Tail(q)
  PROVE /\ p \in Seq(S) /\ 1 \in DOMAIN q /\ Head(q) = q[1] /\ Head(q) \in S
        /\ \A i \in DOMAIN p : i \in Nat /\ i > 0 /\ i + 1 \in DOMAIN q /\ p[i] = q[i + 1]
        /\ \A i \in DOMAIN q : i \in Nat /\ (i = 1 \/ (i > 1 /\ i - 1 \in DOMAIN p /\ p[i - 1] = q[i]))
<1>1. /\ p \in Seq(S) /\ 1 \in DOMAIN q /\ Head(q) = q[1] /\ Head(q) \in S
  OBVIOUS
<1>2. \A i \in DOMAIN p : i \in Nat /\ i > 0 /\ i + 1 \in DOMAIN q /\ p[i] = q[i + 1]
  OBVIOUS
<1>3. \A i \in DOMAIN q : i \in Nat /\ (i = 1 \/ (i > 1 /\ i - 1 \in DOMAIN p /\ p[i - 1] = q[i]))
  OBVIOUS
<1> QED BY <1>1, <1>2, <1>3

\* A step that says nothing to the page and starts and ends no run: windows may leave.
LEMMA Aside ==
  ASSUME FacesInv, UNCHANGED <<run, spawned, streams, control, upward, reading, unheard>>, windows' \subseteq windows
  PROVE Numbered' /\ NoticesTrue' /\ DeskTrue'
<1>1. Numbered'
  BY DEF FacesInv, Numbered, Was
<1>2. ClosedTrue' /\ OpenedTrue'
  BY DEF FacesInv, NoticesTrue, ClosedTrue, OpenedTrue
<1>3. BornTrue'
  BY DEF FacesInv, NoticesTrue, BornTrue, Alive, Says
<1>4. ExitedTrue'
  BY DEF FacesInv, NoticesTrue, ExitedTrue
<1>5. ScreensTrue'
  BY DEF FacesInv, DeskTrue, ScreensTrue
<1>6. MarksTrue' /\ ReadTrue'
  BY DEF FacesInv, DeskTrue, MarksTrue, ReadTrue, Fate, Alive, Says
<1> QED BY <1>1, <1>2, <1>3, <1>4, <1>5, <1>6 DEF NoticesTrue, DeskTrue

\* The head of what the guest is told is read.
LEMMA WordRead ==
  ASSUME FacesInv, downward # <<>>, downward' = Tail(downward)
  PROVE /\ downward' \in Seq(WordSet) /\ Head(downward) \in WordSet /\ control = "up"
        /\ \A i \in DOMAIN downward : downward[i] = Head(downward) \/ \E j \in DOMAIN downward' : downward'[j] = downward[i]
<1>1. downward \in Seq(WordSet)
  BY DEF FacesInv, FacesTypes
<1>2. control = "up"
  BY DEF FacesInv, FacesTypes, LineEmpty
<1>3. /\ downward' \in Seq(WordSet) /\ Head(downward) = downward[1] /\ Head(downward) \in WordSet
      /\ \A i \in DOMAIN downward : i = 1 \/ (i - 1 \in DOMAIN downward' /\ downward'[i - 1] = downward[i])
  BY <1>1, Dropped
<1> QED BY <1>2, <1>3

LEMMA StopStep == ASSUME FacesInv, OnStop PROVE FacesInv'
<1> DEFINE m == Head(downward)
<1>1. /\ downward # <<>> /\ m.kind = "stop" /\ downward' = Tail(downward) /\ latch' = latch \cup {m.app}
      /\ stopping' = IF run[m.app] # 0 THEN stopping \cup {m.app} ELSE stopping
      /\ UNCHANGED <<run, pty, spawned, streams, watch, control, upward, windows, reading, headless, unheard, dismissed>>
  BY DEF OnStop, Asked, rpcd, desktop, history
<1>2. /\ downward' \in Seq(WordSet) /\ m \in WordSet /\ control = "up"
      /\ \A i \in DOMAIN downward : downward[i] = m \/ \E j \in DOMAIN downward' : downward'[j] = downward[i]
  BY <1>1, WordRead
<1>3. m.app \in Managed
  BY <1>1, <1>2 DEF WordSet
<1> HIDE DEF m
<1>4. FacesTypes'
  BY <1>1, <1>2 DEF FacesInv, FacesTypes
<1>5. Numbered' /\ NoticesTrue' /\ DeskTrue'
  BY <1>1, Aside
<1>6. StreamsTrue'
  <2> SUFFICES ASSUME NEW s \in streams, Alive(s.app, s.n) PROVE Faced(s)'
    BY <1>1 DEF StreamsTrue, Alive
  <2>1. Faced(s) /\ run[s.app] = s.n /\ s.n # 0
    BY <1>2 DEF FacesInv, FacesTypes, StreamsTrue, Alive, Births
  <2>2. Farewell(s) => Farewell(s)' \/ s.app \in stopping'
    BY <1>1, <1>2, <2>1 DEF Farewell
  <2> QED BY <1>1, <2>1, <2>2 DEF Faced, Says
<1>7. DismissTrue'
  <2>1. stopping \subseteq latch /\ stopping' \subseteq latch'
    BY <1>1 DEF FacesInv, DismissTrue
  <2>2. ASSUME NEW a \in dismissed \cap Managed
        PROVE  StopComes(a)' \/ (IF run'[a] = 0 THEN a \in latch' ELSE a \in stopping')
    <3>1. StopComes(a) \/ (IF run[a] = 0 THEN a \in latch ELSE a \in stopping)
      BY DEF FacesInv, DismissTrue
    <3>2. CASE StopComes(a)
      <4>1. PICK i \in DOMAIN downward : downward[i].kind = "stop" /\ downward[i].app = a
        BY <3>2 DEF StopComes
      <4>2. CASE downward[i] = m
        <5>1. m.app = a
          BY <4>1, <4>2
        <5> QED BY <1>1, <5>1
      <4>3. CASE \E j \in DOMAIN downward' : downward'[j] = downward[i]
        BY <4>1, <4>3 DEF StopComes
      <4> QED BY <1>2, <4>2, <4>3
    <3>3. CASE IF run[a] = 0 THEN a \in latch ELSE a \in stopping
      BY <1>1, <3>3
    <3> QED BY <3>1, <3>2, <3>3
  <2> QED BY <1>1, <2>1, <2>2 DEF DismissTrue
<1>8. LineEmpty'
  BY <1>1, <1>2 DEF LineEmpty
<1> QED BY <1>4, <1>5, <1>6, <1>7, <1>8 DEF FacesInv

LEMMA WatchStep == ASSUME FacesInv, OnWatch PROVE FacesInv'
<1> DEFINE m == Head(downward)
<1>1. /\ downward # <<>> /\ m.kind = "watch" /\ downward' = Tail(downward)
      /\ UNCHANGED <<run, stopping, latch, pty, spawned, streams, control, upward, windows, reading, headless, unheard, dismissed>>
  BY DEF OnWatch, Asked, services, desktop, history
<1>2. /\ downward' \in Seq(WordSet) /\ m \in WordSet /\ control = "up"
      /\ \A i \in DOMAIN downward : downward[i] = m \/ \E j \in DOMAIN downward' : downward'[j] = downward[i]
  BY <1>1, WordRead
<1> HIDE DEF m
<1>3. FacesTypes'
  BY <1>1, <1>2 DEF FacesInv, FacesTypes
<1>4. Numbered' /\ NoticesTrue' /\ DeskTrue'
  BY <1>1, Aside
<1>5. StreamsTrue'
  <2> SUFFICES ASSUME NEW s \in streams, Alive(s.app, s.n) PROVE Faced(s)'
    BY <1>1 DEF StreamsTrue, Alive
  <2>1. Faced(s)
    BY <1>2 DEF FacesInv, StreamsTrue
  <2>2. Farewell(s) => Farewell(s)'
    BY <1>1, <1>2 DEF Farewell
  <2> QED BY <1>1, <2>1, <2>2 DEF Faced, Says
<1>6. DismissTrue'
  BY <1>1, <1>2 DEF FacesInv, DismissTrue, StopComes
<1>7. LineEmpty'
  BY <1>1, <1>2 DEF LineEmpty
<1> QED BY <1>3, <1>4, <1>5, <1>6, <1>7 DEF FacesInv

\* A window is closed: its app is told to stop, its terminal to close.
LEMMA CloseStep == ASSUME AppWindowsAssumption, FacesInv, NEW w \in windows, Close(w) PROVE FacesInv'
<1> DEFINE m == Note(IF w.app \in Shells THEN "close" ELSE "stop", w.app, w.n)
<1>1. /\ windows' = windows \ {w}
      /\ downward' = IF control # "up" THEN downward ELSE Append(downward, m)
      /\ dismissed' = IF control = "up" THEN dismissed \cup {w.app} ELSE dismissed
      /\ UNCHANGED <<run, stopping, latch, pty, spawned, streams, watch, control, upward, reading, headless, unheard>>
  BY DEF Close, services, rpcd
<1>2. /\ downward \in Seq(WordSet) /\ w \in WindowSet /\ run \in [All -> Nat] /\ streams \subseteq [app : Terms, n : Births]
  BY DEF FacesInv, FacesTypes
<1>3. w.app \in All /\ w.n \in Nat
  BY <1>2 DEF WindowSet, Births
<1>4. /\ m \in WordSet /\ m.app = w.app /\ m.n = w.n /\ (w.app \in Shells => m.kind = "close")
      /\ (w.app \notin Shells => m.kind = "stop")
  BY <1>3 DEF WordSet, Note, All
<1> HIDE DEF m
<1>5. /\ downward' \in Seq(WordSet) /\ \A i \in DOMAIN downward : i \in DOMAIN downward' /\ downward'[i] = downward[i]
      /\ control = "up" => \E i \in DOMAIN downward' : downward'[i] = m
  <2>1. CASE control = "up"
    BY <1>1, <1>2, <1>4, <2>1, Added
  <2>2. CASE control # "up"
    BY <1>1, <1>2, <2>2
  <2> QED BY <2>1, <2>2
<1>6. FacesTypes'
  BY <1>1, <1>5 DEF FacesInv, FacesTypes
<1>7. Numbered' /\ NoticesTrue' /\ DeskTrue'
  BY <1>1, Aside
<1>8. StreamsTrue'
  <2> SUFFICES ASSUME control = "up", NEW s \in streams, Alive(s.app, s.n) PROVE Faced(s)'
    BY <1>1 DEF StreamsTrue, Alive
  <2>1. Faced(s)
    BY DEF FacesInv, StreamsTrue
  <2>2. Farewell(s) => Farewell(s)'
    BY <1>5 DEF Farewell
  <2>3. CASE w.app = s.app /\ w.n = s.n
    BY <1>4, <1>5, <2>3 DEF Faced, Farewell
  <2>4. CASE ~(w.app = s.app /\ w.n = s.n)
    BY <1>1, <2>1, <2>2, <2>4 DEF Faced, Says
  <2> QED BY <2>3, <2>4
<1>9. DismissTrue'
  <2>1. w.app \in Managed => w.app \notin Shells
    BY DEF AppWindowsAssumption, Managed
  <2>2. \A a : StopComes(a) => StopComes(a)'
    BY <1>5 DEF StopComes
  <2>3. control = "up" /\ w.app \in Managed => StopComes(w.app)'
    BY <1>4, <1>5, <2>1 DEF StopComes
  <2>4. stopping' \subseteq latch'
    BY <1>1 DEF FacesInv, DismissTrue
  <2>5. ASSUME NEW a \in dismissed' \cap Managed PROVE StopComes(a)' \/ (IF run'[a] = 0 THEN a \in latch' ELSE a \in stopping')
    <3>1. CASE a \in dismissed
      BY <1>1, <2>2, <2>5, <3>1 DEF FacesInv, DismissTrue
    <3>2. CASE a \notin dismissed
      BY <1>1, <2>3, <2>5, <3>2
    <3> QED BY <3>1, <3>2
  <2> QED BY <2>4, <2>5 DEF DismissTrue
<1>10. LineEmpty'
  BY <1>1 DEF FacesInv, LineEmpty, FacesTypes
<1> QED BY <1>6, <1>7, <1>8, <1>9, <1>10 DEF FacesInv

\* A run begins, in a terminal or with a window to come: nothing was said of it yet.
LEMMA SpawnStep ==
  ASSUME AppWindowsAssumption, FacesInv, NEW a \in All, run[a] = 0, Spawn(a), pty \subseteq pty', pty' \subseteq pty \cup {a},
         a \in pty' => a \in Terms,
         UNCHANGED <<control, downward, windows, reading, headless, unheard>>
  PROVE /\ FacesTypes' /\ Numbered' /\ NoticesTrue' /\ DeskTrue' /\ StreamsTrue' /\ LineEmpty'
<1>0. spawned \in Nat /\ spawned + 1 \in Births
  BY DEF FacesInv, FacesTypes, Births
<1> PICK n \in Births : n = spawned + 1
  BY <1>0
<1> DEFINE m == Note(IF a \in Webs THEN "create" ELSE "opened", a, n)
<1>1. /\ spawned' = n /\ run' = [run EXCEPT ![a] = n] /\ stopping' = stopping \ {a}
      /\ streams' = IF a \in pty' THEN streams \cup {Of(a, n)} ELSE streams
      /\ upward' = IF a \in pty' \cup Webs /\ control = "up" THEN Append(upward, m) ELSE upward
  BY DEF Spawn, Tell
<1>2. /\ run \in [All -> Nat] /\ spawned \in Nat /\ pty \subseteq Terms /\ streams \subseteq [app : Terms, n : Births]
      /\ upward \in Seq(NoteSet) /\ windows \subseteq WindowSet /\ reading \subseteq [app : Webs, n : Births]
  BY DEF FacesInv, FacesTypes
<1>3. a \in Terms => a \notin Webs
  BY DEF AppWindowsAssumption, Terms
<1>4. n \in Births /\ n > spawned
  BY <1>2 DEF Births
<1>5. a \in pty' \cup Webs => m \in NoteSet /\ m.kind \in {"opened", "create"} /\ m.app = a /\ m.n = n /\ (m.kind = "opened" => a \in Terms)
                              /\ (a \in pty' => m.kind = "opened") /\ (m.kind = "opened" => a \in pty')
  BY <1>3, <1>4 DEF NoteSet, Note
<1> HIDE DEF m
<1>6. /\ upward' \in Seq(NoteSet)
      /\ \A i \in DOMAIN upward : i \in DOMAIN upward' /\ upward'[i] = upward[i] /\ i \in Nat
      /\ \A i \in DOMAIN upward' : i \in DOMAIN upward \/ (upward'[i] = m /\ a \in pty' \cup Webs /\ \A j \in DOMAIN upward : j < i)
      /\ a \in pty' \cup Webs /\ control = "up" => \E i \in DOMAIN upward' : upward'[i] = m
  <2>1. CASE a \in pty' \cup Webs /\ control = "up"
    <3>1. upward \in Seq(NoteSet) /\ m \in NoteSet /\ upward' = Append(upward, m)
      BY <1>1, <1>2, <1>5, <2>1
    <3> QED BY <2>1, <3>1, Added
  <2>2. CASE ~(a \in pty' \cup Webs /\ control = "up")
    BY <1>1, <1>2, <2>2
  <2> QED BY <2>1, <2>2
<1>7. run' \in [All -> Nat] /\ run'[a] = n /\ \A b \in All : b # a => run'[b] = run[b]
  BY <1>1, <1>2, <1>4 DEF Births
<1>8. streams' \subseteq streams \cup {Of(a, n)} /\ streams \subseteq streams' /\ (a \in pty' => Of(a, n) \in streams') /\ (a \notin pty' => streams' = streams)
  BY <1>1
<1>9. FacesTypes'
  <2>1. Of(a, n) \in [app : Terms, n : Births] \/ a \notin pty'
    BY <1>4 DEF Of
  <2>2. streams' \subseteq [app : Terms, n : Births]
    BY <1>2, <1>8, <2>1
  <2> QED BY <1>1, <1>2, <1>4, <1>6, <1>7, <2>2 DEF FacesInv, FacesTypes, Births
<1>10. Of(a, n).app = a /\ Of(a, n).n = n
  BY DEF Of
<1>11. \A s \in streams : s.n \in Births /\ s.n # n /\ s.n <= spawned /\ s.app \in All
  BY <1>2, <1>4 DEF FacesInv, Numbered, Was, Births, All, Terms, Managed
<1>12. \A i \in DOMAIN upward : upward[i] \in NoteSet /\ upward[i].n \in Births /\ upward[i].n # n /\ upward[i].n <= spawned /\ upward[i].app \in All
  <2>1. \A x \in NoteSet : x.n \in Births /\ x.app \in All
    BY DEF NoteSet, All, Terms, Managed
  <2> QED BY <1>2, <1>4, <2>1 DEF FacesInv, Numbered, Was, Births
<1>13. \A w \in windows : w.n \in Births /\ w.n # n /\ w.n <= spawned /\ w.app \in All
  BY <1>2, <1>4 DEF FacesInv, Numbered, Was, Births, WindowSet
<1>14. \A r \in reading : r.n \in Births /\ r.n # n /\ r.n <= spawned /\ r.app \in All
  BY <1>2, <1>4 DEF FacesInv, Numbered, Was, Births, All, Managed
<1>15. \A b \in All, k \in Nat : k <= spawned /\ Was(b, k) => Was(b, k)'
  BY <1>1, <1>2, <1>4, <1>7 DEF Was, Births
<1>16. \A b \in All, k \in Births : k <= spawned => (Alive(b, k) => Alive(b, k)') /\ (Alive(b, k)' => Alive(b, k))
  BY <1>2, <1>4, <1>7 DEF Alive, Births
<1>17. Was(a, n)' /\ Alive(a, n)'
  BY <1>1, <1>4, <1>7 DEF Was, Alive, Births
<1>18. Numbered'
  <2>1. \A b \in All : run'[b] <= spawned'
    BY <1>1, <1>2, <1>4, <1>7 DEF FacesInv, Numbered, Births
  <2>2. (\A s \in streams : Was(s.app, s.n))'
    BY <1>8, <1>10, <1>11, <1>15, <1>17 DEF FacesInv, Numbered, Births
  <2>3. (\A w \in windows : Was(w.app, w.n))' /\ (\A r \in reading : Was(r.app, r.n))'
    BY <1>13, <1>14, <1>15 DEF FacesInv, Numbered, Births
  <2>4. (\A i \in DOMAIN upward : Was(upward[i].app, upward[i].n))'
    BY <1>5, <1>6, <1>12, <1>15, <1>17 DEF FacesInv, Numbered, Births
  <2>5. \A s, t \in streams' : s.n = t.n => s = t
    BY <1>8, <1>10, <1>11 DEF FacesInv, Numbered
  <2> QED BY <2>1, <2>2, <2>3, <2>4, <2>5 DEF Numbered
<1>19. ClosedTrue'
  BY <1>5, <1>6, <1>8, <1>10, <1>12 DEF FacesInv, NoticesTrue, ClosedTrue
<1>20. OpenedTrue'
  <2> SUFFICES ASSUME NEW i \in DOMAIN upward', upward'[i].kind = "opened"
               PROVE (Of(upward[i].app, upward[i].n) \in streams
                      \/ \E j \in DOMAIN upward : j > i /\ upward[j].kind = "closed" /\ upward[j].n = upward[i].n)'
    BY DEF OpenedTrue
  <2>1. CASE i \in DOMAIN upward
    BY <1>6, <1>8, <2>1 DEF FacesInv, NoticesTrue, OpenedTrue, Of
  <2>2. CASE i \notin DOMAIN upward
    BY <1>5, <1>6, <1>8, <2>2 DEF Of
  <2> QED BY <2>1, <2>2
<1>21. BornTrue'
  <2> SUFFICES ASSUME NEW i \in DOMAIN upward', upward'[i].kind \in {"opened", "create"}, upward'[i].app \in Managed
               PROVE (\/ Alive(upward[i].app, upward[i].n) \/ upward[i].n \in unheard
                      \/ \E j \in DOMAIN upward : j > i /\ Says(j, "exited", upward[i].app, upward[i].n))'
    BY DEF BornTrue
  <2>1. CASE i \in DOMAIN upward
    <3>1. \/ Alive(upward[i].app, upward[i].n) \/ upward[i].n \in unheard
          \/ \E j \in DOMAIN upward : j > i /\ Says(j, "exited", upward[i].app, upward[i].n)
      BY <1>6, <2>1 DEF FacesInv, NoticesTrue, BornTrue
    <3>2. upward'[i] = upward[i] /\ upward[i].app \in All /\ upward[i].n \in Births /\ upward[i].n <= spawned
      BY <1>6, <1>12, <2>1
    <3>3. run[upward[i].app] = upward[i].n => run'[upward[i].app] = upward[i].n
      BY <1>16, <3>2 DEF Alive
    <3> QED BY <1>1, <1>6, <2>1, <3>1, <3>2, <3>3 DEF Says, Alive
  <2>2. CASE i \notin DOMAIN upward
    BY <1>5, <1>6, <1>17, <2>2 DEF Alive
  <2> QED BY <2>1, <2>2
<1>22. ExitedTrue'
  <2> SUFFICES ASSUME NEW i \in DOMAIN upward', upward'[i].kind = "exited"
               PROVE (/\ run[upward[i].app] # upward[i].n
                      /\ \A w \in windows : w.app = upward[i].app => w.n <= upward[i].n
                      /\ \A r \in reading : r.app = upward[i].app => r.n <= upward[i].n
                      /\ \A j \in DOMAIN upward : j < i /\ upward[j].app = upward[i].app => upward[j].n <= upward[i].n)'
    BY DEF ExitedTrue
  <2>1. i \in DOMAIN upward /\ upward'[i] = upward[i]
    BY <1>5, <1>6
  <2>2. run'[upward[i].app] # upward[i].n
    BY <1>7, <1>12, <2>1 DEF FacesInv, NoticesTrue, ExitedTrue
  <2>3. \A j \in DOMAIN upward' : j < i => j \in DOMAIN upward /\ upward'[j] = upward[j]
    BY <1>6, <2>1
  <2> QED BY <2>1, <2>2, <2>3 DEF FacesInv, NoticesTrue, ExitedTrue
<1>23. ScreensTrue'
  BY <1>6, <1>8 DEF FacesInv, DeskTrue, ScreensTrue, Of
<1>24. \A b \in All, k \in Births : k <= spawned /\ Fate(b, k) => Fate(b, k)'
  BY <1>6, <1>16 DEF Fate, Says
<1>25. MarksTrue' /\ ReadTrue'
  <2>1. MarksTrue'
    BY <1>13, <1>16, <1>24 DEF FacesInv, DeskTrue, MarksTrue
  <2>2. ReadTrue'
    BY <1>14, <1>24 DEF FacesInv, DeskTrue, ReadTrue
  <2> QED BY <2>1, <2>2
<1>26. StreamsTrue'
  <2> SUFFICES ASSUME control = "up", NEW s \in streams', Alive(s.app, s.n)' PROVE Faced(s)'
    BY DEF StreamsTrue
  <2>1. CASE s \in streams
    <3>1. s.app # a
      BY <1>7, <1>11, <2>1 DEF Alive
    <3>2. Faced(s)
      BY <1>11, <1>16, <2>1 DEF FacesInv, StreamsTrue
    <3> QED BY <1>1, <1>6, <3>1, <3>2 DEF Faced, Says, Farewell
  <2>2. CASE s \notin streams
    <3>1. s = Of(a, n) /\ a \in pty'
      BY <1>8, <2>2
    <3> QED BY <1>5, <1>6, <1>10, <3>1 DEF Faced, Says
  <2> QED BY <2>1, <2>2
<1>27. LineEmpty'
  BY <1>1 DEF FacesInv, LineEmpty
<1> QED BY <1>9, <1>18, <1>19, <1>20, <1>21, <1>22, <1>23, <1>25, <1>26, <1>27 DEF NoticesTrue, DeskTrue

LEMMA StartStep == ASSUME AppWindowsAssumption, FacesInv, NEW a \in All, Start(a) PROVE FacesInv'
<1>1. /\ run[a] = 0 /\ latch' = latch \ {a} /\ pty' = pty \cup ({a} \cap Ttys) /\ Spawn(a) /\ dismissed' = dismissed \ {a}
      /\ UNCHANGED <<control, downward, windows, reading, headless, unheard>>
  BY DEF Start, desktop
<1>2. pty \subseteq pty' /\ pty' \subseteq pty \cup {a} /\ (a \in pty' => a \in Terms)
  BY <1>1 DEF FacesInv, FacesTypes, Terms
<1>3. FacesTypes' /\ Numbered' /\ NoticesTrue' /\ DeskTrue' /\ StreamsTrue' /\ LineEmpty'
  BY <1>1, <1>2, SpawnStep
<1>4. stopping' = stopping \ {a} /\ \A b \in All : b # a => run'[b] = run[b]
  BY <1>1 DEF Spawn, FacesInv, FacesTypes
<1>5. DismissTrue'
  BY <1>1, <1>4 DEF FacesInv, DismissTrue, StopComes, All
<1> QED BY <1>3, <1>5 DEF FacesInv

\* The sweep starts no app that was dismissed, unless the word is still on the way.
LEMMA SweepStep == ASSUME AppWindowsAssumption, FacesInv, NEW a \in All, Sweep(a) PROVE FacesInv'
<1>1. /\ run[a] = 0 /\ a \notin latch /\ latch' = latch /\ pty' = pty /\ Spawn(a) /\ dismissed' = dismissed
      /\ UNCHANGED <<control, downward, windows, reading, headless, unheard>> /\ a \in Enabled
  BY DEF Sweep, Held, desktop, history
<1>2. pty \subseteq pty' /\ pty' \subseteq pty \cup {a} /\ (a \in pty' => a \in Terms)
  BY <1>1 DEF FacesInv, FacesTypes, Terms
<1>3. FacesTypes' /\ Numbered' /\ NoticesTrue' /\ DeskTrue' /\ StreamsTrue' /\ LineEmpty'
  BY <1>1, <1>2, SpawnStep
<1>4. stopping' = stopping \ {a} /\ \A b \in All : b # a => run'[b] = run[b]
  BY <1>1 DEF Spawn, FacesInv, FacesTypes
<1>5. a \in dismissed \cap Managed => StopComes(a)
  BY <1>1 DEF FacesInv, DismissTrue
<1>6. DismissTrue'
  BY <1>1, <1>4, <1>5 DEF FacesInv, DismissTrue, StopComes, All
<1> QED BY <1>3, <1>6 DEF FacesInv

\* A run ends: its end is told, or it is noted that it was not.
LEMMA ExitStep == ASSUME AppWindowsAssumption, FacesInv, NEW a \in All, NEW folded \in BOOLEAN, Exit(a, folded) PROVE FacesInv'
<1>0. run[a] \in Births
  BY DEF Exit, FacesInv, FacesTypes, Births
<1> PICK n \in Births : n = run[a]
  BY <1>0
<1> DEFINE told == a \in Managed /\ watch /\ control = "up" /\ ~folded
           m == Note("exited", a, n)
<1>1. /\ run' = [run EXCEPT ![a] = 0] /\ stopping' = stopping \ {a}
      /\ upward' = IF told THEN Append(upward, m) ELSE upward
      /\ unheard' = IF told \/ a \in Shells THEN unheard ELSE unheard \cup {n}
      /\ UNCHANGED <<latch, pty, spawned, streams, control, downward, windows, reading, headless, dismissed>>
  BY DEF Exit, Tell, rpcd, desktop
<1>2. /\ run \in [All -> Nat] /\ spawned \in Nat /\ pty \subseteq Terms /\ streams \subseteq [app : Terms, n : Births]
      /\ upward \in Seq(NoteSet) /\ windows \subseteq WindowSet /\ reading \subseteq [app : Webs, n : Births]
  BY DEF FacesInv, FacesTypes
<1>3. told => m \in NoteSet /\ m.kind = "exited" /\ m.app = a /\ m.n = n /\ a \in Managed
  BY DEF NoteSet, Note
<1>4. a \in Managed => a \notin Shells
  BY DEF AppWindowsAssumption, Managed
<1>5. ~told /\ a \in Managed => n \in unheard'
  BY <1>1, <1>4
<1> HIDE DEF m
<1>6. /\ upward' \in Seq(NoteSet)
      /\ \A i \in DOMAIN upward : i \in DOMAIN upward' /\ upward'[i] = upward[i] /\ i \in Nat
      /\ \A i \in DOMAIN upward' : i \in DOMAIN upward \/ (upward'[i] = m /\ told /\ i = Len(upward) + 1 /\ i \in Nat)
      /\ told => \E i \in DOMAIN upward' : upward'[i] = m /\ i \in Nat /\ \A j \in DOMAIN upward : j < i
  <2>1. CASE told
    BY <1>1, <1>2, <1>3, <2>1, Added
  <2>2. CASE ~told
    BY <1>1, <1>2, <2>2
  <2> QED BY <2>1, <2>2
<1> HIDE DEF told
<1>7. run' \in [All -> Nat] /\ run'[a] = 0 /\ (\A b \in All : b # a => run'[b] = run[b]) /\ unheard \subseteq unheard'
  BY <1>1, <1>2
<1>8. FacesTypes'
  BY <1>1, <1>2, <1>6, <1>7 DEF FacesInv, FacesTypes
<1>9. \A b \in All, k \in Nat : (Was(b, k) => Was(b, k)') /\ (k # 0 /\ Alive(b, k)' => Alive(b, k) /\ b # a)
                               /\ (Alive(b, k) => Alive(b, k)' \/ (b = a /\ k = n))
  BY <1>1, <1>2, <1>7 DEF Was, Alive, Births
<1>10. \A i \in DOMAIN upward : upward[i] \in NoteSet /\ upward[i].n \in Births /\ upward[i].app \in All /\ Was(upward[i].app, upward[i].n)
  <2>1. \A x \in NoteSet : x.n \in Births /\ x.app \in All
    BY DEF NoteSet, All, Terms, Managed
  <2> QED BY <1>2, <2>1 DEF FacesInv, Numbered
<1>11. \A s \in streams : s.n \in Births /\ s.app \in All
  BY <1>2 DEF All, Terms, Managed
<1>12. \A w \in windows : w.n \in Births /\ w.app \in All /\ (w.app = a => w.n <= n)
  BY <1>0, <1>2 DEF WindowSet, Births, FacesInv, Numbered, Was
<1>13. \A r \in reading : r.n \in Births /\ r.app \in All /\ (r.app = a => r.n <= n)
  BY <1>0, <1>2 DEF All, Managed, Births, FacesInv, Numbered, Was
<1>14. n <= spawned
  BY <1>2 DEF FacesInv, Numbered
<1>15. Numbered'
  <2>1. \A b \in All : run'[b] <= spawned'
    BY <1>1, <1>2, <1>7 DEF FacesInv, Numbered, Births
  <2>2. (\A s \in streams : Was(s.app, s.n))'
    BY <1>1, <1>9, <1>11 DEF FacesInv, Numbered, Births
  <2>3. (\A w \in windows : Was(w.app, w.n))' /\ (\A r \in reading : Was(r.app, r.n))'
    BY <1>1, <1>9, <1>12, <1>13 DEF FacesInv, Numbered, Births
  <2>4. Was(a, n)'
    BY <1>1, <1>7, <1>14 DEF Was
  <2>5. (\A i \in DOMAIN upward : Was(upward[i].app, upward[i].n))'
    BY <1>3, <1>6, <1>9, <1>10, <2>4 DEF Births
  <2> QED BY <1>1, <2>1, <2>2, <2>3, <2>5 DEF FacesInv, Numbered
<1>16. ClosedTrue'
  BY <1>1, <1>3, <1>6 DEF FacesInv, NoticesTrue, ClosedTrue
<1>17. OpenedTrue'
  BY <1>1, <1>3, <1>6 DEF FacesInv, NoticesTrue, OpenedTrue
<1>18. \A b \in Managed, k \in Births : Alive(b, k) => Alive(b, k)' \/ k \in unheard' \/ (told /\ b = a /\ k = n)
  BY <1>5, <1>9 DEF All, Births
<1>19. BornTrue'
  <2> SUFFICES ASSUME NEW i \in DOMAIN upward', upward'[i].kind \in {"opened", "create"}, upward'[i].app \in Managed
               PROVE (\/ Alive(upward[i].app, upward[i].n) \/ upward[i].n \in unheard
                      \/ \E j \in DOMAIN upward : j > i /\ Says(j, "exited", upward[i].app, upward[i].n))'
    BY DEF BornTrue
  <2>1. i \in DOMAIN upward /\ upward'[i] = upward[i] /\ upward[i].n \in Births
    BY <1>3, <1>6, <1>10
  <2>2. \/ Alive(upward[i].app, upward[i].n) \/ upward[i].n \in unheard
        \/ \E j \in DOMAIN upward : j > i /\ Says(j, "exited", upward[i].app, upward[i].n)
    BY <2>1 DEF FacesInv, NoticesTrue, BornTrue
  <2>3. CASE Alive(upward[i].app, upward[i].n)
    <3>1. run'[upward[i].app] = upward[i].n \/ upward[i].n \in unheard' \/ (told /\ upward[i].app = a /\ upward[i].n = n)
      BY <1>18, <2>1, <2>3 DEF Alive
    <3>2. CASE told /\ upward[i].app = a /\ upward[i].n = n
      <4>1. PICK j \in DOMAIN upward' : upward'[j] = m /\ j \in Nat /\ \A k \in DOMAIN upward : k < j
        BY <1>6, <3>2
      <4> QED BY <1>3, <1>6, <2>1, <3>2, <4>1 DEF Says
    <3> QED BY <2>1, <3>1, <3>2 DEF Alive
  <2>4. CASE ~Alive(upward[i].app, upward[i].n)
    BY <1>6, <1>7, <2>1, <2>2, <2>4 DEF Says
  <2> QED BY <2>3, <2>4
<1>20. ExitedTrue'
  <2> SUFFICES ASSUME NEW i \in DOMAIN upward', upward'[i].kind = "exited"
               PROVE (/\ run[upward[i].app] # upward[i].n
                      /\ \A w \in windows : w.app = upward[i].app => w.n <= upward[i].n
                      /\ \A r \in reading : r.app = upward[i].app => r.n <= upward[i].n
                      /\ \A j \in DOMAIN upward : j < i /\ upward[j].app = upward[i].app => upward[j].n <= upward[i].n)'
    BY DEF ExitedTrue
  <2>1. CASE i \in DOMAIN upward
    <3>1. upward'[i] = upward[i] /\ upward[i].app \in All /\ upward[i].n \in Births
      BY <1>6, <1>10, <2>1
    <3>2. run'[upward[i].app] # upward[i].n
      BY <1>7, <1>10, <2>1, <3>1 DEF FacesInv, NoticesTrue, ExitedTrue, Births
    <3>3. \A j \in DOMAIN upward' : j < i => j \in DOMAIN upward /\ upward'[j] = upward[j]
      BY <1>6, <2>1
    <3> QED BY <1>1, <2>1, <3>1, <3>2, <3>3 DEF FacesInv, NoticesTrue, ExitedTrue
  <2>2. CASE i \notin DOMAIN upward
    <3>1. upward'[i] = m /\ m.app = a /\ m.n = n /\ told /\ i \in Nat /\ i = Len(upward) + 1
      BY <1>3, <1>6, <2>2
    <3>2. run'[a] # n
      BY <1>7 DEF Births
    <3>3. \A j \in DOMAIN upward' : j < i => j \in DOMAIN upward /\ upward'[j] = upward[j]
      BY <1>6, <3>1
    <3>4. \A j \in DOMAIN upward : upward[j].app = a => upward[j].n <= n
      BY <1>0, <1>2, <1>10 DEF Was, Births
    <3> QED BY <1>1, <1>12, <1>13, <3>1, <3>2, <3>3, <3>4
  <2> QED BY <2>1, <2>2
<1>21. \A b \in Managed, k \in Births : Fate(b, k) => Fate(b, k)'
  <2> SUFFICES ASSUME NEW b \in Managed, NEW k \in Births, Fate(b, k) PROVE Fate(b, k)'
    OBVIOUS
  <2>1. CASE told /\ b = a /\ k = n
    BY <1>3, <1>6, <2>1 DEF Fate, Says
  <2>2. CASE ~(told /\ b = a /\ k = n)
    BY <1>6, <1>7, <1>18, <2>2 DEF Fate, Says
  <2> QED BY <2>1, <2>2
<1>22. ScreensTrue'
  BY <1>1, <1>6 DEF FacesInv, DeskTrue, ScreensTrue
<1>23. MarksTrue'
  BY <1>1, <1>9, <1>12, <1>21 DEF FacesInv, DeskTrue, MarksTrue, Births
<1>24. ReadTrue'
  BY <1>1, <1>2, <1>13, <1>21 DEF FacesInv, DeskTrue, ReadTrue, Managed
<1>25. StreamsTrue'
  <2> SUFFICES ASSUME control = "up", NEW s \in streams, Alive(s.app, s.n)' PROVE Faced(s)'
    BY <1>1 DEF StreamsTrue
  <2>1. Alive(s.app, s.n) /\ s.app # a
    BY <1>9, <1>11 DEF Births
  <2>2. Faced(s)
    BY <2>1 DEF FacesInv, StreamsTrue
  <2> QED BY <1>1, <1>6, <2>1, <2>2 DEF Faced, Says, Farewell
<1>26. DismissTrue'
  <2>1. stopping \subseteq latch
    BY DEF FacesInv, DismissTrue
  <2>2. ASSUME NEW b \in dismissed' \cap Managed PROVE StopComes(b)' \/ (IF run'[b] = 0 THEN b \in latch' ELSE b \in stopping')
    <3>1. StopComes(b) => StopComes(b)'
      BY <1>1 DEF StopComes
    <3>2. StopComes(b) \/ (IF run[b] = 0 THEN b \in latch ELSE b \in stopping)
      BY <1>1, <2>2 DEF FacesInv, DismissTrue
    <3> QED BY <1>0, <1>1, <1>7, <2>1, <2>2, <3>1, <3>2 DEF All, Births
  <2> QED BY <1>1, <2>1, <2>2 DEF DismissTrue
<1>27. LineEmpty'
  BY <1>1 DEF FacesInv, LineEmpty, told
<1> QED BY <1>8, <1>15, <1>16, <1>17, <1>19, <1>20, <1>22, <1>23, <1>24, <1>25, <1>26, <1>27 DEF FacesInv, NoticesTrue, DeskTrue

\* A terminal goes: the page hears of it.
LEMMA GoneStep ==
  ASSUME AppWindowsAssumption, FacesInv, NEW s \in streams, streams' = streams \ {s}, Tell(Note("closed", s.app, s.n)),
         UNCHANGED <<run, spawned, pty, control, windows, reading, headless, unheard>>
  PROVE /\ upward' \in Seq(NoteSet) /\ Numbered' /\ NoticesTrue' /\ DeskTrue' /\ (control = "lost" => upward' = upward)
        /\ \A t \in streams' : t # s /\ (\E i \in DOMAIN upward : Says(i, "opened", t.app, t.n)) => (\E i \in DOMAIN upward : Says(i, "opened", t.app, t.n))'
<1> DEFINE m == Note("closed", s.app, s.n)
<1>1. upward' = IF control = "up" THEN Append(upward, m) ELSE upward
  BY DEF Tell
<1>2. /\ run \in [All -> Nat] /\ spawned \in Nat /\ streams \subseteq [app : Terms, n : Births] /\ control \in {"up", "lost"}
      /\ upward \in Seq(NoteSet) /\ windows \subseteq WindowSet /\ reading \subseteq [app : Webs, n : Births]
  BY DEF FacesInv, FacesTypes
<1>3. m \in NoteSet /\ m.kind = "closed" /\ m.app = s.app /\ m.n = s.n
  BY <1>2 DEF NoteSet, Note
<1> HIDE DEF m
<1>4. /\ upward' \in Seq(NoteSet)
      /\ \A i \in DOMAIN upward : i \in DOMAIN upward' /\ upward'[i] = upward[i] /\ i \in Nat
      /\ \A i \in DOMAIN upward' : i \in DOMAIN upward \/ (upward'[i] = m /\ i = Len(upward) + 1 /\ i \in Nat)
      /\ control = "up" => \E i \in DOMAIN upward' : upward'[i] = m /\ i \in Nat /\ \A j \in DOMAIN upward : j < i
  <2>1. CASE control = "up"
    <3>1. upward' = Append(upward, m) /\ m \in NoteSet /\ upward \in Seq(NoteSet)
      BY <1>1, <1>2, <1>3, <2>1
    <3>2. /\ upward' \in Seq(NoteSet) /\ Len(upward) + 1 \in DOMAIN upward' /\ upward'[Len(upward) + 1] = m
          /\ \A i \in DOMAIN upward : i \in DOMAIN upward' /\ upward'[i] = upward[i] /\ i < Len(upward) + 1 /\ i \in Nat
          /\ \A i \in DOMAIN upward' : i \in DOMAIN upward \/ (i = Len(upward) + 1 /\ upward'[i] = m)
          /\ Len(upward) \in Nat
      BY <3>1, Added
    <3> QED BY <3>2
  <2>2. CASE control # "up"
    BY <1>1, <1>2, <2>2
  <2> QED BY <2>1, <2>2
<1>5. \A i \in DOMAIN upward : upward[i] \in NoteSet
  BY <1>2
<1>6. Was(s.app, s.n)
  BY DEF FacesInv, Numbered
<1>7. Numbered'
  <2>1. (\A i \in DOMAIN upward : Was(upward[i].app, upward[i].n))'
    BY <1>3, <1>4, <1>6 DEF FacesInv, Numbered, Was
  <2> QED BY <2>1 DEF FacesInv, Numbered, Was
<1>8. ClosedTrue'
  BY <1>3, <1>4 DEF FacesInv, NoticesTrue, ClosedTrue, Numbered
<1>9. OpenedTrue'
  <2> SUFFICES ASSUME NEW i \in DOMAIN upward', upward'[i].kind = "opened"
               PROVE (Of(upward[i].app, upward[i].n) \in streams
                      \/ \E j \in DOMAIN upward : j > i /\ upward[j].kind = "closed" /\ upward[j].n = upward[i].n)'
    BY DEF OpenedTrue
  <2>1. i \in DOMAIN upward /\ upward'[i] = upward[i]
    BY <1>3, <1>4
  <2>2. CASE Of(upward[i].app, upward[i].n) = s
    <3>1. upward[i].n = s.n /\ control = "up"
      BY <1>2, <2>1, <2>2 DEF Of, FacesInv, LineEmpty
    <3>2. PICK j \in DOMAIN upward' : upward'[j] = m /\ j \in Nat /\ \A k \in DOMAIN upward : k < j
      BY <1>4, <3>1
    <3> QED BY <1>3, <1>4, <2>1, <3>1, <3>2
  <2>3. CASE Of(upward[i].app, upward[i].n) # s
    BY <1>4, <2>1, <2>3 DEF FacesInv, NoticesTrue, OpenedTrue, Of
  <2> QED BY <2>2, <2>3
<1>10. BornTrue'
  BY <1>3, <1>4 DEF FacesInv, NoticesTrue, BornTrue, Alive, Says
<1>11. ExitedTrue'
  <2> SUFFICES ASSUME NEW i \in DOMAIN upward', upward'[i].kind = "exited"
               PROVE (/\ run[upward[i].app] # upward[i].n
                      /\ \A w \in windows : w.app = upward[i].app => w.n <= upward[i].n
                      /\ \A r \in reading : r.app = upward[i].app => r.n <= upward[i].n
                      /\ \A j \in DOMAIN upward : j < i /\ upward[j].app = upward[i].app => upward[j].n <= upward[i].n)'
    BY DEF ExitedTrue
  <2>1. i \in DOMAIN upward /\ upward'[i] = upward[i]
    BY <1>3, <1>4
  <2>2. \A j \in DOMAIN upward' : j < i => j \in DOMAIN upward /\ upward'[j] = upward[j]
    BY <1>2, <1>4, <2>1
  <2> QED BY <2>1, <2>2 DEF FacesInv, NoticesTrue, ExitedTrue
<1>12. ScreensTrue'
  <2> SUFFICES ASSUME control = "up", NEW w \in windows, w.app \in Terms
               PROVE (Of(w.app, w.n) \in streams \/ \E i \in DOMAIN upward : upward[i].kind = "closed" /\ upward[i].n = w.n)'
    BY DEF ScreensTrue
  <2>1. CASE Of(w.app, w.n) = s
    <3>1. s.n = w.n
      BY <2>1 DEF Of
    <3> QED BY <1>3, <1>4, <3>1
  <2>2. CASE Of(w.app, w.n) # s
    BY <1>4, <2>2 DEF FacesInv, DeskTrue, ScreensTrue, Of
  <2> QED BY <2>1, <2>2
<1>13. MarksTrue' /\ ReadTrue'
  BY <1>4 DEF FacesInv, DeskTrue, MarksTrue, ReadTrue, Fate, Alive, Says
<1>14. control = "lost" => upward' = upward
  BY <1>1
<1>15. \A t \in streams' : t # s /\ (\E i \in DOMAIN upward : Says(i, "opened", t.app, t.n)) => (\E i \in DOMAIN upward : Says(i, "opened", t.app, t.n))'
  BY <1>4 DEF Says
<1> QED BY <1>4, <1>7, <1>8, <1>9, <1>10, <1>11, <1>12, <1>13, <1>14, <1>15 DEF NoticesTrue, DeskTrue

LEMMA HangupStep == ASSUME AppWindowsAssumption, FacesInv, NEW s \in streams, Hangup(s) PROVE FacesInv'
<1>1. /\ ~Alive(s.app, s.n) /\ streams' = streams \ {s} /\ Tell(Note("closed", s.app, s.n))
      /\ UNCHANGED <<run, stopping, latch, pty, spawned, control, downward, windows, reading, headless, unheard, dismissed>>
  BY DEF Hangup, services, desktop, history
<1>2. /\ upward' \in Seq(NoteSet) /\ Numbered' /\ NoticesTrue' /\ DeskTrue' /\ (control = "lost" => upward' = upward)
      /\ \A t \in streams' : t # s /\ (\E i \in DOMAIN upward : Says(i, "opened", t.app, t.n)) => (\E i \in DOMAIN upward : Says(i, "opened", t.app, t.n))'
  BY <1>1, GoneStep
<1>3. FacesTypes'
  BY <1>1, <1>2 DEF FacesInv, FacesTypes
<1>4. StreamsTrue'
  <2> SUFFICES ASSUME control = "up", NEW t \in streams', t # s, t \in streams, Alive(t.app, t.n) PROVE Faced(t)'
    BY <1>1 DEF StreamsTrue, Alive
  <2>1. Faced(t)
    BY DEF FacesInv, StreamsTrue
  <2> QED BY <1>1, <1>2, <2>1 DEF Faced, Farewell
<1>5. DismissTrue' /\ LineEmpty'
  BY <1>1, <1>2 DEF FacesInv, DismissTrue, StopComes, LineEmpty, FacesTypes
<1> QED BY <1>2, <1>3, <1>4, <1>5 DEF FacesInv

\* A terminal is closed from the page.
LEMMA OnCloseStep == ASSUME AppWindowsAssumption, FacesInv, OnClose PROVE FacesInv'
<1> DEFINE m == Head(downward)
           s == Of(m.app, m.n)
<1>1. /\ downward # <<>> /\ m.kind = "close" /\ downward' = Tail(downward) /\ streams' = streams \ {s}
      /\ IF s \in streams THEN Tell(Note("closed", s.app, s.n)) ELSE UNCHANGED upward
      /\ UNCHANGED <<run, stopping, latch, pty, spawned, control, windows, reading, headless, unheard, dismissed>>
  BY DEF OnClose, Asked, services, desktop, history
<1>2. /\ downward' \in Seq(WordSet) /\ m \in WordSet /\ control = "up"
      /\ \A i \in DOMAIN downward : downward[i] = m \/ \E j \in DOMAIN downward' : downward'[j] = downward[i]
  BY <1>1, WordRead
<1>3. m.app \in Shells /\ s.app = m.app /\ s.n = m.n
  BY <1>1, <1>2 DEF WordSet, Of
<1> HIDE DEF m
<1>4. \A t \in streams : t = Of(t.app, t.n)
  BY DEF FacesInv, FacesTypes, Of
<1>5. \A t \in streams : t # s /\ Farewell(t) => Farewell(t)'
  BY <1>1, <1>2, <1>4 DEF Farewell
<1> HIDE DEF s
<1>6. /\ upward' \in Seq(NoteSet) /\ Numbered' /\ NoticesTrue' /\ DeskTrue'
      /\ \A t \in streams' : t # s /\ (\E i \in DOMAIN upward : Says(i, "opened", t.app, t.n)) => (\E i \in DOMAIN upward : Says(i, "opened", t.app, t.n))'
  <2>1. CASE s \in streams
    BY <1>1, <2>1, GoneStep
  <2>2. CASE s \notin streams
    <3>1. UNCHANGED <<run, spawned, streams, control, upward, reading, unheard>> /\ windows' \subseteq windows
      BY <1>1, <2>2
    <3>2. Numbered' /\ NoticesTrue' /\ DeskTrue'
      BY <3>1, Aside
    <3> QED BY <3>1, <3>2 DEF FacesInv, FacesTypes, Says
  <2> QED BY <2>1, <2>2
<1>7. FacesTypes'
  BY <1>1, <1>2, <1>6 DEF FacesInv, FacesTypes
<1>8. StreamsTrue'
  <2> SUFFICES ASSUME NEW t \in streams', t # s, t \in streams, Alive(t.app, t.n) PROVE Faced(t)'
    BY <1>1 DEF StreamsTrue, Alive
  <2>1. Faced(t)
    BY <1>2 DEF FacesInv, StreamsTrue
  <2> QED BY <1>1, <1>5, <1>6, <2>1 DEF Faced
<1>9. m.kind # "stop"
  BY <1>1
<1>10. DismissTrue'
  BY <1>1, <1>2, <1>9 DEF FacesInv, DismissTrue, StopComes
<1>11. LineEmpty'
  BY <1>1, <1>2 DEF LineEmpty
<1> QED BY <1>6, <1>7, <1>8, <1>10, <1>11 DEF FacesInv

\* The page hears the oldest notice: what it makes of it is of that notice's run.
LEMMA NoteRead ==
  ASSUME AppWindowsAssumption, FacesInv, upward # <<>>, upward' = Tail(upward), NEW h, h = Head(upward),
         UNCHANGED <<run, spawned, streams, control>>, unheard \subseteq unheard',
         \A w \in windows' : (w.app = h.app /\ w.n = h.n) \/ \E v \in windows : v.app = w.app /\ v.n = w.n,
         \A r \in reading' : (r.app = h.app /\ r.n = h.n) \/ r \in reading
  PROVE /\ upward' \in Seq(NoteSet) /\ h \in NoteSet /\ control = "up" /\ Was(h.app, h.n)
        /\ 1 \in DOMAIN upward /\ h = upward[1]
        /\ \A i \in DOMAIN upward : (i \in Nat /\ i > 1 /\ \E j \in DOMAIN upward' : upward'[j] = upward[i]) \/ i = 1
        /\ Numbered' /\ NoticesTrue'
<1>1. upward \in Seq(NoteSet)
  BY DEF FacesInv, FacesTypes
<1>2. upward' \in Seq(NoteSet) /\ 1 \in DOMAIN upward /\ h = upward[1] /\ h \in NoteSet
  BY <1>1, Dropped
<1>3. \A i \in DOMAIN upward' : i \in Nat /\ i > 0 /\ i + 1 \in DOMAIN upward /\ upward'[i] = upward[i + 1]
  BY <1>1, Dropped
<1>4. \A i \in DOMAIN upward : i \in Nat /\ (i = 1 \/ (i > 1 /\ i - 1 \in DOMAIN upward' /\ upward'[i - 1] = upward[i]))
  BY <1>1, Dropped
<1>5. control = "up"
  BY DEF FacesInv, FacesTypes, LineEmpty
<1>6. Was(h.app, h.n)
  BY <1>2 DEF FacesInv, Numbered
<1>7. Numbered'
  <2>1. (\A i \in DOMAIN upward : Was(upward[i].app, upward[i].n))'
    BY <1>3 DEF FacesInv, Numbered, Was
  <2>2. (\A w \in windows : Was(w.app, w.n))' /\ (\A r \in reading : Was(r.app, r.n))'
    BY <1>6 DEF FacesInv, Numbered, Was
  <2> QED BY <2>1, <2>2 DEF FacesInv, Numbered, Was
<1>8. ClosedTrue'
  BY <1>3 DEF FacesInv, NoticesTrue, ClosedTrue
<1>9. OpenedTrue'
  <2> SUFFICES ASSUME NEW i \in DOMAIN upward', upward'[i].kind = "opened"
               PROVE (Of(upward[i].app, upward[i].n) \in streams
                      \/ \E j \in DOMAIN upward : j > i /\ upward[j].kind = "closed" /\ upward[j].n = upward[i].n)'
    BY DEF OpenedTrue
  <2>1. i \in Nat /\ i > 0 /\ i + 1 \in DOMAIN upward /\ upward'[i] = upward[i + 1]
    BY <1>3
  <2>2. CASE Of(upward[i + 1].app, upward[i + 1].n) \in streams
    BY <2>1, <2>2 DEF Of
  <2>3. CASE Of(upward[i + 1].app, upward[i + 1].n) \notin streams
    <3>1. PICK j \in DOMAIN upward : j > i + 1 /\ upward[j].kind = "closed" /\ upward[j].n = upward[i + 1].n
      BY <2>1, <2>3 DEF FacesInv, NoticesTrue, OpenedTrue
    <3>2. j - 1 \in DOMAIN upward' /\ upward'[j - 1] = upward[j] /\ j - 1 > i
      BY <1>4, <2>1, <3>1
    <3> QED BY <2>1, <3>1, <3>2
  <2> QED BY <2>2, <2>3
<1>10. BornTrue'
  <2> SUFFICES ASSUME NEW i \in DOMAIN upward', upward'[i].kind \in {"opened", "create"}, upward'[i].app \in Managed
               PROVE (\/ Alive(upward[i].app, upward[i].n) \/ upward[i].n \in unheard
                      \/ \E j \in DOMAIN upward : j > i /\ Says(j, "exited", upward[i].app, upward[i].n))'
    BY DEF BornTrue
  <2>1. i \in Nat /\ i > 0 /\ i + 1 \in DOMAIN upward /\ upward'[i] = upward[i + 1]
    BY <1>3
  <2>2. CASE Alive(upward[i + 1].app, upward[i + 1].n) \/ upward[i + 1].n \in unheard
    BY <2>1, <2>2 DEF Alive
  <2>3. CASE ~(Alive(upward[i + 1].app, upward[i + 1].n) \/ upward[i + 1].n \in unheard)
    <3>1. PICK j \in DOMAIN upward : j > i + 1 /\ Says(j, "exited", upward[i + 1].app, upward[i + 1].n)
      BY <2>1, <2>3 DEF FacesInv, NoticesTrue, BornTrue
    <3>2. j - 1 \in DOMAIN upward' /\ upward'[j - 1] = upward[j] /\ j - 1 > i
      BY <1>4, <2>1, <3>1
    <3> QED BY <2>1, <3>1, <3>2 DEF Says
  <2> QED BY <2>2, <2>3
<1>11. ExitedTrue'
  <2> SUFFICES ASSUME NEW i \in DOMAIN upward', upward'[i].kind = "exited"
               PROVE (/\ run[upward[i].app] # upward[i].n
                      /\ \A w \in windows : w.app = upward[i].app => w.n <= upward[i].n
                      /\ \A r \in reading : r.app = upward[i].app => r.n <= upward[i].n
                      /\ \A j \in DOMAIN upward : j < i /\ upward[j].app = upward[i].app => upward[j].n <= upward[i].n)'
    BY DEF ExitedTrue
  <2>1. i \in Nat /\ i > 0 /\ i + 1 \in DOMAIN upward /\ upward'[i] = upward[i + 1]
    BY <1>3
  <2>2. /\ run[upward[i + 1].app] # upward[i + 1].n
        /\ \A w \in windows : w.app = upward[i + 1].app => w.n <= upward[i + 1].n
        /\ \A r \in reading : r.app = upward[i + 1].app => r.n <= upward[i + 1].n
        /\ \A j \in DOMAIN upward : j < i + 1 /\ upward[j].app = upward[i + 1].app => upward[j].n <= upward[i + 1].n
    BY <2>1 DEF FacesInv, NoticesTrue, ExitedTrue
  <2>3. h.app = upward[i + 1].app => h.n <= upward[i + 1].n
    BY <1>2, <2>1, <2>2
  <2>4. \A j \in DOMAIN upward' : j < i /\ upward'[j].app = upward'[i].app => upward'[j].n <= upward'[i].n
    BY <1>3, <2>1, <2>2
  <2> QED BY <2>1, <2>2, <2>3, <2>4
<1>12. \A i \in DOMAIN upward : (i \in Nat /\ i > 1 /\ \E j \in DOMAIN upward' : upward'[j] = upward[i]) \/ i = 1
  BY <1>4
<1> QED BY <1>2, <1>5, <1>6, <1>7, <1>8, <1>9, <1>10, <1>11, <1>12 DEF NoticesTrue

LEMMA OnOpenedStep == ASSUME AppWindowsAssumption, FacesInv, OnOpened PROVE FacesInv'
<1> PICK h : h = Head(upward)
  OBVIOUS
<1> PICK w : w = Window(h.app, h.n)
  OBVIOUS
<1>1. /\ upward # <<>> /\ h.kind = "opened" /\ upward' = Tail(upward)
      /\ UNCHANGED <<run, stopping, latch, pty, spawned, streams, control, downward, reading, unheard, dismissed>>
      /\ \/ windows' = windows \cup {w} /\ headless' = headless
         \/ windows' = windows /\ headless' = headless \cup {h.n}
  BY DEF OnOpened, Heard, services, rpcd, Window
<1>2. w.app = h.app /\ w.n = h.n /\ w.exited = FALSE
  BY DEF Window
<1>3. /\ \A x \in windows' : (x.app = h.app /\ x.n = h.n) \/ \E v \in windows : v.app = x.app /\ v.n = x.n
      /\ \A r \in reading' : (r.app = h.app /\ r.n = h.n) \/ r \in reading
  BY <1>1, <1>2
<1>4. /\ upward' \in Seq(NoteSet) /\ h \in NoteSet /\ control = "up" /\ 1 \in DOMAIN upward /\ h = upward[1]
      /\ \A i \in DOMAIN upward : (i \in Nat /\ i > 1 /\ \E j \in DOMAIN upward' : upward'[j] = upward[i]) \/ i = 1
      /\ Numbered' /\ NoticesTrue'
  BY <1>1, <1>3, NoteRead
<1>5. h.app \in Terms /\ h.n \in Births /\ h.app \in All
  BY <1>1, <1>4 DEF NoteSet, All, Terms, Managed
<1>6. FacesTypes'
  <2>1. w \in WindowSet
    BY <1>5 DEF WindowSet, Window
  <2> QED BY <1>1, <1>4, <2>1 DEF FacesInv, FacesTypes
<1>7. ScreensTrue'
  <2>1. Of(h.app, h.n) \in streams \/ \E j \in DOMAIN upward : j > 1 /\ upward[j].kind = "closed" /\ upward[j].n = h.n
    BY <1>1, <1>4 DEF FacesInv, NoticesTrue, OpenedTrue
  <2>2. ASSUME NEW x \in windows', x.app \in Terms
        PROVE Of(x.app, x.n) \in streams' \/ \E j \in DOMAIN upward' : upward'[j].kind = "closed" /\ upward'[j].n = x.n
    <3>1. Of(x.app, x.n) \in streams \/ \E j \in DOMAIN upward : upward[j].kind = "closed" /\ upward[j].n = x.n
      <4>1. CASE x \in windows
        BY <1>4, <2>2, <4>1 DEF FacesInv, DeskTrue, ScreensTrue
      <4>2. CASE x \notin windows
        BY <1>1, <1>2, <2>1, <4>2
      <4> QED BY <4>1, <4>2
    <3> QED BY <1>1, <1>4, <3>1
  <2> QED BY <2>2 DEF ScreensTrue
<1>8. \A a, n : (\E i \in DOMAIN upward : Says(i, "exited", a, n)) => (\E i \in DOMAIN upward : Says(i, "exited", a, n))'
  BY <1>1, <1>4 DEF Says
<1>9. \A a, n : Fate(a, n) => Fate(a, n)'
  BY <1>1, <1>8 DEF Fate, Alive
<1>10. h.app \in Managed => Fate(h.app, h.n)
  BY <1>1, <1>4 DEF FacesInv, NoticesTrue, BornTrue, Fate
<1>11. MarksTrue'
  <2>1. ASSUME NEW x \in windows', x.app \in Managed PROVE IF x.exited THEN ~Alive(x.app, x.n)' ELSE Fate(x.app, x.n)'
    <3>1. CASE x \in windows
      BY <1>1, <1>9, <2>1, <3>1 DEF FacesInv, DeskTrue, MarksTrue, Alive
    <3>2. CASE x \notin windows
      BY <1>1, <1>2, <1>9, <1>10, <2>1, <3>2
    <3> QED BY <3>1, <3>2
  <2> QED BY <2>1 DEF MarksTrue
<1>12. ReadTrue'
  BY <1>1, <1>9 DEF FacesInv, DeskTrue, ReadTrue
<1>13. StreamsTrue'
  <2> SUFFICES ASSUME NEW s \in streams, Alive(s.app, s.n) PROVE Faced(s)'
    BY <1>1 DEF StreamsTrue, Alive
  <2>1. Faced(s)
    BY <1>4 DEF FacesInv, StreamsTrue
  <2>2. CASE h.app = s.app /\ h.n = s.n
    BY <1>1, <1>2, <2>2 DEF Faced
  <2>3. CASE ~(h.app = s.app /\ h.n = s.n)
    <3>1. (\E i \in DOMAIN upward : Says(i, "opened", s.app, s.n)) => (\E i \in DOMAIN upward : Says(i, "opened", s.app, s.n))'
      BY <1>4, <2>3 DEF Says
    <3> QED BY <1>1, <2>1, <3>1 DEF Faced, Farewell
  <2> QED BY <2>2, <2>3
<1>14. DismissTrue' /\ LineEmpty'
  BY <1>1, <1>4 DEF FacesInv, DismissTrue, StopComes, LineEmpty
<1> QED BY <1>4, <1>6, <1>7, <1>11, <1>12, <1>13, <1>14 DEF FacesInv, DeskTrue

LEMMA OnClosedStep == ASSUME AppWindowsAssumption, FacesInv, OnClosed PROVE FacesInv'
<1> PICK h : h = Head(upward)
  OBVIOUS
<1>1. /\ upward # <<>> /\ h.kind = "closed" /\ upward' = Tail(upward)
      /\ UNCHANGED <<run, stopping, latch, pty, spawned, streams, control, downward, reading, headless, unheard, dismissed>>
      /\ windows' = {w \in windows : w.app \notin Terms \/ w.n # h.n}
  BY DEF OnClosed, Heard, services, rpcd, history
<1>2. /\ \A x \in windows' : (x.app = h.app /\ x.n = h.n) \/ \E v \in windows : v.app = x.app /\ v.n = x.n
      /\ \A r \in reading' : (r.app = h.app /\ r.n = h.n) \/ r \in reading
  BY <1>1
<1>3. /\ upward' \in Seq(NoteSet) /\ h \in NoteSet /\ control = "up" /\ 1 \in DOMAIN upward /\ h = upward[1]
      /\ \A i \in DOMAIN upward : (i \in Nat /\ i > 1 /\ \E j \in DOMAIN upward' : upward'[j] = upward[i]) \/ i = 1
      /\ Numbered' /\ NoticesTrue'
  BY <1>1, <1>2, NoteRead
<1>4. FacesTypes'
  BY <1>1, <1>3 DEF FacesInv, FacesTypes
<1>5. ScreensTrue'
  <2> SUFFICES ASSUME NEW w \in windows, w.app \in Terms, w.n # h.n
               PROVE Of(w.app, w.n) \in streams' \/ \E i \in DOMAIN upward' : upward'[i].kind = "closed" /\ upward'[i].n = w.n
    BY <1>1 DEF ScreensTrue
  <2>1. Of(w.app, w.n) \in streams \/ \E i \in DOMAIN upward : upward[i].kind = "closed" /\ upward[i].n = w.n
    BY <1>3 DEF FacesInv, DeskTrue, ScreensTrue
  <2> QED BY <1>1, <1>3, <2>1
<1>6. \A a, n : Fate(a, n) => Fate(a, n)'
  BY <1>1, <1>3 DEF Fate, Alive, Says
<1>7. MarksTrue' /\ ReadTrue'
  BY <1>1, <1>6 DEF FacesInv, DeskTrue, MarksTrue, ReadTrue, Alive
<1>8. StreamsTrue'
  <2> SUFFICES ASSUME NEW s \in streams, Alive(s.app, s.n) PROVE Faced(s)'
    BY <1>1 DEF StreamsTrue, Alive
  <2>1. Faced(s) /\ s.n # h.n
    BY <1>1, <1>3 DEF FacesInv, StreamsTrue, NoticesTrue, ClosedTrue
  <2>2. (\E i \in DOMAIN upward : Says(i, "opened", s.app, s.n)) => (\E i \in DOMAIN upward : Says(i, "opened", s.app, s.n))'
    BY <1>1, <1>3 DEF Says
  <2> QED BY <1>1, <2>1, <2>2 DEF Faced, Farewell
<1>9. DismissTrue' /\ LineEmpty'
  BY <1>1, <1>3 DEF FacesInv, DismissTrue, StopComes, LineEmpty
<1> QED BY <1>3, <1>4, <1>5, <1>7, <1>8, <1>9 DEF FacesInv, DeskTrue

\* The end of a run is heard: no window of its app shows a run that goes on.
LEMMA OnExitedStep == ASSUME AppWindowsAssumption, FacesInv, OnExited PROVE FacesInv'
<1> PICK h : h = Head(upward)
  OBVIOUS
<1>1. /\ upward # <<>> /\ h.kind = "exited" /\ upward' = Tail(upward)
      /\ UNCHANGED <<run, stopping, latch, pty, spawned, streams, control, downward, reading, headless, dismissed>>
      /\ windows' = {[w EXCEPT !.exited = @ \/ Marks(w, h.app)] : w \in windows}
      /\ unheard' = IF Of(h.app, h.n) \in reading THEN unheard \cup {h.n} ELSE unheard
  BY DEF OnExited, Heard, services, rpcd
<1>2. /\ run \in [All -> Nat] /\ windows \subseteq WindowSet /\ reading \subseteq [app : Webs, n : Births]
  BY DEF FacesInv, FacesTypes
<1>3. /\ \A w \in windows : \E x \in windows' : x.app = w.app /\ x.n = w.n
      /\ \A x \in windows' : x \in WindowSet /\ \E w \in windows : w.app = x.app /\ w.n = x.n /\ x.exited = (w.exited \/ w.app = h.app)
  <2>1. ASSUME NEW w \in windows, NEW x, x = [w EXCEPT !.exited = @ \/ Marks(w, h.app)]
        PROVE x \in WindowSet /\ x.app = w.app /\ x.n = w.n /\ x.exited = (w.exited \/ w.app = h.app)
    <3>1. w \in [app : All, n : Births, exited : BOOLEAN]
      BY <1>2 DEF WindowSet
    <3>2. (w.app = h.app) \in BOOLEAN
      OBVIOUS
    <3>3. x.app = w.app /\ x.n = w.n /\ x.exited = (w.exited \/ w.app = h.app)
      BY <2>1, <3>1 DEF Marks
    <3>4. (w.exited \/ Marks(w, h.app)) \in BOOLEAN
      OBVIOUS
    <3>5. PICK e \in BOOLEAN : e = (w.exited \/ Marks(w, h.app))
      BY <3>4
    <3>6. x = [w EXCEPT !.exited = e]
      BY <2>1, <3>5, Zenon
    <3>7. x \in WindowSet
      BY <3>1, <3>6 DEF WindowSet
    <3> QED BY <3>3, <3>7
  <2>2. ASSUME NEW w \in windows PROVE \E x \in windows' : x.app = w.app /\ x.n = w.n
    <3>1. PICK x : x = [w EXCEPT !.exited = @ \/ Marks(w, h.app)]
      OBVIOUS
    <3>2. x \in windows'
      BY <1>1, <3>1, Zenon
    <3> QED BY <2>1, <3>1, <3>2
  <2>3. ASSUME NEW x \in windows'
        PROVE x \in WindowSet /\ \E w \in windows : w.app = x.app /\ w.n = x.n /\ x.exited = (w.exited \/ w.app = h.app)
    <3>1. PICK w \in windows : x = [w EXCEPT !.exited = @ \/ Marks(w, h.app)]
      BY <1>1, Zenon
    <3>2. x \in WindowSet /\ x.app = w.app /\ x.n = w.n /\ x.exited = (w.exited \/ w.app = h.app)
      BY <2>1, <3>1, ZenonT(40)
    <3> QED BY <3>2, Zenon
  <2> QED BY <2>2, <2>3, Zenon
<1>4. /\ \A x \in windows' : (x.app = h.app /\ x.n = h.n) \/ \E v \in windows : v.app = x.app /\ v.n = x.n
      /\ (\A r \in reading' : (r.app = h.app /\ r.n = h.n) \/ r \in reading) /\ unheard \subseteq unheard'
  BY <1>1, <1>3
<1>5. /\ upward' \in Seq(NoteSet) /\ h \in NoteSet /\ control = "up" /\ Was(h.app, h.n) /\ 1 \in DOMAIN upward /\ h = upward[1]
      /\ \A i \in DOMAIN upward : (i \in Nat /\ i > 1 /\ \E j \in DOMAIN upward' : upward'[j] = upward[i]) \/ i = 1
      /\ Numbered' /\ NoticesTrue'
  BY <1>1, <1>4, NoteRead
<1>6. h.app \in Managed /\ h.n \in Births /\ h.app \in All
  BY <1>1, <1>5 DEF NoteSet, All
<1>7. /\ run[h.app] # h.n /\ (\A w \in windows : w.app = h.app => w.n <= h.n) /\ (\A r \in reading : r.app = h.app => r.n <= h.n)
  BY <1>1, <1>5 DEF FacesInv, NoticesTrue, ExitedTrue
<1>8. run[h.app] = 0 \/ run[h.app] > h.n
  BY <1>2, <1>5, <1>6, <1>7 DEF Was, Births
<1>9. \A n \in Births : n <= h.n => ~Alive(h.app, n)
  BY <1>2, <1>6, <1>8 DEF Alive, Births
<1>10. FacesTypes'
  <2>1. windows' \subseteq WindowSet
    BY <1>3
  <2> QED BY <1>1, <1>5, <2>1 DEF FacesInv, FacesTypes
<1>11. ScreensTrue'
  <2> SUFFICES ASSUME NEW x \in windows', x.app \in Terms
               PROVE Of(x.app, x.n) \in streams' \/ \E i \in DOMAIN upward' : upward'[i].kind = "closed" /\ upward'[i].n = x.n
    BY DEF ScreensTrue
  <2>1. PICK w \in windows : w.app = x.app /\ w.n = x.n
    BY <1>3
  <2>2. Of(x.app, x.n) \in streams \/ \E i \in DOMAIN upward : upward[i].kind = "closed" /\ upward[i].n = x.n
    BY <1>5, <2>1 DEF FacesInv, DeskTrue, ScreensTrue
  <2> QED BY <1>1, <1>5, <2>2
<1>12. \A a, n : Fate(a, n) /\ (a # h.app \/ n # h.n \/ Of(a, n) \in reading) => Fate(a, n)'
  <2> SUFFICES ASSUME NEW a, NEW n, Fate(a, n), a # h.app \/ n # h.n \/ Of(a, n) \in reading PROVE Fate(a, n)'
    OBVIOUS
  <2>1. CASE a = h.app /\ n = h.n
    BY <1>1, <2>1 DEF Fate
  <2>2. CASE ~(a = h.app /\ n = h.n)
    <3>1. (\E i \in DOMAIN upward : Says(i, "exited", a, n)) => (\E i \in DOMAIN upward : Says(i, "exited", a, n))'
      BY <1>5, <2>2 DEF Says
    <3> QED BY <1>1, <1>4, <3>1 DEF Fate, Alive
  <2> QED BY <2>1, <2>2
<1>13. MarksTrue'
  <2> SUFFICES ASSUME NEW x \in windows', x.app \in Managed PROVE IF x.exited THEN ~Alive(x.app, x.n)' ELSE Fate(x.app, x.n)'
    BY DEF MarksTrue
  <2>1. PICK w \in windows : w.app = x.app /\ w.n = x.n /\ x.exited = (w.exited \/ w.app = h.app)
    BY <1>3
  <2>2. CASE w.app = h.app
    <3>1. w.n \in Births
      BY <1>2 DEF WindowSet
    <3>2. ~Alive(h.app, w.n)
      BY <1>7, <1>9, <2>2, <3>1
    <3> QED BY <1>1, <2>1, <2>2, <3>2 DEF Alive
  <2>3. CASE w.app # h.app
    <3>1. x.exited = w.exited
      BY <2>1, <2>3, <1>2, Zenon DEF WindowSet
    <3>2. IF w.exited THEN ~Alive(w.app, w.n) ELSE Fate(w.app, w.n)
      BY <2>1 DEF FacesInv, DeskTrue, MarksTrue
    <3>3. Alive(x.app, x.n)' => Alive(x.app, x.n)
      BY <1>1 DEF Alive
    <3> QED BY <1>12, <2>1, <2>3, <3>1, <3>2, <3>3
  <2> QED BY <2>2, <2>3
<1>14. ReadTrue'
  <2> SUFFICES ASSUME NEW r \in reading PROVE Fate(r.app, r.n)'
    BY <1>1 DEF ReadTrue
  <2>1. Of(r.app, r.n) = r
    BY <1>2 DEF Of
  <2> QED BY <1>12, <2>1 DEF FacesInv, DeskTrue, ReadTrue
<1>15. StreamsTrue'
  <2> SUFFICES ASSUME NEW s \in streams, Alive(s.app, s.n) PROVE Faced(s)'
    BY <1>1 DEF StreamsTrue, Alive
  <2>1. Faced(s)
    BY <1>5 DEF FacesInv, StreamsTrue
  <2>2. (\E i \in DOMAIN upward : Says(i, "opened", s.app, s.n)) => (\E i \in DOMAIN upward : Says(i, "opened", s.app, s.n))'
    BY <1>1, <1>5 DEF Says
  <2>3. (\E w \in windows : w.app = s.app /\ w.n = s.n) => (\E w \in windows : w.app = s.app /\ w.n = s.n)'
    BY <1>3
  <2> QED BY <1>1, <2>1, <2>2, <2>3 DEF Faced, Farewell
<1>16. DismissTrue' /\ LineEmpty'
  BY <1>1, <1>5 DEF FacesInv, DismissTrue, StopComes, LineEmpty
<1> QED BY <1>5, <1>10, <1>11, <1>13, <1>14, <1>15, <1>16 DEF FacesInv, DeskTrue

LEMMA OnCreateStep == ASSUME AppWindowsAssumption, FacesInv, OnCreate PROVE FacesInv'
<1> PICK h : h = Head(upward)
  OBVIOUS
<1>1. /\ upward # <<>> /\ h.kind = "create" /\ upward' = Tail(upward)
      /\ UNCHANGED <<run, stopping, latch, pty, spawned, streams, control, downward, windows, headless, unheard, dismissed>>
      /\ reading' = reading \cup {Of(h.app, h.n)}
  BY DEF OnCreate, Heard, services, rpcd, history
<1>2. Of(h.app, h.n).app = h.app /\ Of(h.app, h.n).n = h.n
  BY DEF Of
<1>3. /\ \A x \in windows' : (x.app = h.app /\ x.n = h.n) \/ \E v \in windows : v.app = x.app /\ v.n = x.n
      /\ \A r \in reading' : (r.app = h.app /\ r.n = h.n) \/ r \in reading
  BY <1>1, <1>2
<1>4. /\ upward' \in Seq(NoteSet) /\ h \in NoteSet /\ control = "up" /\ 1 \in DOMAIN upward /\ h = upward[1]
      /\ \A i \in DOMAIN upward : (i \in Nat /\ i > 1 /\ \E j \in DOMAIN upward' : upward'[j] = upward[i]) \/ i = 1
      /\ Numbered' /\ NoticesTrue'
  BY <1>1, <1>3, NoteRead
<1>5. h.app \in Webs /\ h.n \in Births /\ h.app \in Managed
  BY <1>1, <1>4 DEF NoteSet, Managed
<1>6. FacesTypes'
  <2>1. Of(h.app, h.n) \in [app : Webs, n : Births]
    BY <1>5 DEF Of
  <2> QED BY <1>1, <1>4, <2>1 DEF FacesInv, FacesTypes
<1>7. \A a, n : Fate(a, n) => Fate(a, n)'
  BY <1>1, <1>4 DEF Fate, Alive, Says
<1>8. Fate(h.app, h.n)
  <2>1. upward[1].kind \in {"opened", "create"} /\ upward[1].app \in Managed
    BY <1>1, <1>4, <1>5
  <2>2. \/ Alive(upward[1].app, upward[1].n) \/ upward[1].n \in unheard
        \/ \E j \in DOMAIN upward : j > 1 /\ Says(j, "exited", upward[1].app, upward[1].n)
    BY <1>4, <2>1 DEF FacesInv, NoticesTrue, BornTrue
  <2> QED BY <1>4, <2>2 DEF Fate
<1>9. ScreensTrue'
  <2> SUFFICES ASSUME NEW w \in windows, w.app \in Terms
               PROVE Of(w.app, w.n) \in streams' \/ \E i \in DOMAIN upward' : upward'[i].kind = "closed" /\ upward'[i].n = w.n
    BY <1>1 DEF ScreensTrue
  <2>1. Of(w.app, w.n) \in streams \/ \E i \in DOMAIN upward : upward[i].kind = "closed" /\ upward[i].n = w.n
    BY <1>4 DEF FacesInv, DeskTrue, ScreensTrue
  <2> QED BY <1>1, <1>4, <2>1
<1>10. MarksTrue'
  BY <1>1, <1>7 DEF FacesInv, DeskTrue, MarksTrue, Alive
<1>11. ReadTrue'
  <2> SUFFICES ASSUME NEW r \in reading' PROVE Fate(r.app, r.n)'
    BY DEF ReadTrue
  <2>1. CASE r \in reading
    BY <1>7, <2>1 DEF FacesInv, DeskTrue, ReadTrue
  <2>2. CASE r \notin reading
    <3>1. r = Of(h.app, h.n)
      BY <1>1, <2>2
    <3>2. r.app = h.app /\ r.n = h.n
      BY <1>2, <3>1
    <3> QED BY <1>7, <1>8, <3>2
  <2> QED BY <2>1, <2>2
<1>12. StreamsTrue'
  <2> SUFFICES ASSUME NEW s \in streams, Alive(s.app, s.n) PROVE Faced(s)'
    BY <1>1 DEF StreamsTrue, Alive
  <2>1. Faced(s)
    BY <1>4 DEF FacesInv, StreamsTrue
  <2>2. (\E i \in DOMAIN upward : Says(i, "opened", s.app, s.n)) => (\E i \in DOMAIN upward : Says(i, "opened", s.app, s.n))'
    BY <1>1, <1>4 DEF Says
  <2> QED BY <1>1, <2>1, <2>2 DEF Faced, Farewell
<1>13. DismissTrue' /\ LineEmpty'
  BY <1>1, <1>4 DEF FacesInv, DismissTrue, StopComes, LineEmpty
<1> QED BY <1>4, <1>6, <1>9, <1>10, <1>11, <1>12, <1>13 DEF FacesInv, DeskTrue

\* The bundle is read: the window shows the run that asked for it.
LEMMA CreateStep == ASSUME AppWindowsAssumption, FacesInv, NEW r \in reading, Create(r) PROVE FacesInv'
<1> PICK w : w = Window(r.app, r.n)
  OBVIOUS
<1>1. /\ reading' = reading \ {r}
      /\ \A x \in windows' : x \in windows \/ x = w
      /\ \A x \in windows : x.app # r.app => x \in windows'
      /\ UNCHANGED <<run, stopping, latch, pty, spawned, streams, control, upward, downward, headless, unheard, dismissed>>
  <2>1. CASE windows' = windows
    BY <2>1 DEF Create, services, rpcd, link, history
  <2>2. CASE windows' = {x \in windows : x.app # r.app} \cup {w}
    BY <2>2 DEF Create, services, rpcd, link, history
  <2> QED BY <2>1, <2>2 DEF Create
<1>2. w.app = r.app /\ w.n = r.n /\ w.exited = FALSE
  BY DEF Window
<1>3. r.app \in Webs /\ r.n \in Births /\ r.app \in Managed /\ r.app \in All /\ r.app \notin Terms
  BY DEF FacesInv, FacesTypes, All, Managed, Terms, AppWindowsAssumption
<1>4. FacesTypes'
  <2>1. w \in WindowSet
    BY <1>3 DEF WindowSet, Window
  <2> QED BY <1>1, <2>1 DEF FacesInv, FacesTypes
<1>5. Numbered'
  BY <1>1, <1>2 DEF FacesInv, Numbered, Was
<1>6. NoticesTrue'
  <2>1. ClosedTrue' /\ OpenedTrue' /\ BornTrue'
    BY <1>1 DEF FacesInv, NoticesTrue, ClosedTrue, OpenedTrue, BornTrue, Alive, Says
  <2>2. ExitedTrue'
    BY <1>1, <1>2 DEF FacesInv, NoticesTrue, ExitedTrue
  <2> QED BY <2>1, <2>2 DEF NoticesTrue
<1>7. ScreensTrue'
  BY <1>1, <1>2, <1>3 DEF FacesInv, DeskTrue, ScreensTrue
<1>8. \A a, n : (Fate(a, n) => Fate(a, n)') /\ (Alive(a, n)' => Alive(a, n))
  BY <1>1 DEF Fate, Alive, Says
<1>9. MarksTrue'
  <2> SUFFICES ASSUME NEW x \in windows', x.app \in Managed PROVE IF x.exited THEN ~Alive(x.app, x.n)' ELSE Fate(x.app, x.n)'
    BY DEF MarksTrue
  <2>1. CASE x \in windows
    BY <1>8, <2>1 DEF FacesInv, DeskTrue, MarksTrue
  <2>2. CASE x = w
    BY <1>2, <1>8, <2>2 DEF FacesInv, DeskTrue, ReadTrue
  <2> QED BY <1>1, <2>1, <2>2
<1>10. ReadTrue'
  BY <1>1, <1>8 DEF FacesInv, DeskTrue, ReadTrue
<1>11. StreamsTrue'
  <2> SUFFICES ASSUME control = "up", NEW s \in streams, Alive(s.app, s.n) PROVE Faced(s)'
    BY <1>1 DEF StreamsTrue, Alive
  <2>1. Faced(s) /\ s.app # r.app
    BY <1>3 DEF FacesInv, StreamsTrue, FacesTypes
  <2> QED BY <1>1, <2>1 DEF Faced, Says, Farewell
<1>12. DismissTrue' /\ LineEmpty'
  BY <1>1 DEF FacesInv, DismissTrue, StopComes, LineEmpty
<1> QED BY <1>4, <1>5, <1>6, <1>7, <1>9, <1>10, <1>11, <1>12 DEF FacesInv, DeskTrue

\* What was on the link is gone: no app is held dismissed by a word that was lost.
LEMMA LineLostStep == ASSUME AppWindowsAssumption, FacesInv, LineLost PROVE FacesInv'
<1>1. /\ control' = "lost" /\ upward' = <<>> /\ downward' = <<>>
      /\ \A a \in dismissed' : a \in dismissed /\ \A i \in DOMAIN downward : downward[i].app # a
      /\ unheard' = unheard \cup {note.n : note \in {x \in ToSet(upward) : x.kind = "exited"}}
      /\ UNCHANGED <<run, stopping, latch, pty, spawned, streams, windows, reading>>
  BY DEF LineLost, services, rpcd, desktop
<1>2. \A a, n : (Fate(a, n) => Fate(a, n)') /\ (Alive(a, n)' => Alive(a, n))
  <2> SUFFICES ASSUME NEW a, NEW n PROVE (Fate(a, n) => Fate(a, n)') /\ (Alive(a, n)' => Alive(a, n))
    OBVIOUS
  <2>1. Alive(a, n)' <=> Alive(a, n)
    BY <1>1 DEF Alive
  <2>2. (\E i \in DOMAIN upward : Says(i, "exited", a, n)) => n \in unheard'
    BY <1>1 DEF Says, ToSet
  <2> QED BY <1>1, <2>1, <2>2 DEF Fate
<1>3. FacesTypes'
  BY <1>1 DEF FacesInv, FacesTypes
<1>4. Numbered'
  BY <1>1 DEF FacesInv, Numbered, Was
<1>5. NoticesTrue'
  BY <1>1 DEF NoticesTrue, ClosedTrue, OpenedTrue, BornTrue, ExitedTrue
<1>6. DeskTrue' /\ StreamsTrue'
  BY <1>1, <1>2 DEF FacesInv, DeskTrue, ScreensTrue, MarksTrue, ReadTrue, StreamsTrue
<1>7. DismissTrue'
  BY <1>1 DEF FacesInv, DismissTrue, StopComes
<1>8. LineEmpty'
  BY <1>1 DEF LineEmpty
<1> QED BY <1>3, <1>4, <1>5, <1>6, <1>7, <1>8 DEF FacesInv

LEMMA SessionUpStep == ASSUME AppWindowsAssumption, FacesInv, SessionUp PROVE FacesInv'
<1> PICK m : m = Note("watch", "page", 0)
  OBVIOUS
<1>1. /\ control = "lost" /\ control' = "up" /\ streams' = {} /\ windows' = {w \in windows : w.app \in Webs} /\ downward' = <<m>>
      /\ UNCHANGED <<run, stopping, latch, pty, spawned, upward, reading, headless, unheard, dismissed>>
  BY DEF SessionUp, DropAllStreams, services, history
<1>2. upward = <<>> /\ downward = <<>>
  BY <1>1 DEF FacesInv, LineEmpty
<1>3. m \in WordSet
  BY DEF Note, WordSet
<1>4. FacesTypes'
  BY <1>1, <1>2, <1>3 DEF FacesInv, FacesTypes
<1>5. Numbered'
  BY <1>1, <1>2 DEF FacesInv, Numbered, Was
<1>6. NoticesTrue'
  BY <1>1, <1>2 DEF NoticesTrue, ClosedTrue, OpenedTrue, BornTrue, ExitedTrue
<1>7. Webs \cap Terms = {}
  BY DEF Terms, AppWindowsAssumption
<1>8. DeskTrue' /\ StreamsTrue'
  BY <1>1, <1>2, <1>7 DEF FacesInv, DeskTrue, ScreensTrue, MarksTrue, ReadTrue, StreamsTrue, Fate, Alive, Says
<1>9. DismissTrue'
  BY <1>1, <1>2 DEF FacesInv, DismissTrue, StopComes
<1>10. LineEmpty'
  BY <1>1 DEF LineEmpty
<1> QED BY <1>4, <1>5, <1>6, <1>8, <1>9, <1>10 DEF FacesInv

LEMMA FacesStep == ASSUME AppWindowsAssumption, FacesInv, [FacesNext]_facesVars PROVE FacesInv'
<1>1. CASE UNCHANGED facesVars
  <2>1. UNCHANGED <<run, spawned, streams, control, upward, reading, unheard, windows, stopping, latch, pty, downward, headless, dismissed>>
    BY <1>1 DEF facesVars
  <2>2. Numbered' /\ NoticesTrue' /\ DeskTrue'
    BY <2>1, Aside
  <2>3. FacesTypes' /\ DismissTrue' /\ LineEmpty'
    BY <2>1 DEF FacesInv, FacesTypes, DismissTrue, StopComes, LineEmpty
  <2>4. StreamsTrue'
    BY <2>1 DEF FacesInv, StreamsTrue, Alive, Faced, Farewell, Says
  <2> QED BY <2>2, <2>3, <2>4 DEF FacesInv
<1>2. CASE FacesNext
  BY <1>2, StartStep, SweepStep, ExitStep, HangupStep, StopStep, OnCloseStep, WatchStep, OnOpenedStep, OnClosedStep, OnExitedStep,
     OnCreateStep, CreateStep, CloseStep, LineLostStep, SessionUpStep DEF FacesNext
<1> QED BY <1>1, <1>2

\* WindowsTrue, for any apps, terminals and number of runs and losses.
THEOREM WindowsFollowApps == ASSUME AppWindowsAssumption PROVE FacesSpec => []WindowsTrue
<1>1. FacesInit => FacesInv
  <2> SUFFICES ASSUME FacesInit PROVE FacesInv
    OBVIOUS
  <2>1. run \in [All -> Nat] /\ spawned = 0 /\ streams = {} /\ control = "up" /\ upward = <<>> /\ downward = <<>> /\ windows = {}
        /\ reading = {} /\ pty = Shells /\ stopping = {} /\ dismissed = {} /\ \A a \in All : run[a] = 0
    BY DEF FacesInit
  <2>2. FacesTypes /\ Numbered
    BY <2>1 DEF FacesTypes, Numbered, Terms
  <2>3. NoticesTrue /\ DeskTrue /\ StreamsTrue /\ DismissTrue /\ LineEmpty
    BY <2>1 DEF NoticesTrue, ClosedTrue, OpenedTrue, BornTrue, ExitedTrue, DeskTrue, ScreensTrue, MarksTrue, ReadTrue, StreamsTrue,
                DismissTrue, LineEmpty
  <2> QED BY <2>2, <2>3 DEF FacesInv
<1>2. FacesInv /\ [FacesNext]_facesVars => FacesInv'
  BY FacesStep
<1>3. FacesInv => WindowsTrue
  <2> SUFFICES ASSUME FacesInv PROVE WindowsTrue
    OBVIOUS
  <2>1. \A s : Faced(s) => \/ \E w \in windows : w.n = s.n
                           \/ Coming("opened", s.n) \/ s.n \in headless \/ s.app \in stopping \/ Going(s.app)
    BY DEF Faced, Says, Farewell, Coming, Going
  <2>2. control = "up" =>
          /\ \A w \in windows : w.app \in Terms => Of(w.app, w.n) \in streams \/ Coming("closed", w.n)
          /\ \A s \in streams : Alive(s.app, s.n) =>
               \/ \E w \in windows : w.n = s.n
               \/ Coming("opened", s.n) \/ s.n \in headless \/ s.app \in stopping \/ Going(s.app)
    BY <2>1 DEF FacesInv, DeskTrue, ScreensTrue, StreamsTrue, Coming
  <2>3. \A w \in windows : w.app \in Managed =>
          IF w.exited THEN ~Alive(w.app, w.n) ELSE Alive(w.app, w.n) \/ w.n \in unheard \/ Coming("exited", w.n)
    BY DEF FacesInv, DeskTrue, MarksTrue, Fate, Says, Coming
  <2>4. \A a \in dismissed \cap Managed : Going(a) \/ (IF run[a] = 0 THEN a \in latch ELSE a \in stopping)
    BY DEF FacesInv, DismissTrue, StopComes, Going
  <2> QED BY <2>2, <2>3, <2>4 DEF WindowsTrue
<1> QED BY <1>1, <1>2, <1>3, PTL DEF FacesSpec

----------------------------------------------------------------------------
\* Every variable keeps its type, and the queue never passes MAX_CAP
\* (outq_push, outq_flush).
THEOREM QueueTypeCorrect == Spec => []TypeOK
<1> USE OutQueueAssumption
<1>1. ASSUME Init PROVE TypeOK
  <2>1. lost \in BOOLEAN
    BY <1>1 DEF Init
  <2>2. len = 0 /\ off = 0 /\ unread = 0
    BY <1>1 DEF Init
  <2> QED
    BY <2>1, <2>2 DEF TypeOK
<1>2. TypeOK /\ [Next]_vars => TypeOK'
  <2> SUFFICES ASSUME TypeOK, [Next]_vars PROVE TypeOK'
    OBVIOUS
  <2>1. CASE Pump
    <3>1. lost' \in BOOLEAN
      BY <2>1 DEF TypeOK, Pump
    <3>2. len' \in len .. MAX_CAP
      BY <2>1 DEF TypeOK, Pump, Fits, Push
    <3>3. UNCHANGED <<off, unread>>
      BY <2>1 DEF Pump
    <3> QED
      BY <3>1, <3>2, <3>3 DEF TypeOK
  <2>2. CASE Flush
    BY <2>2 DEF TypeOK, Flush, Accepted, Backlog
  <2>3. CASE PeerReads
    BY <2>3 DEF TypeOK, PeerReads
  <2>4. CASE UNCHANGED vars
    BY <2>4 DEF TypeOK, vars
  <2> QED
    BY <2>1, <2>2, <2>3, <2>4 DEF Next
<1> QED
  BY <1>1, <1>2, PTL DEF Spec

\* rpcd buffers at most one frame beyond MUX_OUT_HIGH for the page, whatever
\* the apps write (stream_pump_out).
THEOREM MuxBacklogBounded == Spec => []BacklogBounded
<1> USE OutQueueAssumption
<1>1. Init => BacklogBounded
  BY DEF Init, BacklogBounded, Backlog
<1>2. TypeOK /\ BacklogBounded /\ [Next]_vars => BacklogBounded'
  <2> SUFFICES ASSUME TypeOK, BacklogBounded, [Next]_vars PROVE BacklogBounded'
    OBVIOUS
  <2>1. CASE Pump
    BY <2>1 DEF TypeOK, BacklogBounded, Pump, Fits, Push, Backlog
  <2>2. CASE Flush
    BY <2>2 DEF TypeOK, BacklogBounded, Flush, Accepted, Backlog
  <2>3. CASE PeerReads
    BY <2>3 DEF BacklogBounded, PeerReads, Backlog
  <2>4. CASE UNCHANGED vars
    BY <2>4 DEF BacklogBounded, Backlog, vars
  <2> QED
    BY <2>1, <2>2, <2>3, <2>4 DEF Next
<1> QED
  BY <1>1, <1>2, QueueTypeCorrect, PTL DEF Spec
=============================================================================
