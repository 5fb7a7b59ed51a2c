---------------------------- MODULE Lanes_proofs ----------------------------
(***************************************************************************)
(* What rpcd's outward lanes promise: events, and the bytes of terminals.  *)
(***************************************************************************)
EXTENDS RpcdEvents, StreamLane, FiniteSetTheorems, SequenceTheorems, TLAPS

----------------------------------------------------------------------------
(* Events.  The ledger of a listener: its queue q, the events k it knows    *)
(* of, the events e emitted to it, those d that are folded.                 *)

Items == [kind : {"event", "gap", "line"}, n : Nat]

NoWord(q)  == \A j \in 1 .. Len(q) : q[j].kind = "line"
GapFirst(q) == \A j \in 1 .. Len(q) : q[j].kind = "gap" => j = 1
Rising(q)   == \A i, j \in 1 .. Len(q) : i < j /\ q[j].kind = "event" =>
                 /\ q[i].kind = "event" => q[i].n < q[j].n
Within(q, k, e) ==
  \A j \in 1 .. Len(q) :
    /\ q[j].kind = "event" => q[j].n \in k + 1 .. e
    /\ q[j].kind = "gap" => /\ q[j].n # 0 /\ k + q[j].n <= e
                            /\ \A i \in 1 .. Len(q) : q[i].kind = "event" => q[i].n > k + q[j].n
Covered(q, k, e) == \A n \in k + 1 .. e : \E j \in 1 .. Len(q) : Tells(q, j, k, n)

Ledger(q, k, e) ==
  /\ k <= e
  /\ GapFirst(q) /\ Rising(q) /\ Within(q, k, e) /\ Covered(q, k, e)

Spoken(q) == {j \in 1 .. Len(q) : q[j].kind # "line"}

LEMMA AppendEvent ==
  ASSUME NEW q \in Seq(Items), NEW k \in Nat, NEW e \in Nat, Ledger(q, k, e)
  PROVE  Ledger(Append(q, Event(e + 1)), k, e + 1)
<1> DEFINE r == Append(q, Event(e + 1))
<1>1. Len(r) = Len(q) + 1 /\ r[Len(r)] = Event(e + 1) /\ \A j \in 1 .. Len(q) : r[j] = q[j]
  OBVIOUS
<1>2. \A j \in 1 .. Len(r) : j \in 1 .. Len(q) \/ j = Len(r)
  BY <1>1
<1>3. GapFirst(r) /\ Rising(r) /\ Within(r, k, e + 1)
  <2> HIDE DEF r
  <2>1. Len(q) \in Nat /\ \A j \in 1 .. Len(q) : q[j] \in Items
    OBVIOUS
  <2>2. GapFirst(r)
    BY <1>1, <1>2 DEF Ledger, GapFirst, Event
  <2>3. \A j \in 1 .. Len(q) : r[j].kind = "event" => r[j].n \in k + 1 .. e
    BY <1>1, <2>1 DEF Ledger, Within, Items
  <2>4. Rising(r)
    <3> SUFFICES ASSUME NEW i \in 1 .. Len(r), NEW j \in 1 .. Len(r), i < j, r[j].kind = "event", r[i].kind = "event"
                 PROVE  r[i].n < r[j].n
      BY DEF Rising
    <3>1. i \in 1 .. Len(q)
      BY <1>1, <2>1
    <3>2. CASE j \in 1 .. Len(q)
      BY <1>1, <2>1, <3>1, <3>2 DEF Ledger, Rising
    <3>3. CASE j = Len(r)
      BY <1>1, <2>3, <3>1, <3>3 DEF Event
    <3> QED BY <1>2, <3>2, <3>3
  <2>5. \A j \in 1 .. Len(r) : r[j].kind = "event" => r[j].n \in k + 1 .. e + 1
    BY <1>1, <1>2, <2>3 DEF Event, Ledger
  <2>6. ASSUME NEW j \in 1 .. Len(r), r[j].kind = "gap"
        PROVE  /\ r[j].n # 0 /\ k + r[j].n <= e + 1
               /\ \A i \in 1 .. Len(r) : r[i].kind = "event" => r[i].n > k + r[j].n
    <3>1. j \in 1 .. Len(q) /\ q[j].kind = "gap" /\ r[j] = q[j] /\ q[j].n \in Nat
      BY <1>1, <1>2, <2>1, <2>6 DEF Event, Items
    <3>2. /\ q[j].n # 0 /\ k + q[j].n <= e
          /\ \A i \in 1 .. Len(q) : q[i].kind = "event" => q[i].n > k + q[j].n
      BY <3>1 DEF Ledger, Within
    <3> QED BY <1>1, <1>2, <3>1, <3>2 DEF Event
  <2>7. Within(r, k, e + 1)
    BY <2>5, <2>6 DEF Within
  <2> QED BY <2>2, <2>4, <2>7
<1>4. Covered(r, k, e + 1)
  <2> SUFFICES ASSUME NEW n \in k + 1 .. e + 1 PROVE \E j \in 1 .. Len(r) : Tells(r, j, k, n)
    BY DEF Covered
  <2>1. CASE n = e + 1
    <3>1. Tells(r, Len(r), k, n) /\ Len(r) \in 1 .. Len(r)
      <4> HIDE DEF r
      <4> QED BY <2>1, <1>1 DEF Tells, Event
    <3> QED BY <3>1
  <2>2. CASE n # e + 1
    <3>1. PICK j \in 1 .. Len(q) : Tells(q, j, k, n)
      BY <2>2 DEF Ledger, Covered
    <3> QED BY <3>1, <1>1 DEF Tells
  <2> QED BY <2>1, <2>2
<1> QED BY <1>3, <1>4 DEF Ledger

LEMMA AppendLine ==
  ASSUME NEW q \in Seq(Items), NEW k \in Nat, NEW e \in Nat, Ledger(q, k, e)
  PROVE  Ledger(Append(q, Line), k, e)
<1> DEFINE r == Append(q, Line)
<1>1. Len(r) = Len(q) + 1 /\ r[Len(r)] = Line /\ \A j \in 1 .. Len(q) : r[j] = q[j]
  OBVIOUS
<1>2. \A j \in 1 .. Len(r) : j \in 1 .. Len(q) \/ j = Len(r)
  BY <1>1
<1>3. GapFirst(r) /\ Rising(r) /\ Within(r, k, e)
  <2> HIDE DEF r
  <2>1. Len(q) \in Nat /\ \A j \in 1 .. Len(q) : q[j] \in Items
    OBVIOUS
  <2>2. GapFirst(r)
    BY <1>1, <1>2 DEF Ledger, GapFirst, Line
  <2>3. \A j \in 1 .. Len(q) : r[j].kind = "event" => r[j].n \in k + 1 .. e
    BY <1>1, <2>1 DEF Ledger, Within, Items
  <2>4. Rising(r)
    <3> SUFFICES ASSUME NEW i \in 1 .. Len(r), NEW j \in 1 .. Len(r), i < j, r[j].kind = "event", r[i].kind = "event"
                 PROVE  r[i].n < r[j].n
      BY DEF Rising
    <3>1. i \in 1 .. Len(q)
      BY <1>1, <2>1
    <3>2. CASE j \in 1 .. Len(q)
      BY <1>1, <2>1, <3>1, <3>2 DEF Ledger, Rising
    <3>3. CASE j = Len(r)
      BY <1>1, <2>3, <3>1, <3>3 DEF Line
    <3> QED BY <1>2, <3>2, <3>3
  <2>5. \A j \in 1 .. Len(r) : r[j].kind = "event" => r[j].n \in k + 1 .. e
    BY <1>1, <1>2, <2>3 DEF Line
  <2>6. ASSUME NEW j \in 1 .. Len(r), r[j].kind = "gap"
        PROVE  /\ r[j].n # 0 /\ k + r[j].n <= e
               /\ \A i \in 1 .. Len(r) : r[i].kind = "event" => r[i].n > k + r[j].n
    <3>1. j \in 1 .. Len(q) /\ q[j].kind = "gap" /\ r[j] = q[j] /\ q[j].n \in Nat
      BY <1>1, <1>2, <2>1, <2>6 DEF Line, Items
    <3>2. /\ q[j].n # 0 /\ k + q[j].n <= e
          /\ \A i \in 1 .. Len(q) : q[i].kind = "event" => q[i].n > k + q[j].n
      BY <3>1 DEF Ledger, Within
    <3> QED BY <1>1, <1>2, <3>1, <3>2 DEF Line
  <2>7. Within(r, k, e)
    BY <2>5, <2>6 DEF Within
  <2> QED BY <2>2, <2>4, <2>7
<1>4. Covered(r, k, e)
  <2> SUFFICES ASSUME NEW n \in k + 1 .. e PROVE \E j \in 1 .. Len(r) : Tells(r, j, k, n)
    BY DEF Covered
  <2>1. PICK j \in 1 .. Len(q) : Tells(q, j, k, n)
    BY DEF Ledger, Covered
  <2> QED BY <2>1, <1>1 DEF Tells
<1> QED BY <1>3, <1>4 DEF Ledger

LEMMA TakeHead ==
  ASSUME NEW q \in Seq(Items), q # <<>>, NEW k \in Nat, NEW e \in Nat, Ledger(q, k, e)
  PROVE  k + Weight(Head(q)) \in Nat /\ Ledger(Tail(q), k + Weight(Head(q)), e)
<1> DEFINE r == Tail(q)
           m == k + Weight(Head(q))
<1>1. Len(r) = Len(q) - 1 /\ Head(q) = q[1] /\ 1 \in 1 .. Len(q) /\ q[1] \in Items /\ Len(q) \in Nat
      /\ \A j \in 1 .. Len(r) : r[j] = q[j + 1] /\ j + 1 \in 1 .. Len(q) /\ j + 1 # 1
  OBVIOUS
<1>2. /\ q[1].kind \in {"event", "gap", "line"} /\ q[1].n \in Nat
      /\ q[1].kind = "event" => m = k + 1
      /\ q[1].kind = "gap" => m = k + q[1].n
      /\ q[1].kind = "line" => m = k
  BY <1>1 DEF Weight, Items
<1> HIDE DEF m
<1>3. m \in Nat /\ k <= m /\ m <= e
  BY <1>1, <1>2 DEF Ledger, Within
<1>4. ASSUME q[1].kind = "event" PROVE q[1].n = k + 1
  <2>1. q[1].n >= k + 1
    BY <1>1, <1>4 DEF Ledger, Within
  <2>2. PICK i \in 1 .. Len(q) : Tells(q, i, k, k + 1)
    BY <1>2, <1>3, <1>4 DEF Ledger, Covered
  <2>3. q[i].kind = "event" /\ q[i].n = k + 1
    BY <2>2, <1>1, <1>4 DEF Ledger, GapFirst, Tells
  <2>4. i # 1 => q[1].n < q[i].n
    BY <2>3, <1>1, <1>4 DEF Ledger, Rising
  <2> QED BY <2>1, <2>3, <2>4, <1>2
<1>5. \A j \in 1 .. Len(r) : r[j].kind # "gap"
  BY <1>1 DEF Ledger, GapFirst
<1>6. \A j \in 1 .. Len(r) : r[j].kind = "event" => r[j].n \in m + 1 .. e
  <2> SUFFICES ASSUME NEW j \in 1 .. Len(r), r[j].kind = "event" PROVE r[j].n \in m + 1 .. e
    OBVIOUS
  <2>1. q[j + 1].kind = "event" /\ r[j].n = q[j + 1].n /\ q[j + 1].n \in k + 1 .. e
    BY <1>1 DEF Ledger, Within
  <2>2. CASE q[1].kind = "event"
    <3>1. q[1].n < q[j + 1].n
      BY <2>1, <2>2, <1>1 DEF Ledger, Rising
    <3> QED BY <2>1, <2>2, <3>1, <1>2, <1>4
  <2>3. CASE q[1].kind = "gap"
    BY <2>1, <2>3, <1>1, <1>2, <1>3 DEF Ledger, Within
  <2>4. CASE q[1].kind = "line"
    BY <2>1, <2>4, <1>2
  <2> QED BY <2>2, <2>3, <2>4, <1>2
<1>7. Rising(r)
  <2> SUFFICES ASSUME NEW i \in 1 .. Len(r), NEW j \in 1 .. Len(r), i < j, r[j].kind = "event", r[i].kind = "event"
               PROVE  r[i].n < r[j].n
    BY DEF Rising
  <2>1. r[i] = q[i + 1] /\ r[j] = q[j + 1] /\ i + 1 < j + 1 /\ i + 1 \in 1 .. Len(q) /\ j + 1 \in 1 .. Len(q)
    BY <1>1
  <2> QED BY <2>1 DEF Ledger, Rising
<1>8. Covered(r, m, e)
  <2> SUFFICES ASSUME NEW n \in m + 1 .. e PROVE \E j \in 1 .. Len(r) : Tells(r, j, m, n)
    BY DEF Covered
  <2>1. PICK i \in 1 .. Len(q) : Tells(q, i, k, n)
    BY <1>3 DEF Ledger, Covered
  <2>2. i # 1
    BY <2>1, <1>2, <1>4 DEF Tells
  <2>3. q[i].kind = "event" /\ q[i].n = n
    BY <2>1, <2>2 DEF Ledger, GapFirst, Tells
  <2>4. i - 1 \in 1 .. Len(r) /\ r[i - 1] = q[i]
    BY <2>2, <1>1
  <2> QED BY <2>3, <2>4 DEF Tells
<1>9. GapFirst(r) /\ Within(r, m, e)
  BY <1>5, <1>6 DEF GapFirst, Within
<1> QED BY <1>3, <1>7, <1>8, <1>9 DEF Ledger, m

\* A number is told by one item at most.
LEMMA TellsOnce ==
  ASSUME NEW q \in Seq(Items), NEW k \in Nat, NEW e \in Nat, Ledger(q, k, e), NEW n \in Nat, n > k,
         NEW i \in 1 .. Len(q), NEW j \in 1 .. Len(q), Tells(q, i, k, n), Tells(q, j, k, n)
  PROVE  i = j
<1>1. CASE q[i].kind = "event" /\ q[j].kind = "event"
  BY <1>1 DEF Ledger, Rising, Tells
<1>2. CASE q[i].kind = "gap" /\ q[j].kind = "gap"
  BY <1>2 DEF Ledger, GapFirst
<1>3. ASSUME NEW a \in 1 .. Len(q), NEW b \in 1 .. Len(q), q[a].kind = "event", q[b].kind = "gap",
             Tells(q, a, k, n), Tells(q, b, k, n)
      PROVE  FALSE
  <2>1. q[a].n = n /\ n \in k + 1 .. k + q[b].n /\ q[b] \in Items
    BY <1>3 DEF Tells
  <2>2. q[a].n > k + q[b].n
    BY <1>3 DEF Ledger, Within
  <2> QED BY <2>1, <2>2 DEF Items
<1>4. (q[i].kind = "event" \/ q[i].kind = "gap") /\ (q[j].kind = "event" \/ q[j].kind = "gap")
  BY DEF Tells
<1> QED BY <1>1, <1>2, <1>3, <1>4

\* An event at the head is the next one.
LEMMA NextIsNext ==
  ASSUME NEW q \in Seq(Items), NEW k \in Nat, NEW e \in Nat, Ledger(q, k, e), q # <<>>, Head(q).kind = "event"
  PROVE  Head(q).n = k + 1
<1>1. Head(q) = q[1] /\ 1 \in 1 .. Len(q)
  OBVIOUS
<1>2. q[1].n \in k + 1 .. e
  BY <1>1 DEF Ledger, Within
<1>3. PICK i \in 1 .. Len(q) : Tells(q, i, k, k + 1)
  BY <1>2 DEF Ledger, Covered
<1>4. q[i].kind = "event" /\ q[i].n = k + 1
  BY <1>1, <1>3 DEF Ledger, GapFirst, Tells
<1>5. i # 1 => q[1].n < q[i].n
  BY <1>1, <1>4 DEF Ledger, Rising
<1> QED BY <1>1, <1>2, <1>4, <1>5

LEMMA FoldedGap ==
  ASSUME NEW k \in Nat, NEW e \in Nat, NEW d \in Nat, d # 0, d <= e, Ledger(<<>>, k, e - d)
  PROVE  Ledger(<<Gap(d)>>, k, e)
<1>1. k = e - d
  <2>1. k <= e - d /\ ~(k + 1 <= e - d)
    BY DEF Ledger, Covered
  <2> QED BY <2>1
<1> DEFINE r == <<Gap(d)>>
<1>2. Len(r) = 1 /\ r[1] = Gap(d)
  OBVIOUS
<1> HIDE DEF r
<1>3. \A j \in 1 .. Len(r) : j = 1
  BY <1>2
<1>4. GapFirst(r) /\ Rising(r) /\ Within(r, k, e)
  BY <1>1, <1>2, <1>3 DEF GapFirst, Rising, Within, Gap
<1>5. Covered(r, k, e)
  BY <1>1, <1>2, <1>3 DEF Covered, Tells, Gap
<1> QED BY <1>1, <1>4, <1>5 DEF Ledger, r

LEMMA Silence ==
  ASSUME NEW q \in Seq(Items), NoWord(q)
  PROVE  Spoken(q) = {} /\ Ledger(q, 0, 0)
<1>1. Spoken(q) = {}
  BY DEF NoWord, Spoken
<1>2. GapFirst(q) /\ Rising(q) /\ Within(q, 0, 0)
  BY DEF NoWord, GapFirst, Rising, Within
<1>3. Covered(q, 0, 0)
  BY DEF Covered
<1> QED BY <1>1, <1>2, <1>3 DEF Ledger

LEMMA SpokenFinite ==
  ASSUME NEW q \in Seq(Items)
  PROVE  IsFiniteSet(Spoken(q)) /\ Cardinality(Spoken(q)) \in Nat
<1>1. IsFiniteSet(1 .. Len(q)) /\ Spoken(q) \in SUBSET (1 .. Len(q))
  BY FS_Interval DEF Spoken
<1> QED BY <1>1, FS_Subset, FS_CardinalityType

LEMMA SpokenAppend ==
  ASSUME NEW q \in Seq(Items), NEW x \in Items
  PROVE  Cardinality(Spoken(Append(q, x))) <= Cardinality(Spoken(q)) + (IF x.kind = "line" THEN 0 ELSE 1)
<1> DEFINE r == Append(q, x)
           S == Spoken(q)
           c == Cardinality(S)
<1>1. Len(r) = Len(q) + 1 /\ r[Len(q) + 1] = x /\ \A j \in 1 .. Len(q) : r[j] = q[j]
  OBVIOUS
<1>2. IsFiniteSet(S) /\ c \in Nat
  BY SpokenFinite
<1>3. CASE x.kind = "line"
  <2>1. Spoken(r) = S
    BY <1>1, <1>3 DEF Spoken
  <2> QED BY <2>1, <1>2, <1>3
<1>4. CASE x.kind # "line"
  <2>1. Spoken(r) = S \cup {Len(q) + 1} /\ Len(q) + 1 \notin S
    BY <1>1, <1>4 DEF Spoken
  <2>2. Cardinality(S \cup {Len(q) + 1}) = c + 1
    BY <2>1, <1>2, FS_AddElement
  <2> QED BY <2>1, <2>2, <1>2, <1>4
<1> QED BY <1>3, <1>4

LEMMA SpokenTail ==
  ASSUME NEW q \in Seq(Items), q # <<>>
  PROVE  Cardinality(Spoken(Tail(q))) <= Cardinality(Spoken(q))
<1> DEFINE S == Spoken(Tail(q))
           T == Spoken(q)
           f == [j \in S |-> j + 1]
<1>1. Len(Tail(q)) = Len(q) - 1
      /\ \A j \in 1 .. Len(q) - 1 : Tail(q)[j] = q[j + 1] /\ j + 1 \in 1 .. Len(q)
  OBVIOUS
<1>2. \A j \in S : j \in Int /\ j + 1 \in T
  BY <1>1 DEF Spoken
<1>3. f \in Injection(S, T)
  <2>1. f \in [S -> T] /\ \A a, b \in S : f[a] = f[b] => a = b
    BY <1>2
  <2> QED BY <2>1 DEF Injection, IsInjective
<1> QED BY <1>3, SpokenFinite, FS_Injection

----------------------------------------------------------------------------
(* What holds of one listener: whether it is up, its queue q, its backlog b, *)
(* and its ledger.                                                          *)

Fine(on, q, b, d, e, k) ==
  /\ on \in BOOLEAN /\ q \in Seq(Items) /\ d \in Nat /\ e \in Nat /\ k \in Nat
  /\ b \in 0 .. EV_BACKLOG_MAX
  /\ d <= e /\ (d # 0 => b = EV_BACKLOG_MAX)
  /\ Cardinality(Spoken(q)) <= b
  /\ on => Ledger(q, k, e - d)
  /\ ~on => NoWord(q)

LEMMA FineBlank ==
  ASSUME NEW q \in Seq(Items), NoWord(q), NEW on \in BOOLEAN
  PROVE  Fine(on, q, 0, 0, 0, 0)
<1>1. 0 - 0 = 0
  OBVIOUS
<1>2. Spoken(q) = {} /\ Ledger(q, 0, 0 - 0)
  BY <1>1, Silence
<1>3. Cardinality(Spoken(q)) = 0
  BY <1>2, FS_EmptySet
<1> QED BY <1>2, <1>3, RpcdEventsAssumption DEF Fine

LEMMA FineDown ==
  ASSUME NEW on, NEW b, NEW d, NEW e, NEW k, NEW q, Fine(on, q, b, d, e, k),
         NEW r \in Seq(Items), NoWord(r)
  PROVE  Fine(FALSE, r, b, d, e, k)
<1>1. Cardinality(Spoken(r)) = 0
  BY Silence, FS_EmptySet
<1> QED BY <1>1 DEF Fine

LEMMA FineHeard ==
  ASSUME NEW b, NEW d, NEW e, NEW k, NEW q, Fine(TRUE, q, b, d, e, k), b < EV_BACKLOG_MAX
  PROVE  Fine(TRUE, Append(q, Event(e + 1)), b + 1, d, e + 1, k)
<1> DEFINE r == Append(q, Event(e + 1))
           c == Cardinality(Spoken(q))
           cc == Cardinality(Spoken(r))
<1>1. d = 0 /\ Event(e + 1) \in Items /\ r \in Seq(Items) /\ Event(e + 1).kind # "line"
  BY RpcdEventsAssumption DEF Fine, Items, Event
<1>2. Ledger(r, k, e + 1)
  BY <1>1, AppendEvent DEF Fine
<1>3. cc <= c + 1 /\ c \in Nat /\ cc \in Nat
  BY <1>1, SpokenAppend, SpokenFinite DEF Fine
<1> HIDE DEF r, c, cc
<1> QED BY <1>1, <1>2, <1>3, RpcdEventsAssumption DEF Fine, r, c, cc

LEMMA FineFolded ==
  ASSUME NEW b, NEW d, NEW e, NEW k, NEW q, Fine(TRUE, q, b, d, e, k), ~(b < EV_BACKLOG_MAX)
  PROVE  Fine(TRUE, q, b, d + 1, e + 1, k)
<1>1. e + 1 - (d + 1) = e - d
  BY DEF Fine
<1> QED BY <1>1, RpcdEventsAssumption DEF Fine

LEMMA FineSaid ==
  ASSUME NEW b, NEW d, NEW e, NEW k, NEW q, Fine(TRUE, q, b, d, e, k)
  PROVE  Fine(TRUE, Append(q, Line), b, d, e, k)
<1> DEFINE r == Append(q, Line)
           c == Cardinality(Spoken(q))
           cc == Cardinality(Spoken(r))
<1>1. Line \in Items /\ r \in Seq(Items) /\ Line.kind = "line" /\ e - d \in Nat
  BY DEF Fine, Items, Line
<1>2. Ledger(r, k, e - d)
  BY <1>1, AppendLine DEF Fine
<1>3. cc <= c + (IF Line.kind = "line" THEN 0 ELSE 1) /\ c \in Nat /\ cc \in Nat
  BY <1>1, SpokenAppend, SpokenFinite DEF Fine
<1>4. cc <= c
  BY <1>1, <1>3
<1> HIDE DEF r, c, cc
<1> QED BY <1>1, <1>2, <1>3, <1>4, RpcdEventsAssumption DEF Fine, r, c, cc

LEMMA FineTold ==
  ASSUME NEW b, NEW d, NEW e, NEW k, Fine(TRUE, <<>>, b, d, e, k), d > 0
  PROVE  Fine(TRUE, <<Gap(d)>>, 1, 0, e, k)
<1>1. Gap(d) \in Items /\ <<Gap(d)>> \in Seq(Items) /\ d \in Nat \ {0} /\ d <= e
  BY DEF Fine, Items, Gap
<1>2. Ledger(<<Gap(d)>>, k, e - 0)
  <2>1. Ledger(<<Gap(d)>>, k, e)
    BY <1>1, FoldedGap DEF Fine
  <2>2. e - 0 = e
    BY DEF Fine
  <2> QED BY <2>1, <2>2
<1>3. Spoken(<<Gap(d)>>) = {1}
  BY DEF Spoken, Gap
<1>4. Cardinality(Spoken(<<Gap(d)>>)) = 1
  BY <1>3, FS_Singleton
<1> DEFINE q == <<Gap(d)>>
<1> HIDE DEF q
<1>5. q \in Seq(Items) /\ Ledger(q, k, e - 0) /\ Cardinality(Spoken(q)) = 1
  BY <1>1, <1>2, <1>4 DEF q
<1>6. Fine(TRUE, q, 1, 0, e, k)
  BY <1>5, RpcdEventsAssumption DEF Fine
<1> QED BY <1>6 DEF q

LEMMA FineDry ==
  ASSUME NEW b, NEW e, NEW k, NEW d, Fine(TRUE, <<>>, b, d, e, k), ~(d > 0)
  PROVE  Fine(TRUE, <<>>, 0, d, e, k)
<1>1. <<>> \in Seq(Items) /\ Spoken(<<>>) = {}
  BY DEF Spoken
<1>2. Cardinality(Spoken(<<>>)) = 0
  BY <1>1, FS_EmptySet
<1> QED BY <1>1, <1>2, RpcdEventsAssumption DEF Fine

LEMMA FineRead ==
  ASSUME NEW on, NEW b, NEW d, NEW e, NEW k, NEW q, Fine(on, q, b, d, e, k), q # <<>>
  PROVE  Fine(on, Tail(q), b, d, e, k + Weight(Head(q)))
<1> DEFINE c == Cardinality(Spoken(q))
           cc == Cardinality(Spoken(Tail(q)))
           m == k + Weight(Head(q))
<1>1. q \in Seq(Items) /\ Tail(q) \in Seq(Items) /\ k \in Nat /\ e - d \in Nat /\ Head(q) = q[1] /\ q[1] \in Items
  BY DEF Fine
<1>2. m \in Nat
  BY <1>1 DEF Weight, Items
<1>3. on => Ledger(Tail(q), m, e - d)
  BY <1>1, TakeHead DEF Fine
<1>4. ~on => NoWord(Tail(q))
  BY <1>1 DEF Fine, NoWord
<1>5. cc <= c /\ c \in Nat /\ cc \in Nat
  BY <1>1, SpokenTail, SpokenFinite
<1> HIDE DEF m, c, cc
<1> QED BY <1>1, <1>2, <1>3, <1>4, <1>5, RpcdEventsAssumption DEF Fine, c, cc, m

----------------------------------------------------------------------------
(* Steps.                                                                   *)

IsMap(f) == f = [l \in Listeners |-> f[l]]

EventsInv ==
  /\ IsMap(live) /\ IsMap(watch) /\ IsMap(out) /\ IsMap(backlog) /\ IsMap(dropped) /\ IsMap(emitted) /\ IsMap(known)
  /\ \A l \in Listeners : Fine(live[l], out[l], backlog[l], dropped[l], emitted[l], known[l])

\* The listener l' of a step, as it is after it.
After(l) == Fine(live'[l], out'[l], backlog'[l], dropped'[l], emitted'[l], known'[l])

\* The maps are still maps after a step.
Maps ==
  /\ IsMap(live') /\ IsMap(watch') /\ IsMap(out') /\ IsMap(backlog') /\ IsMap(dropped') /\ IsMap(emitted')
  /\ IsMap(known')

LEMMA StaleIsSilent ==
  ASSUME NEW q \in Seq(Items)
  PROVE  /\ Stale(q) \in Seq(Items) /\ NoWord(Stale(q))
         /\ Append(Stale(q), Line) \in Seq(Items) /\ NoWord(Append(Stale(q), Line))
<1> DEFINE r == Stale(q)
<1>2. Line \in Items /\ Line.kind = "line"
  BY DEF Line, Items
<1>1. r \in Seq(Items) /\ Len(r) = Len(q) /\ \A j \in 1 .. Len(q) : r[j] = Line
  <2>1. Len(q) \in Nat /\ DOMAIN q = 1 .. Len(q)
    OBVIOUS
  <2>2. r \in [1 .. Len(q) -> Items]
    BY <2>1, <1>2 DEF Stale
  <2>3. r \in Seq(Items) /\ Len(r) = Len(q)
    BY <2>1, <2>2
  <2> QED BY <2>1, <2>3 DEF Stale
<1> HIDE DEF r
<1>3. NoWord(r)
  BY <1>1, <1>2 DEF NoWord
<1>4. Append(r, Line) \in Seq(Items) /\ Len(Append(r, Line)) = Len(r) + 1 /\ Append(r, Line)[Len(r) + 1] = Line
      /\ \A j \in 1 .. Len(r) : Append(r, Line)[j] = r[j]
  BY <1>1, <1>2
<1>5. NoWord(Append(r, Line))
  BY <1>1, <1>2, <1>3, <1>4 DEF NoWord
<1> QED BY <1>1, <1>3, <1>4, <1>5 DEF r

LEMMA LedgersStart == EventsInit => EventsInv
<1> SUFFICES ASSUME EventsInit PROVE EventsInv
  OBVIOUS
<1>1. <<>> \in Seq(Items) /\ NoWord(<<>>)
  BY DEF NoWord
<1>2. \A l \in Listeners : Fine(FALSE, <<>>, 0, 0, 0, 0)
  BY <1>1, FineBlank
<1> QED BY <1>2 DEF EventsInit, EventsInv, IsMap

\* A new client, or the page in a new session, starts with a blank ledger.
LEMMA FreshKeeps ==
  ASSUME EventsInv, NEW c \in Listeners, Fresh(c), UNCHANGED out \/ \E q : out' = [out EXCEPT ![c] = q],
         out'[c] \in Seq(Items), NoWord(out'[c])
  PROVE  Maps /\ \A l \in Listeners : After(l)
<1>1. Maps
  BY DEF Fresh, EventsInv, IsMap, Maps
<1>2. After(c)
  <2>1. Fine(TRUE, out'[c], 0, 0, 0, 0)
    BY FineBlank
  <2> QED BY <2>1 DEF Fresh, EventsInv, IsMap, After
<1>3. ASSUME NEW l \in Listeners, l # c PROVE After(l)
  BY <1>3 DEF Fresh, EventsInv, IsMap, After
<1> QED BY <1>1, <1>2, <1>3

LEMMA LedgersKept == EventsInv /\ [EventsNext]_eventVars => EventsInv'
<1> SUFFICES ASSUME EventsInv, [EventsNext]_eventVars PROVE Maps /\ \A l \in Listeners : After(l)
  BY DEF EventsInv, Maps, After, Listeners
<1> USE DEF EventsInv, IsMap
<1>1. ASSUME NEW c \in Clients, Join(c) PROVE Maps /\ \A l \in Listeners : After(l)
  <2>1. c \in Listeners /\ out' = out /\ ~live[c] /\ Fresh(c)
    BY <1>1 DEF Join, Listeners
  <2>2. out'[c] \in Seq(Items) /\ NoWord(out'[c])
    BY <2>1 DEF Fine
  <2> QED BY <2>1, <2>2, FreshKeeps
<1>2. ASSUME NEW c \in Clients, Leave(c) PROVE Maps /\ \A l \in Listeners : After(l)
  <2>1. c \in Listeners
    BY DEF Listeners
  <2>2. <<>> \in Seq(Items) /\ NoWord(<<>>)
    BY DEF NoWord
  <2>3. Fine(FALSE, <<>>, backlog[c], dropped[c], emitted[c], known[c])
    BY <2>1, <2>2, FineDown
  <2> QED BY <1>2, <2>1, <2>3 DEF Leave, Maps, After
<1>3. CASE PageDown
  <2>1. Page \in Listeners
    BY DEF Listeners
  <2>2. Fine(FALSE, Stale(out[Page]), backlog[Page], dropped[Page], emitted[Page], known[Page])
    <3>1. out[Page] \in Seq(Items)
      BY <2>1 DEF Fine
    <3> QED BY <2>1, <3>1, StaleIsSilent, FineDown
  <2> QED BY <1>3, <2>1, <2>2 DEF PageDown, Maps, After
<1>4. CASE PageAnew
  <2>1. Page \in Listeners /\ out[Page] \in Seq(Items)
    BY DEF Listeners, Fine
  <2>2. Fresh(Page) /\ out' = [out EXCEPT ![Page] = Append(Stale(out[Page]), Line)]
    BY <1>4 DEF PageAnew
  <2>3. out'[Page] = Append(Stale(out[Page]), Line)
    BY <2>1, <2>2
  <2>4. out'[Page] \in Seq(Items) /\ NoWord(out'[Page])
    BY <2>1, <2>3, StaleIsSilent
  <2> QED BY <2>1, <2>2, <2>4, FreshKeeps
<1>5. CASE Emit
  <2>1. Maps
    BY <1>5 DEF Emit, Deliver, Maps
  <2>2. ASSUME NEW l \in Listeners PROVE After(l)
    <3>1. CASE ~Hears(l)
      BY <1>5, <3>1 DEF Emit, Deliver, After
    <3>2. CASE Hears(l) /\ backlog[l] < EV_BACKLOG_MAX
      <4>1. Fine(TRUE, Append(out[l], Event(emitted[l] + 1)), backlog[l] + 1, dropped[l], emitted[l] + 1, known[l])
        BY <3>2, FineHeard DEF Hears, Fine
      <4> QED BY <1>5, <3>2, <4>1 DEF Emit, Deliver, After, Hears, Fine
    <3>3. CASE Hears(l) /\ ~(backlog[l] < EV_BACKLOG_MAX)
      <4>1. Fine(TRUE, out[l], backlog[l], dropped[l] + 1, emitted[l] + 1, known[l])
        BY <3>3, FineFolded DEF Hears, Fine
      <4> QED BY <1>5, <3>3, <4>1 DEF Emit, Deliver, After, Hears, Fine
    <3> QED BY <3>1, <3>2, <3>3
  <2> QED BY <2>1, <2>2
<1>6. ASSUME NEW c \in Listeners, RouteWatch(c) PROVE Maps /\ \A l \in Listeners : After(l)
  BY <1>6 DEF RouteWatch, Maps, After
<1>7. ASSUME NEW c \in Listeners, SayLine(c) PROVE Maps /\ \A l \in Listeners : After(l)
  <2>1. Fine(TRUE, Append(out[c], Line), backlog[c], dropped[c], emitted[c], known[c])
    BY <1>7, FineSaid DEF SayLine, Fine
  <2> QED BY <1>7, <2>1 DEF SayLine, Maps, After, Fine
<1>8. ASSUME NEW c \in Listeners, Tick(c) PROVE Maps /\ \A l \in Listeners : After(l)
  <2>1. live[c] = TRUE /\ out[c] = <<>> /\ Fine(TRUE, <<>>, backlog[c], dropped[c], emitted[c], known[c])
    BY <1>8 DEF Tick, Fine
  <2>2. CASE dropped[c] > 0
    <3>1. Fine(TRUE, <<Gap(dropped[c])>>, 1, 0, emitted[c], known[c])
      BY <2>1, <2>2, FineTold
    <3> QED BY <1>8, <2>1, <2>2, <3>1 DEF Tick, Maps, After
  <2>3. CASE ~(dropped[c] > 0)
    <3>1. Fine(TRUE, <<>>, 0, dropped[c], emitted[c], known[c])
      BY <2>1, <2>3, FineDry
    <3> QED BY <1>8, <2>1, <2>3, <3>1 DEF Tick, Maps, After
  <2> QED BY <2>2, <2>3
<1>9. ASSUME NEW c \in Listeners, Read(c) PROVE Maps /\ \A l \in Listeners : After(l)
  <2>1. Fine(live[c], Tail(out[c]), backlog[c], dropped[c], emitted[c], known[c] + Weight(Head(out[c])))
    BY <1>9, FineRead DEF Read
  <2> QED BY <1>9, <2>1 DEF Read, Maps, After
<1>10. CASE UNCHANGED eventVars
  BY <1>10 DEF eventVars, Maps, After
<1> QED BY <1>1, <1>2, <1>3, <1>4, <1>5, <1>6, <1>7, <1>8, <1>9, <1>10 DEF EventsNext, QuietNext

\* What a listener should see is seen, queued, told as a gap at its place or
\* still counted, and a slow listener costs no more than its bound, for any
\* number of clients, events and lives of a listener (route_emit,
\* event_deliver, events_tick, accept, drop_client, handle_hello).
THEOREM ListenersAreTold == EventsSpec => []EventsTold
<1>1. EventsInv => EventsTold
  <2> SUFFICES ASSUME EventsInv PROVE EventsTold
    OBVIOUS
  <2>1. \A l \in Listeners : Fine(live[l], out[l], backlog[l], dropped[l], emitted[l], known[l])
    BY DEF EventsInv
  <2>2. SlowListenerBounded
    <3> SUFFICES ASSUME NEW l \in Listeners
                 PROVE  Cardinality({j \in DOMAIN out[l] : out[l][j].kind # "line"}) <= EV_BACKLOG_MAX
      BY DEF SlowListenerBounded
    <3>1. out[l] \in Seq(Items) /\ backlog[l] \in 0 .. EV_BACKLOG_MAX /\ Cardinality(Spoken(out[l])) <= backlog[l]
      BY <2>1 DEF Fine
    <3>2. {j \in DOMAIN out[l] : out[l][j].kind # "line"} = Spoken(out[l])
      BY <3>1 DEF Spoken
    <3> DEFINE c == Cardinality(Spoken(out[l]))
    <3>3. c \in Nat /\ c <= backlog[l]
      BY <3>1, SpokenFinite
    <3> HIDE DEF c
    <3>4. c <= EV_BACKLOG_MAX
      BY <3>1, <3>3, RpcdEventsAssumption
    <3> QED BY <3>2, <3>4 DEF c
  <2>3. ASSUME NEW l \in Listeners, live[l]
        PROVE  /\ out[l] \in Seq(Items) /\ Ledger(out[l], known[l], emitted[l] - dropped[l])
               /\ emitted[l] \in Nat /\ dropped[l] \in Nat /\ known[l] \in Nat /\ emitted[l] - dropped[l] \in Nat
    BY <2>1, <2>3 DEF Fine
  <2>4. EveryEventAccounted
    <3> SUFFICES ASSUME NEW l \in Listeners, live[l]
                 PROVE  /\ dropped[l] \in 0 .. emitted[l] - known[l]
                        /\ \A n \in known[l] + 1 .. emitted[l] : \A i, j \in DOMAIN out[l] :
                             Tells(out[l], i, known[l], n) /\ Tells(out[l], j, known[l], n) => i = j
                        /\ \A n \in known[l] + 1 .. emitted[l] - dropped[l] :
                             \E j \in DOMAIN out[l] : Tells(out[l], j, known[l], n)
      BY DEF EveryEventAccounted
    <3> DEFINE q == out[l]
               k == known[l]
               e == emitted[l] - dropped[l]
    <3>1. /\ q \in Seq(Items) /\ Ledger(q, k, e) /\ k \in Nat /\ e \in Nat /\ DOMAIN q = 1 .. Len(q)
          /\ emitted[l] \in Nat /\ dropped[l] \in Nat
      BY <2>3
    <3>2. dropped[l] \in 0 .. emitted[l] - known[l]
      BY <3>1 DEF Ledger
    <3> HIDE DEF q, k, e
    <3>3. ASSUME NEW n \in k + 1 .. emitted[l], NEW i \in 1 .. Len(q), NEW j \in 1 .. Len(q),
                 Tells(q, i, k, n), Tells(q, j, k, n)
          PROVE  i = j
      <4>1. n \in Nat /\ n > k
        BY <3>1
      <4> QED BY <4>1, <3>1, <3>3, TellsOnce
    <3>4. \A n \in k + 1 .. e : \E j \in 1 .. Len(q) : Tells(q, j, k, n)
      BY <3>1 DEF Ledger, Covered
    <3> QED BY <3>1, <3>2, <3>3, <3>4 DEF q, k, e
  <2>5. NoEventOvertakesItsGap
    BY <2>3, NextIsNext DEF NoEventOvertakesItsGap
  <2> QED BY <2>2, <2>4, <2>5 DEF EventsTold
<1> QED BY <1>1, LedgersStart, LedgersKept, PTL DEF EventsSpec

----------------------------------------------------------------------------
(* Terminals.  Sums: what a change at one point does to one.               *)

\* What a function says of a point, nothing outside of its domain.
At(f, x) == IF x \in DOMAIN f THEN f[x] ELSE 0

LEMMA UnitsAre ==
  ASSUME NEW S, NEW f \in [S -> Nat]
  PROVE  \A b : b \in Units(f) <=> \E x \in S : \E k \in 1 .. f[x] : b = <<x, k>>
BY DEF Units

\* A sum over a finite set is a number.
LEMMA SumType ==
  ASSUME NEW S, IsFiniteSet(S), NEW f \in [S -> Nat]
  PROVE  IsFiniteSet(Units(f)) /\ Sum(f) \in Nat
<1> DEFINE g == [x \in S |-> {x} \X (1 .. f[x])]
           T == {{x} \X (1 .. f[x]) : x \in S}
<1>1. g \in Surjection(S, T)
  BY DEF Surjection
<1>2. IsFiniteSet(T)
  BY <1>1, FS_Surjection
<1>3. \A t \in T : IsFiniteSet(t)
  <2> SUFFICES ASSUME NEW x \in S PROVE IsFiniteSet({x} \X (1 .. f[x]))
    OBVIOUS
  <2> DEFINE n == f[x]
  <2>1. IsFiniteSet({x}) /\ n \in Nat
    BY FS_Singleton
  <2> HIDE DEF n
  <2>2. IsFiniteSet(1 .. n)
    BY <2>1, FS_Interval
  <2>3. IsFiniteSet({x} \X (1 .. n))
    BY <2>1, <2>2, FS_Product
  <2> QED BY <2>3 DEF n
<1>4. IsFiniteSet(UNION T)
  BY <1>2, <1>3, FS_UNION
<1>5. Units(f) = UNION T
  BY DEF Units
<1> QED BY <1>4, <1>5, FS_CardinalityType DEF Sum

\* Two functions that agree but for points where they are 0 or undefined.
LEMMA SumSame ==
  ASSUME NEW S, NEW T, NEW f \in [S -> Nat], NEW g \in [T -> Nat],
         \A x \in S \cup T : At(f, x) = At(g, x)
  PROVE  Sum(f) = Sum(g)
<1>1. \A x \in S : \A k \in 1 .. f[x] : x \in T /\ k \in 1 .. g[x]
  BY DEF At
<1>2. \A x \in T : \A k \in 1 .. g[x] : x \in S /\ k \in 1 .. f[x]
  BY DEF At
<1>3. \A b : b \in Units(f) <=> b \in Units(g)
  BY <1>1, <1>2, UnitsAre
<1> QED BY <1>3 DEF Sum

\* One point apart from the rest.
LEMMA SumApart ==
  ASSUME NEW S, IsFiniteSet(S), NEW f \in [S -> Nat], NEW d \in S
  PROVE  Sum(f) = Sum([f EXCEPT ![d] = 0]) + f[d]
<1> DEFINE g == [f EXCEPT ![d] = 0]
           own == {d} \X (1 .. f[d])
<1>1. g \in [S -> Nat] /\ g[d] = 0 /\ \A x \in S : x # d => g[x] = f[x]
  OBVIOUS
<1> HIDE DEF g
<1>2. Units(f) = Units(g) \cup own /\ Units(g) \cap own = {}
  <2>1. \A b : b \in Units(f) <=> \E x \in S : \E k \in 1 .. f[x] : b = <<x, k>>
    BY UnitsAre
  <2>2. \A b : b \in Units(g) <=> \E x \in S : \E k \in 1 .. g[x] : b = <<x, k>>
    BY <1>1, UnitsAre
  <2>3. \A b : b \in own <=> \E k \in 1 .. f[d] : b = <<d, k>>
    OBVIOUS
  <2> HIDE DEF own
  <2>4. \A b : b \in Units(f) <=> b \in Units(g) \/ b \in own
    BY <1>1, <2>1, <2>2, <2>3
  <2>5. \A b : ~(b \in Units(g) /\ b \in own)
    BY <1>1, <2>2, <2>3
  <2> QED BY <2>4, <2>5
<1>3. IsFiniteSet(Units(g)) /\ Sum(g) \in Nat
  BY <1>1, SumType
<1>4. IsFiniteSet(own) /\ Cardinality(own) = f[d]
  <2>1. IsFiniteSet({d}) /\ Cardinality({d}) = 1
    BY FS_Singleton
  <2>2. IsFiniteSet(1 .. f[d]) /\ Cardinality(1 .. f[d]) = f[d]
    BY FS_Interval
  <2>3. IsFiniteSet(own) /\ Cardinality(own) = 1 * f[d]
    BY <2>1, <2>2, FS_Product
  <2> QED BY <2>3
<1> HIDE DEF own
<1>5. Cardinality(Units(g) \cup own) = Cardinality(Units(g)) + Cardinality(own) - Cardinality(Units(g) \cap own)
  BY <1>3, <1>4, FS_Union
<1>6. Cardinality(Units(g) \cap own) = 0
  BY <1>2, FS_EmptySet
<1>7. Sum(f) = Sum(g) + f[d]
  BY <1>2, <1>3, <1>4, <1>5, <1>6 DEF Sum
<1> QED BY <1>7 DEF g

\* A change at one point changes the sum by as much.
LEMMA SumOver ==
  ASSUME NEW S, IsFiniteSet(S), NEW T, IsFiniteSet(T), NEW f \in [S -> Nat], NEW g \in [T -> Nat], NEW d,
         \A x \in S \cup T : x # d => At(f, x) = At(g, x)
  PROVE  Sum(g) = Sum(f) - At(f, d) + At(g, d)
<1> DEFINE f0 == [x \in S |-> IF x = d THEN 0 ELSE f[x]]
           g0 == [x \in T |-> IF x = d THEN 0 ELSE g[x]]
<1>1. Sum(f) = Sum(f0) + At(f, d)
  <2>1. CASE d \in S
    <3>1. f0 = [f EXCEPT ![d] = 0]
      OBVIOUS
    <3> QED BY <2>1, <3>1, SumApart DEF At
  <2>2. CASE d \notin S
    <3>1. f0 = f
      BY <2>2
    <3>2. Sum(f) \in Nat
      BY SumType
    <3> QED BY <2>2, <3>1, <3>2 DEF At
  <2> QED BY <2>1, <2>2
<1>2. Sum(g) = Sum(g0) + At(g, d)
  <2>1. CASE d \in T
    <3>1. g0 = [g EXCEPT ![d] = 0]
      OBVIOUS
    <3> QED BY <2>1, <3>1, SumApart DEF At
  <2>2. CASE d \notin T
    <3>1. g0 = g
      BY <2>2
    <3>2. Sum(g) \in Nat
      BY SumType
    <3> QED BY <2>2, <3>1, <3>2 DEF At
  <2> QED BY <2>1, <2>2
<1>3. f0 \in [S -> Nat] /\ g0 \in [T -> Nat]
  OBVIOUS
<1>4. \A x \in S \cup T : At(f0, x) = At(g0, x)
  BY DEF At
<1>5. Sum(f0) \in Nat
  BY <1>3, SumType
<1>6. At(f, d) \in Nat /\ At(g, d) \in Nat
  BY DEF At
<1> HIDE DEF f0, g0
<1>7. Sum(f0) = Sum(g0)
  BY <1>3, <1>4, SumSame
<1> QED BY <1>1, <1>2, <1>5, <1>6, <1>7

\* A sum is at least each of its terms.
LEMMA SumAtLeast ==
  ASSUME NEW S, IsFiniteSet(S), NEW f \in [S -> Nat], NEW d \in S
  PROVE  f[d] <= Sum(f)
<1>1. Sum(f) = Sum([f EXCEPT ![d] = 0]) + f[d]
  BY SumApart
<1>2. [f EXCEPT ![d] = 0] \in [S -> Nat]
  OBVIOUS
<1>3. Sum([f EXCEPT ![d] = 0]) \in Nat
  BY <1>2, SumType
<1> QED BY <1>1, <1>3

\* Nothing anywhere sums to nothing.
LEMMA SumNothing ==
  ASSUME NEW S, NEW f \in [S -> Nat], \A x \in S : f[x] = 0
  PROVE  Sum(f) = 0
<1>1. Units(f) = {}
  BY UnitsAre
<1> QED BY <1>1, FS_EmptySet DEF Sum

\* The first of a sequence apart from the rest.
LEMMA SumFirst ==
  ASSUME NEW n \in Nat, NEW f \in [1 .. n + 1 -> Nat], NEW g \in [1 .. n -> Nat], \A j \in 1 .. n : g[j] = f[j + 1]
  PROVE  Sum(f) = Sum(g) + f[1]
<1> DEFINE h == [f EXCEPT ![1] = 0]
           move == [b \in Units(g) |-> <<b[1] + 1, b[2]>>]
<1>1. IsFiniteSet(1 .. n + 1) /\ IsFiniteSet(1 .. n) /\ 1 \in 1 .. n + 1
  BY FS_Interval
<1>2. Sum(f) = Sum(h) + f[1]
  BY <1>1, SumApart
<1>3. h \in [1 .. n + 1 -> Nat] /\ h[1] = 0 /\ \A j \in 1 .. n : h[j + 1] = g[j]
  OBVIOUS
<1> HIDE DEF h
<1>4. IsFiniteSet(Units(g)) /\ Sum(g) \in Nat
  BY <1>1, SumType
<1>5. \A b : b \in Units(g) <=> \E x \in 1 .. n : \E k \in 1 .. g[x] : b = <<x, k>>
  BY DEF Units
<1>6. \A b : b \in Units(h) <=> \E x \in 1 .. n + 1 : \E k \in 1 .. h[x] : b = <<x, k>>
  BY <1>3 DEF Units
<1> HIDE DEF move
<1>7. \A b : b \in Units(h) <=> \E x \in 1 .. n : \E k \in 1 .. g[x] : b = <<x + 1, k>>
  <2>1. \A b \in Units(h) : \E x \in 1 .. n : \E k \in 1 .. g[x] : b = <<x + 1, k>>
    <3> SUFFICES ASSUME NEW x \in 1 .. n + 1, NEW k \in 1 .. h[x] PROVE \E y \in 1 .. n : \E m \in 1 .. g[y] : <<x, k>> = <<y + 1, m>>
      BY <1>6
    <3>1. x # 1
      BY <1>3
    <3>2. x - 1 \in 1 .. n /\ h[x] = g[x - 1] /\ x = (x - 1) + 1
      BY <1>3, <3>1
    <3> QED BY <3>2
  <2>2. ASSUME NEW x \in 1 .. n, NEW k \in 1 .. g[x] PROVE <<x + 1, k>> \in Units(h)
    BY <1>3, <1>6
  <2> QED BY <2>1, <2>2
<1>8. move \in Bijection(Units(g), Units(h))
  <2>1. move \in [Units(g) -> Units(h)]
    BY <1>5, <1>7 DEF move
  <2>2. ASSUME NEW a \in Units(g), NEW b \in Units(g), move[a] = move[b] PROVE a = b
    <3>1. \E x \in 1 .. n : \E k \in 1 .. g[x] : a = <<x, k>>
      BY <1>5
    <3>2. \E y \in 1 .. n : \E m \in 1 .. g[y] : b = <<y, m>>
      BY <1>5
    <3>3. PICK x \in 1 .. n : \E k \in 1 .. g[x] : a = <<x, k>>
      BY <3>1
    <3>4. PICK y \in 1 .. n : \E m \in 1 .. g[y] : b = <<y, m>>
      BY <3>2
    <3>5. PICK k \in 1 .. g[x] : a = <<x, k>>
      BY <3>3
    <3>6. PICK m \in 1 .. g[y] : b = <<y, m>>
      BY <3>4
    <3>7. <<x + 1, k>> = <<y + 1, m>>
      BY <2>2, <3>5, <3>6 DEF move
    <3> QED BY <3>5, <3>6, <3>7
  <2>3. ASSUME NEW b \in Units(h) PROVE \E a \in Units(g) : move[a] = b
    <3>1. PICK x \in 1 .. n : \E k \in 1 .. g[x] : b = <<x + 1, k>>
      BY <1>7
    <3>2. PICK k \in 1 .. g[x] : b = <<x + 1, k>>
      BY <3>1
    <3>3. <<x, k>> \in Units(g)
      BY <1>5
    <3>4. move[<<x, k>>] = b
      BY <3>2, <3>3 DEF move
    <3> QED BY <3>3, <3>4
  <2> QED BY <2>1, <2>2, <2>3 DEF Bijection, Injection, Surjection, IsInjective
<1>9. Sum(h) = Sum(g)
  BY <1>4, <1>8, FS_Bijection DEF ExistsBijection, Sum
<1> QED BY <1>2, <1>9

----------------------------------------------------------------------------
(* Bytes on the line and credit on its way, at the ends of a sequence.      *)

Bursts == [id : Ids, bytes : Nat \ {0}]
Notes  == {m \in [kind : {"up", "opened", "closed", "credit"}, id : {0} \cup Ids, bytes : Nat, epoch : Nat] :
             m.kind = "up" \/ m.id \in Ids}

\* What a burst weighs for a terminal, and a notification.
Weighs(b, i)     == IF b.id = i THEN b.bytes ELSE 0
Repays(m, i, h)  == IF m.kind = "credit" /\ m.id = i /\ m.epoch = h THEN m.bytes ELSE 0

LEMMA WeighsType == ASSUME NEW b \in Bursts, NEW i PROVE Weighs(b, i) \in Nat
BY DEF Weighs, Bursts

LEMMA RepaysType == ASSUME NEW m \in Notes, NEW i, NEW h PROVE Repays(m, i, h) \in Nat
<1>1. m.bytes \in Nat
  BY DEF Notes
<1> QED BY <1>1 DEF Repays

LEMMA BytesAre ==
  ASSUME NEW q \in Seq(Bursts), NEW i
  PROVE  /\ IsFiniteSet(1 .. Len(q))
         /\ [j \in 1 .. Len(q) |-> Weighs(q[j], i)] \in [1 .. Len(q) -> Nat]
         /\ BytesTo(q, i) = Sum([j \in 1 .. Len(q) |-> Weighs(q[j], i)])
         /\ BytesTo(q, i) \in Nat
<1>1. IsFiniteSet(1 .. Len(q))
  BY FS_Interval
<1>2. [j \in 1 .. Len(q) |-> Weighs(q[j], i)] \in [1 .. Len(q) -> Nat]
  <2>1. \A j \in 1 .. Len(q) : q[j] \in Bursts
    OBVIOUS
  <2> QED BY <2>1, WeighsType
<1>3. BytesTo(q, i) = Sum([j \in 1 .. Len(q) |-> Weighs(q[j], i)])
  BY DEF BytesTo, Weighs
<1>4. Sum([j \in 1 .. Len(q) |-> Weighs(q[j], i)]) \in Nat
  BY <1>1, <1>2, SumType
<1> QED BY <1>1, <1>2, <1>3, <1>4

LEMMA BytesAppend ==
  ASSUME NEW q \in Seq(Bursts), NEW b \in Bursts, NEW i
  PROVE  BytesTo(Append(q, b), i) = BytesTo(q, i) + Weighs(b, i)
<1> DEFINE f == [j \in 1 .. Len(q) |-> Weighs(q[j], i)]
           g == [j \in 1 .. Len(q) + 1 |-> Weighs(Append(q, b)[j], i)]
           d == Len(q) + 1
<1>1. Append(q, b) \in Seq(Bursts) /\ Len(Append(q, b)) = Len(q) + 1
  OBVIOUS
<1>2. IsFiniteSet(1 .. Len(q)) /\ f \in [1 .. Len(q) -> Nat] /\ BytesTo(q, i) = Sum(f) /\ BytesTo(q, i) \in Nat
  BY BytesAre
<1>3. IsFiniteSet(1 .. Len(q) + 1) /\ g \in [1 .. Len(q) + 1 -> Nat] /\ BytesTo(Append(q, b), i) = Sum(g)
  BY <1>1, BytesAre
<1>4. At(f, d) = 0 /\ At(g, d) = Weighs(b, i)
  BY DEF At
<1>5. \A j \in (1 .. Len(q)) \cup (1 .. Len(q) + 1) : j # d => At(f, j) = At(g, j)
  BY DEF At
<1>6. Weighs(b, i) \in Nat
  BY DEF Weighs, Bursts
<1> HIDE DEF f, g, d
<1>7. Sum(g) = Sum(f) - At(f, d) + At(g, d)
  BY <1>2, <1>3, <1>5, SumOver
<1> QED BY <1>2, <1>3, <1>4, <1>6, <1>7

LEMMA BytesTail ==
  ASSUME NEW q \in Seq(Bursts), q # <<>>, NEW i
  PROVE  BytesTo(q, i) = BytesTo(Tail(q), i) + Weighs(Head(q), i)
<1> DEFINE n == Len(q) - 1
           f == [j \in 1 .. Len(q) |-> Weighs(q[j], i)]
           g == [j \in 1 .. n |-> Weighs(Tail(q)[j], i)]
<1>1. Tail(q) \in Seq(Bursts) /\ Len(Tail(q)) = n /\ n \in Nat /\ n + 1 = Len(q)
  OBVIOUS
<1>2. f \in [1 .. Len(q) -> Nat] /\ BytesTo(q, i) = Sum(f)
  BY BytesAre
<1>3. g \in [1 .. n -> Nat] /\ BytesTo(Tail(q), i) = Sum(g)
  BY <1>1, BytesAre
<1>4. \A j \in 1 .. n : g[j] = f[j + 1]
  BY <1>1
<1>5. f[1] = Weighs(Head(q), i)
  BY <1>1
<1> HIDE DEF f, g, n
<1>6. f \in [1 .. n + 1 -> Nat]
  BY <1>1, <1>2
<1>7. Sum(f) = Sum(g) + f[1]
  BY <1>1, <1>3, <1>4, <1>6, SumFirst
<1> QED BY <1>2, <1>3, <1>5, <1>7

LEMMA BytesNone ==
  ASSUME NEW q \in Seq(Bursts), NEW i, \A j \in DOMAIN q : q[j].id # i
  PROVE  BytesTo(q, i) = 0
<1> DEFINE f == [j \in 1 .. Len(q) |-> Weighs(q[j], i)]
<1>1. f \in [1 .. Len(q) -> Nat] /\ BytesTo(q, i) = Sum(f)
  BY BytesAre
<1>2. \A j \in 1 .. Len(q) : f[j] = 0
  BY DEF Weighs
<1> HIDE DEF f
<1> QED BY <1>1, <1>2, SumNothing

LEMMA CreditAre ==
  ASSUME NEW u \in Seq(Notes), NEW i, NEW h
  PROVE  /\ IsFiniteSet(1 .. Len(u))
         /\ [j \in 1 .. Len(u) |-> Repays(u[j], i, h)] \in [1 .. Len(u) -> Nat]
         /\ CreditTo(u, i, h) = Sum([j \in 1 .. Len(u) |-> Repays(u[j], i, h)])
         /\ CreditTo(u, i, h) \in Nat
<1>1. IsFiniteSet(1 .. Len(u))
  BY FS_Interval
<1>2. [j \in 1 .. Len(u) |-> Repays(u[j], i, h)] \in [1 .. Len(u) -> Nat]
  <2>1. \A j \in 1 .. Len(u) : u[j] \in Notes
    OBVIOUS
  <2> QED BY <2>1, RepaysType
<1>3. CreditTo(u, i, h) = Sum([j \in 1 .. Len(u) |-> Repays(u[j], i, h)])
  BY DEF CreditTo, Repays
<1>4. Sum([j \in 1 .. Len(u) |-> Repays(u[j], i, h)]) \in Nat
  BY <1>1, <1>2, SumType
<1> QED BY <1>1, <1>2, <1>3, <1>4

\* What is said at once repays a terminal by the one note among it that does.
LEMMA CreditSay ==
  ASSUME NEW u \in Seq(Notes), NEW s \in Seq(Notes), NEW i, NEW h, NEW k \in DOMAIN s,
         \A j \in DOMAIN s : j # k => Repays(s[j], i, h) = 0
  PROVE  CreditTo(u \o s, i, h) = CreditTo(u, i, h) + Repays(s[k], i, h)
<1> DEFINE n == Len(u) + Len(s)
           f == [j \in 1 .. Len(u) |-> Repays(u[j], i, h)]
           g == [j \in 1 .. n |-> Repays((u \o s)[j], i, h)]
           d == Len(u) + k
<1>1. u \o s \in Seq(Notes) /\ Len(u \o s) = n /\ n \in Nat
  OBVIOUS
<1>2. IsFiniteSet(1 .. Len(u)) /\ f \in [1 .. Len(u) -> Nat] /\ CreditTo(u, i, h) = Sum(f) /\ CreditTo(u, i, h) \in Nat
  BY CreditAre, ZenonT(40)
<1>3. IsFiniteSet(1 .. n) /\ g \in [1 .. n -> Nat] /\ CreditTo(u \o s, i, h) = Sum(g)
  BY <1>1, CreditAre, ZenonT(40)
<1>4. At(f, d) = 0 /\ At(g, d) = Repays(s[k], i, h)
  BY DEF At
<1>5. \A j \in (1 .. Len(u)) \cup (1 .. n) : j # d => At(f, j) = At(g, j)
  <2>0. 1 .. Len(u) \subseteq 1 .. n
    OBVIOUS
  <2> SUFFICES ASSUME NEW j \in 1 .. n, j # d PROVE At(f, j) = At(g, j)
    BY <2>0
  <2>1. CASE j \in 1 .. Len(u)
    BY <2>1 DEF At
  <2>2. CASE j \notin 1 .. Len(u)
    <3>1. j - Len(u) \in DOMAIN s /\ j - Len(u) # k /\ (u \o s)[j] = s[j - Len(u)]
      BY <2>2
    <3> QED BY <2>2, <3>1 DEF At
  <2> QED BY <2>1, <2>2
<1>6. Repays(s[k], i, h) \in Nat
  <2>1. s[k] \in Notes
    OBVIOUS
  <2> QED BY <2>1, RepaysType
<1> DEFINE S == 1 .. Len(u)
           T == 1 .. n
<1>7. /\ IsFiniteSet(S) /\ IsFiniteSet(T) /\ f \in [S -> Nat] /\ g \in [T -> Nat]
      /\ \A j \in S \cup T : j # d => At(f, j) = At(g, j)
  BY <1>2, <1>3, <1>5
<1> HIDE DEF f, g, d, n, S, T
<1>8. Sum(g) = Sum(f) - At(f, d) + At(g, d)
  BY <1>7, SumOver, SMTT(60)
<1> QED BY <1>2, <1>3, <1>4, <1>6, <1>8

LEMMA CreditAppend ==
  ASSUME NEW u \in Seq(Notes), NEW m \in Notes, NEW i, NEW h
  PROVE  CreditTo(Append(u, m), i, h) = CreditTo(u, i, h) + Repays(m, i, h)
<1> DEFINE s == <<m>>
<1>1. s \in Seq(Notes) /\ 1 \in DOMAIN s /\ s[1] = m /\ \A j \in DOMAIN s : j = 1
  OBVIOUS
<1>2. Append(u, m) = u \o s
  OBVIOUS
<1> HIDE DEF s
<1>3. CreditTo(u \o s, i, h) = CreditTo(u, i, h) + Repays(s[1], i, h)
  BY <1>1, CreditSay
<1> QED BY <1>1, <1>2, <1>3

LEMMA CreditTail ==
  ASSUME NEW u \in Seq(Notes), u # <<>>, NEW i, NEW h
  PROVE  CreditTo(u, i, h) = CreditTo(Tail(u), i, h) + Repays(Head(u), i, h)
<1> DEFINE n == Len(u) - 1
           f == [j \in 1 .. Len(u) |-> Repays(u[j], i, h)]
           g == [j \in 1 .. n |-> Repays(Tail(u)[j], i, h)]
<1>1. Tail(u) \in Seq(Notes) /\ Len(Tail(u)) = n /\ n \in Nat /\ n + 1 = Len(u)
  OBVIOUS
<1>2. f \in [1 .. Len(u) -> Nat] /\ CreditTo(u, i, h) = Sum(f)
  BY CreditAre
<1>3. g \in [1 .. n -> Nat] /\ CreditTo(Tail(u), i, h) = Sum(g)
  <2> DEFINE v == Tail(u)
  <2>1. v \in Seq(Notes) /\ Len(v) = n
    BY <1>1
  <2> HIDE DEF v
  <2>2. /\ [j \in 1 .. Len(v) |-> Repays(v[j], i, h)] \in [1 .. Len(v) -> Nat]
        /\ CreditTo(v, i, h) = Sum([j \in 1 .. Len(v) |-> Repays(v[j], i, h)])
    BY <2>1, CreditAre
  <2> QED BY <2>1, <2>2 DEF v
<1>4. \A j \in 1 .. n : g[j] = f[j + 1]
  BY <1>1
<1>5. f[1] = Repays(Head(u), i, h)
  BY <1>1
<1> HIDE DEF f, g, n
<1>6. f \in [1 .. n + 1 -> Nat]
  BY <1>1, <1>2
<1>7. Sum(f) = Sum(g) + f[1]
  BY <1>1, <1>3, <1>4, <1>6, SumFirst
<1> QED BY <1>2, <1>3, <1>5, <1>7

LEMMA CreditNone ==
  ASSUME NEW u \in Seq(Notes), NEW i, NEW h,
         \A j \in DOMAIN u : ~(u[j].kind = "credit" /\ u[j].id = i /\ u[j].epoch = h)
  PROVE  CreditTo(u, i, h) = 0
<1> DEFINE f == [j \in 1 .. Len(u) |-> Repays(u[j], i, h)]
<1>1. f \in [1 .. Len(u) -> Nat] /\ CreditTo(u, i, h) = Sum(f)
  BY CreditAre
<1>2. \A j \in 1 .. Len(u) : f[j] = 0
  BY DEF Repays
<1> HIDE DEF f
<1> QED BY <1>1, <1>2, SumNothing

----------------------------------------------------------------------------
(* The invariant of the terminals, and what it is made of.                  *)

\* A channel of the page: its window is made up of what it may send and what
\* it has sent, and a closed one is as new.
IsChannel(c) ==
  /\ DOMAIN c = {"open", "window", "inFlight", "queue"}
  /\ c.open \in BOOLEAN /\ c.window \in Nat /\ c.inFlight \in Nat
  /\ IF c.open THEN c.window + c.inFlight = STREAM_WINDOW ELSE c.inFlight = 0
Streams == [used : BOOLEAN, to_pty : Nat, credit_owed : Nat]

ForThe(m, i, kind) == m.kind = kind /\ m.id = i

\* Nothing was ever sent on it.
Untouched(i, c, t, q, u) ==
  /\ ~c.open /\ t.to_pty = 0 /\ t.credit_owed = 0
  /\ \A j \in DOMAIN q : q[j].id # i
  /\ \A j \in DOMAIN u : ~ForThe(u[j], i, "credit")

\* The bytes of a terminal: of its window c, its stream t, the line q and the
\* notifications u, at the tokens h and s of the two ends.
Books(i, c, t, q, u, h, s) ==
  /\ c.open /\ t.used /\ s = h => c.inFlight = BytesTo(q, i) + t.to_pty + t.credit_owed + CreditTo(u, i, h)
  /\ c.open => CreditTo(u, i, h) <= c.inFlight
  /\ t.used => t.to_pty + BytesTo(q, i) <= IF c.open THEN c.inFlight ELSE STREAM_WINDOW

\* Before its window is mounted nothing was sent on a stream, and its number
\* is new.
Unused(i, c, t, q, u, w, n) ==
  /\ c.open => i \in w
  /\ i \in w /\ ~c.open => Untouched(i, c, t, q, u)
  /\ i >= n => /\ Untouched(i, c, t, q, u) /\ i \notin w /\ ~t.used
               /\ \A j \in DOMAIN u : u[j].id # i
  /\ \A j \in DOMAIN u : ForThe(u[j], i, "opened") =>
       /\ Untouched(i, c, t, q, u) /\ i \notin w
       /\ \A k \in DOMAIN u : ForThe(u[k], i, "opened") => k = j

\* A window, or the word that it opens, is of a stream rpcd has, or the word
\* that it closed comes after.
ClosedIn(u, i, s, from) == \E k \in DOMAIN u : k > from /\ u[k] = [kind |-> "closed", id |-> i, bytes |-> 0, epoch |-> s]
Shown(i, t, u, w, h, s) ==
  /\ \A j \in DOMAIN u : ForThe(u[j], i, "opened") /\ u[j].epoch = s => t.used \/ ClosedIn(u, i, s, j)
  /\ s = h /\ i \in w /\ ~(\E j \in DOMAIN u : u[j].kind = "up" /\ u[j].epoch = h) => t.used \/ ClosedIn(u, i, s, 0)

Terminal(i, c, t, q, u, w, n, h, s) ==
  /\ Books(i, c, t, q, u, h, s) /\ Unused(i, c, t, q, u, w, n) /\ Shown(i, t, u, w, h, s)

Whole(h, s, n, w, l, ch, st, q, u) ==
  /\ h \in Nat /\ s \in Nat /\ s <= h /\ n \in Nat \ {0}
  /\ w \subseteq Ids /\ l \in Nat
  /\ ch = [i \in Ids |-> ch[i]] /\ \A i \in Ids : IsChannel(ch[i])
  /\ st \in [Ids -> Streams]
  /\ q \in Seq(Bursts) /\ u \in Seq(Notes) /\ \A j \in DOMAIN u : u[j].epoch <= s
  /\ l = Sum([i \in Ids |-> ch[i].inFlight])
  /\ \A i \in Ids : Terminal(i, ch[i], st[i], q, u, w, n, h, s)

LanesInv == Whole(hello, session, next_stream_id, windows, linkInFlight, channels, streams, down, up)

LEMMA TailShift ==
  ASSUME NEW S, NEW u \in Seq(S), u # <<>>
  PROVE  /\ Tail(u) \in Seq(S) /\ Head(u) = u[1] /\ 1 \in DOMAIN u /\ Head(u) \in S
         /\ \A j \in DOMAIN Tail(u) : j \in Nat \ {0} /\ j + 1 \in DOMAIN u /\ Tail(u)[j] = u[j + 1]
         /\ \A j \in DOMAIN u : j \in Nat \ {0} /\ (j > 1 => j - 1 \in DOMAIN Tail(u) /\ Tail(u)[j - 1] = u[j])
OBVIOUS

LEMMA SayShift ==
  ASSUME NEW S, NEW u \in Seq(S), NEW v \in Seq(S)
  PROVE  /\ u \o v \in Seq(S) /\ Len(u) \in Nat
         /\ \A j \in DOMAIN u : j \in Nat \ {0} /\ j <= Len(u) /\ j \in DOMAIN (u \o v) /\ (u \o v)[j] = u[j]
         /\ \A k \in DOMAIN v : k \in Nat \ {0} /\ Len(u) + k \in DOMAIN (u \o v) /\ (u \o v)[Len(u) + k] = v[k]
         /\ \A j \in DOMAIN (u \o v) :
              j \in Nat \ {0} /\ (j \in DOMAIN u \/ (j > Len(u) /\ j - Len(u) \in DOMAIN v /\ (u \o v)[j] = v[j - Len(u)]))
OBVIOUS

\* A notification that repays nothing of an open channel is read.
LEMMA BooksTail ==
  ASSUME NEW i, NEW c, NEW t, NEW q \in Seq(Bursts), NEW u \in Seq(Notes), NEW h, NEW s,
         u # <<>>, Books(i, c, t, q, u, h, s), c.open => Repays(Head(u), i, h) = 0
  PROVE  Books(i, c, t, q, Tail(u), h, s)
<1>1. c.open => CreditTo(Tail(u), i, h) = CreditTo(u, i, h)
  <2>1. CreditTo(u, i, h) = CreditTo(Tail(u), i, h) + Repays(Head(u), i, h)
    BY CreditTail
  <2>2. Tail(u) \in Seq(Notes)
    OBVIOUS
  <2>3. CreditTo(Tail(u), i, h) \in Nat
    BY <2>2, CreditAre
  <2> QED BY <2>1, <2>3
<1> QED BY <1>1 DEF Books

LEMMA UnusedTail ==
  ASSUME NEW i, NEW c, NEW t, NEW q, NEW u \in Seq(Notes), NEW w, NEW n,
         u # <<>>, Unused(i, c, t, q, u, w, n)
  PROVE  Unused(i, c, t, q, Tail(u), w, n)
<1>1. Untouched(i, c, t, q, u) => Untouched(i, c, t, q, Tail(u))
  BY TailShift DEF Untouched
<1>2. i >= n => \A j \in DOMAIN Tail(u) : Tail(u)[j].id # i
  BY TailShift DEF Unused
<1>3. ASSUME NEW j \in DOMAIN Tail(u), NEW k \in DOMAIN Tail(u),
             ForThe(Tail(u)[j], i, "opened"), ForThe(Tail(u)[k], i, "opened")
      PROVE  k = j
  <2>1. j + 1 \in DOMAIN u /\ k + 1 \in DOMAIN u /\ Tail(u)[j] = u[j + 1] /\ Tail(u)[k] = u[k + 1] /\ j \in Nat /\ k \in Nat
    BY TailShift
  <2>2. k + 1 = j + 1
    BY <1>3, <2>1 DEF Unused
  <2> QED BY <2>1, <2>2
<1>4. ASSUME NEW j \in DOMAIN Tail(u), ForThe(Tail(u)[j], i, "opened")
      PROVE  Untouched(i, c, t, q, Tail(u)) /\ i \notin w
  <2>1. j + 1 \in DOMAIN u /\ Tail(u)[j] = u[j + 1]
    BY TailShift
  <2> QED BY <1>1, <1>4, <2>1 DEF Unused
<1> QED BY <1>1, <1>2, <1>3, <1>4 DEF Unused

\* The word that a stream closed comes after, as long as it is not read.
LEMMA ClosedTail ==
  ASSUME NEW i, NEW u \in Seq(Notes), NEW s, NEW j \in Nat, u # <<>>, ClosedIn(u, i, s, j + 1)
  PROVE  ClosedIn(Tail(u), i, s, j)
<1>1. PICK k \in DOMAIN u : k > j + 1 /\ u[k] = [kind |-> "closed", id |-> i, bytes |-> 0, epoch |-> s]
  BY DEF ClosedIn
<1>2. k - 1 \in DOMAIN Tail(u) /\ Tail(u)[k - 1] = u[k] /\ k - 1 > j
  BY <1>1, TailShift
<1> QED BY <1>1, <1>2 DEF ClosedIn

LEMMA ShownTail ==
  ASSUME NEW i, NEW t, NEW u \in Seq(Notes), NEW w, NEW v, NEW h, NEW s,
         u # <<>>, Shown(i, t, u, w, h, s),
         s = h /\ i \in v => \/ /\ i \in w /\ ~(Head(u).kind = "up" /\ Head(u).epoch = h)
                                /\ ~(ForThe(Head(u), i, "closed") /\ Head(u).epoch = s)
                             \/ /\ ForThe(Head(u), i, "opened") /\ Head(u).epoch = s
  PROVE  Shown(i, t, Tail(u), v, h, s)
<1>1. ASSUME NEW j \in DOMAIN Tail(u), ForThe(Tail(u)[j], i, "opened"), Tail(u)[j].epoch = s
      PROVE  t.used \/ ClosedIn(Tail(u), i, s, j)
  <2>1. j + 1 \in DOMAIN u /\ Tail(u)[j] = u[j + 1] /\ j \in Nat
    BY TailShift
  <2>2. t.used \/ ClosedIn(u, i, s, j + 1)
    BY <1>1, <2>1 DEF Shown
  <2> QED BY <2>1, <2>2, ClosedTail
<1>2. ASSUME s = h, i \in v, ~(\E j \in DOMAIN Tail(u) : Tail(u)[j].kind = "up" /\ Tail(u)[j].epoch = h)
      PROVE  t.used \/ ClosedIn(Tail(u), i, s, 0)
  <2>1. CASE ForThe(Head(u), i, "opened") /\ Head(u).epoch = s
    <3>1. t.used \/ ClosedIn(u, i, s, 0 + 1)
      BY <2>1, TailShift DEF Shown
    <3> QED BY <3>1, ClosedTail
  <2>2. CASE i \in w /\ ~(Head(u).kind = "up" /\ Head(u).epoch = h) /\ ~(ForThe(Head(u), i, "closed") /\ Head(u).epoch = s)
    <3>1. ~(\E j \in DOMAIN u : u[j].kind = "up" /\ u[j].epoch = h)
      <4> SUFFICES ASSUME NEW j \in DOMAIN u, u[j].kind = "up" /\ u[j].epoch = h PROVE FALSE
        OBVIOUS
      <4>1. j > 1
        BY <2>2, TailShift
      <4>2. j - 1 \in DOMAIN Tail(u) /\ Tail(u)[j - 1] = u[j]
        BY <4>1, TailShift
      <4> QED BY <1>2, <4>2
    <3>2. t.used \/ ClosedIn(u, i, s, 0)
      BY <1>2, <2>2, <3>1 DEF Shown
    <3>3. ASSUME ClosedIn(u, i, s, 0) PROVE ClosedIn(Tail(u), i, s, 0)
      <4>1. PICK k \in DOMAIN u : k > 0 /\ u[k] = [kind |-> "closed", id |-> i, bytes |-> 0, epoch |-> s]
        BY <3>3 DEF ClosedIn
      <4>2. k > 0 + 1
        BY <2>2, <4>1, TailShift DEF ForThe
      <4>3. ClosedIn(u, i, s, 0 + 1)
        BY <4>1, <4>2 DEF ClosedIn
      <4> QED BY <4>3, ClosedTail
    <3> QED BY <3>2, <3>3
  <2> QED BY <1>2, <2>1, <2>2
<1> QED BY <1>1, <1>2 DEF Shown

LEMMA UnusedSay ==
  ASSUME NEW i, NEW c, NEW t, NEW q, NEW u \in Seq(Notes), NEW v \in Seq(Notes), NEW w, NEW n,
         Unused(i, c, t, q, u, w, n),
         \A k \in DOMAIN v : /\ ~ForThe(v[k], i, "opened")
                             /\ Untouched(i, c, t, q, u) => ~ForThe(v[k], i, "credit")
                             /\ i >= n => v[k].id # i
  PROVE  Unused(i, c, t, q, u \o v, w, n)
<1>1. Untouched(i, c, t, q, u) => Untouched(i, c, t, q, u \o v)
  <2> SUFFICES ASSUME Untouched(i, c, t, q, u), NEW j \in DOMAIN (u \o v) PROVE ~ForThe((u \o v)[j], i, "credit")
    BY DEF Untouched
  <2>1. CASE j \in DOMAIN u
    BY <2>1, SayShift DEF Untouched
  <2>2. CASE j - Len(u) \in DOMAIN v /\ (u \o v)[j] = v[j - Len(u)]
    BY <2>2
  <2> QED BY <2>1, <2>2, SayShift
<1>2. \A j \in DOMAIN (u \o v) : ForThe((u \o v)[j], i, "opened") => j \in DOMAIN u /\ (u \o v)[j] = u[j]
  <2> SUFFICES ASSUME NEW j \in DOMAIN (u \o v), ForThe((u \o v)[j], i, "opened")
               PROVE  j \in DOMAIN u /\ (u \o v)[j] = u[j]
    OBVIOUS
  <2>1. ~(j - Len(u) \in DOMAIN v /\ (u \o v)[j] = v[j - Len(u)])
    OBVIOUS
  <2> QED BY <2>1, SayShift
<1>3. i >= n => \A j \in DOMAIN (u \o v) : (u \o v)[j].id # i
  <2> SUFFICES ASSUME i >= n, NEW j \in DOMAIN (u \o v) PROVE (u \o v)[j].id # i
    OBVIOUS
  <2>1. CASE j \in DOMAIN u
    BY <2>1, SayShift DEF Unused
  <2>2. CASE j - Len(u) \in DOMAIN v /\ (u \o v)[j] = v[j - Len(u)]
    BY <2>2
  <2> QED BY <2>1, <2>2, SayShift
<1> QED BY <1>1, <1>2, <1>3 DEF Unused

LEMMA ClosedSay ==
  ASSUME NEW i, NEW u \in Seq(Notes), NEW v \in Seq(Notes), NEW s, NEW j, ClosedIn(u, i, s, j)
  PROVE  ClosedIn(u \o v, i, s, j)
BY SayShift DEF ClosedIn

LEMMA ShownSay ==
  ASSUME NEW i, NEW t, NEW r, NEW u \in Seq(Notes), NEW v \in Seq(Notes), NEW w, NEW h, NEW s,
         Shown(i, t, u, w, h, s),
         t.used => r.used \/ \E k \in DOMAIN v : v[k] = [kind |-> "closed", id |-> i, bytes |-> 0, epoch |-> s],
         \A k \in DOMAIN v : ForThe(v[k], i, "opened") => r.used
  PROVE  Shown(i, r, u \o v, w, h, s)
<1>1. ASSUME t.used, NEW j \in Nat, j <= Len(u) PROVE r.used \/ ClosedIn(u \o v, i, s, j)
  <2>1. CASE r.used
    BY <2>1
  <2>2. ASSUME NEW k \in DOMAIN v, v[k] = [kind |-> "closed", id |-> i, bytes |-> 0, epoch |-> s]
        PROVE  ClosedIn(u \o v, i, s, j)
    <3>1. Len(u) + k > j /\ Len(u) + k \in DOMAIN (u \o v) /\ (u \o v)[Len(u) + k] = v[k]
      BY <1>1, SayShift
    <3> QED BY <2>2, <3>1 DEF ClosedIn
  <2> QED BY <1>1, <2>1, <2>2
<1>2. ASSUME NEW j \in DOMAIN (u \o v), ForThe((u \o v)[j], i, "opened"), (u \o v)[j].epoch = s
      PROVE  r.used \/ ClosedIn(u \o v, i, s, j)
  <2>1. CASE j \in DOMAIN u
    <3>1. (u \o v)[j] = u[j] /\ j \in Nat /\ j <= Len(u)
      BY <2>1, SayShift
    <3>2. t.used \/ ClosedIn(u, i, s, j)
      BY <1>2, <2>1, <3>1 DEF Shown
    <3> QED BY <1>1, <3>1, <3>2, ClosedSay
  <2>2. CASE j - Len(u) \in DOMAIN v /\ (u \o v)[j] = v[j - Len(u)]
    BY <1>2, <2>2
  <2> QED BY <2>1, <2>2, SayShift
<1>3. ASSUME s = h, i \in w, ~(\E j \in DOMAIN (u \o v) : (u \o v)[j].kind = "up" /\ (u \o v)[j].epoch = h)
      PROVE  r.used \/ ClosedIn(u \o v, i, s, 0)
  <2>1. ~(\E j \in DOMAIN u : u[j].kind = "up" /\ u[j].epoch = h)
    <3> SUFFICES ASSUME NEW j \in DOMAIN u, u[j].kind = "up", u[j].epoch = h PROVE FALSE
      OBVIOUS
    <3>1. j \in DOMAIN (u \o v) /\ (u \o v)[j] = u[j]
      BY SayShift
    <3> QED BY <1>3, <3>1
  <2>2. t.used \/ ClosedIn(u, i, s, 0)
    BY <1>3, <2>1 DEF Shown
  <2>3. 0 \in Nat /\ 0 <= Len(u)
    BY SayShift
  <2> QED BY <1>1, <2>2, <2>3, ClosedSay
<1> QED BY <1>2, <1>3 DEF Shown

\* A terminal's window goes.
LEMMA CloseTerminal ==
  ASSUME NEW i, NEW c, NEW d, NEW t \in Streams, NEW q \in Seq(Bursts), NEW u \in Seq(Notes), NEW w, NEW v, NEW n, NEW h, NEW s,
         IsChannel(c), ~d.open, Terminal(i, c, t, q, u, w, n, h, s), i \notin v
  PROVE  Terminal(i, d, t, q, u, v, n, h, s)
<1>1. Books(i, d, t, q, u, h, s)
  <2>1. t.to_pty \in Nat /\ BytesTo(q, i) \in Nat
    BY BytesAre DEF Streams
  <2>2. c.open => c.inFlight <= STREAM_WINDOW
    BY StreamLaneAssumption DEF IsChannel
  <2>3. c.open => c.inFlight \in Nat
    BY DEF IsChannel
  <2>4. t.used => t.to_pty + BytesTo(q, i) <= STREAM_WINDOW
    BY <2>1, <2>2, <2>3, StreamLaneAssumption DEF Terminal, Books
  <2> QED BY <2>4 DEF Books
<1>2. Untouched(i, c, t, q, u) => Untouched(i, d, t, q, u)
  BY DEF Untouched
<1>3. Unused(i, d, t, q, u, v, n)
  BY <1>2 DEF Terminal, Unused
<1>4. Shown(i, t, u, v, h, s)
  BY DEF Terminal, Shown
<1> QED BY <1>1, <1>3, <1>4 DEF Terminal

\* Some of what an open window allows is sent.
LEMMA SendTerminal ==
  ASSUME NEW i, NEW c, NEW d, NEW t \in Streams, NEW q \in Seq(Bursts), NEW p \in Seq(Bursts), NEW u \in Seq(Notes),
         NEW w, NEW n, NEW h, NEW s, NEW m \in Nat,
         IsChannel(c), c.open, d.open, d.inFlight = c.inFlight + m, BytesTo(p, i) = BytesTo(q, i) + m,
         Terminal(i, c, t, q, u, w, n, h, s)
  PROVE  Terminal(i, d, t, p, u, w, n, h, s)
<1>1. t.to_pty \in Nat /\ BytesTo(q, i) \in Nat /\ t.credit_owed \in Nat /\ CreditTo(u, i, h) \in Nat /\ c.inFlight \in Nat
  BY BytesAre, CreditAre DEF Streams, IsChannel
<1>2. Books(i, d, t, p, u, h, s)
  <2>1. t.used /\ s = h => d.inFlight = BytesTo(p, i) + t.to_pty + t.credit_owed + CreditTo(u, i, h)
    BY <1>1, SMTT(40) DEF Terminal, Books
  <2>2. CreditTo(u, i, h) <= d.inFlight
    BY <1>1 DEF Terminal, Books
  <2>3. t.used => t.to_pty + BytesTo(p, i) <= d.inFlight
    BY <1>1 DEF Terminal, Books
  <2> QED BY <2>1, <2>2, <2>3 DEF Books
<1>3. ~Untouched(i, c, t, q, u) /\ i \in w
  BY DEF Untouched, Terminal, Unused
<1>4. Unused(i, d, t, p, u, w, n)
  BY <1>3 DEF Terminal, Unused
<1> QED BY <1>2, <1>4 DEF Terminal

\* What another terminal sends or is sent leaves this one as it is.
LEMMA LineElsewhere ==
  ASSUME NEW i, NEW c, NEW t, NEW q, NEW p, NEW u, NEW w, NEW n, NEW h, NEW s,
         BytesTo(p, i) = BytesTo(q, i), (\A j \in DOMAIN q : q[j].id # i) => \A j \in DOMAIN p : p[j].id # i,
         Terminal(i, c, t, q, u, w, n, h, s)
  PROVE  Terminal(i, c, t, p, u, w, n, h, s)
<1>1. Untouched(i, c, t, q, u) => Untouched(i, c, t, p, u)
  BY DEF Untouched
<1> QED BY <1>1 DEF Terminal, Books, Unused

\* The bytes of one step.
LEMMA LinkChange ==
  ASSUME NEW f, f = [i \in Ids |-> f[i]], \A i \in Ids : IsChannel(f[i]), NEW i \in Ids, NEW d, d.inFlight \in Nat
  PROVE  /\ Sum([k \in Ids |-> f[k].inFlight]) \in Nat
         /\ f[i].inFlight <= Sum([k \in Ids |-> f[k].inFlight])
         /\ Sum([k \in Ids |-> [f EXCEPT ![i] = d][k].inFlight])
              = Sum([k \in Ids |-> f[k].inFlight]) - f[i].inFlight + d.inFlight
<1> DEFINE a == [k \in Ids |-> f[k].inFlight]
           b == [k \in Ids |-> [f EXCEPT ![i] = d][k].inFlight]
<1>1. a \in [Ids -> Nat] /\ a[i] = f[i].inFlight
  BY DEF IsChannel
<1>2. b \in [Ids -> Nat] /\ b[i] = d.inFlight /\ \A k \in Ids : k # i => b[k] = a[k]
  BY DEF IsChannel
<1>3. IsFiniteSet(Ids)
  <2>1. 1 \in Int /\ MaxStream \in Int
    BY StreamLaneAssumption
  <2> QED BY <2>1, FS_Interval DEF Ids
<1>4. At(a, i) = a[i] /\ At(b, i) = b[i] /\ \A x \in Ids \cup Ids : x # i => At(a, x) = At(b, x)
  BY <1>1, <1>2 DEF At
<1> HIDE DEF a, b
<1>5. Sum(b) = Sum(a) - At(a, i) + At(b, i)
  BY <1>1, <1>2, <1>3, <1>4, SumOver
<1>6. Sum(a) \in Nat
  BY <1>1, <1>3, SumType
<1>7. a[i] <= Sum(a)
  BY <1>1, <1>3, SumAtLeast
<1> QED BY <1>1, <1>2, <1>4, <1>5, <1>6, <1>7 DEF a, b

----------------------------------------------------------------------------
(* What the page does.                                                     *)

LEMMA PairMin == ASSUME NEW a \in Int, NEW b \in Int PROVE Min({a, b}) = IF a <= b THEN a ELSE b
BY DEF Min

LEMMA PairMax == ASSUME NEW a \in Int, NEW b \in Int PROVE Max({a, b}) = IF a <= b THEN b ELSE a
BY DEF Max

LEMMA NewChannels ==
  /\ IsChannel(Absent) /\ ~Absent.open
  /\ LET c == [Absent EXCEPT !.open = TRUE, !.window = STREAM_WINDOW] IN IsChannel(c) /\ c.open /\ c.inFlight = 0
BY StreamLaneAssumption DEF IsChannel, Absent

\* A channel closes, and the link has its share back.
LEMMA LinkCloses ==
  ASSUME LanesInv, NEW i \in Ids, WithoutChannel(i)
  PROVE  /\ channels' = [channels EXCEPT ![i] = Absent]
         /\ channels' = [k \in Ids |-> channels'[k]] /\ \A k \in Ids : IsChannel(channels'[k])
         /\ linkInFlight' \in Nat /\ linkInFlight' = Sum([k \in Ids |-> channels'[k].inFlight])
<1>1. channels = [k \in Ids |-> channels[k]] /\ \A k \in Ids : IsChannel(channels[k])
  BY DEF LanesInv, Whole
<1>2. Absent.inFlight = 0 /\ Absent.inFlight \in Nat
  BY DEF Absent
<1>3. channels' = [channels EXCEPT ![i] = Absent]
  BY DEF WithoutChannel
<1>4. /\ linkInFlight \in Nat /\ channels[i].inFlight <= linkInFlight
      /\ Sum([k \in Ids |-> [channels EXCEPT ![i] = Absent][k].inFlight]) = linkInFlight - channels[i].inFlight + 0
  BY <1>1, <1>2, LinkChange DEF LanesInv, Whole
<1>5. channels[i].inFlight \in Nat
  BY <1>1 DEF IsChannel
<1>6. linkInFlight' = linkInFlight - channels[i].inFlight
  BY <1>4, <1>5, PairMax DEF WithoutChannel
<1>7. Sum([k \in Ids |-> channels'[k].inFlight]) = linkInFlight'
  BY <1>3, <1>4, <1>5, <1>6
<1> QED BY <1>1, <1>3, <1>4, <1>5, <1>6, <1>7, NewChannels

LEMMA HelloKeeps == ASSUME LanesInv, SayHello PROVE LanesInv'
<1> DEFINE h == hello + 1
<1>1. ASSUME NEW i \in Ids PROVE Terminal(i, channels[i], streams[i], down, up, windows, next_stream_id, h, session)
  <2>1. Terminal(i, channels[i], streams[i], down, up, windows, next_stream_id, hello, session)
    BY DEF LanesInv, Whole
  <2>2. session # h /\ up \in Seq(Notes) /\ \A j \in DOMAIN up : up[j].epoch # h
    BY DEF LanesInv, Whole, Notes
  <2>3. CreditTo(up, i, h) = 0
    BY <2>2, CreditNone
  <2>4. channels[i].open => 0 <= channels[i].inFlight
    BY DEF LanesInv, Whole, IsChannel
  <2>5. Books(i, channels[i], streams[i], down, up, h, session)
    BY <2>1, <2>2, <2>3, <2>4 DEF Terminal, Books
  <2> QED BY <2>1, <2>2, <2>5 DEF Terminal, Shown
<1>2. h \in Nat /\ session <= h
  BY DEF LanesInv, Whole
<1> HIDE DEF h
<1>3. Whole(h, session, next_stream_id, windows, linkInFlight, channels, streams, down, up)
  BY <1>1, <1>2 DEF LanesInv, Whole
<1> QED BY <1>3 DEF SayHello, h, LanesInv, rpcdVars

LEMMA MountKeeps == ASSUME LanesInv, NEW id \in Ids, Mount(id) PROVE LanesInv'
<1> DEFINE new == [Absent EXCEPT !.open = TRUE, !.window = STREAM_WINDOW]
<1>1. IsChannel(new) /\ new.open /\ new.inFlight = 0 /\ new.inFlight \in Nat
  BY NewChannels
<1> HIDE DEF new
<1>2. channels' = [channels EXCEPT ![id] = new] /\ id \in windows /\ ~channels[id].open
  BY DEF Mount, new
<1>3. channels = [k \in Ids |-> channels[k]] /\ \A k \in Ids : IsChannel(channels[k])
  BY DEF LanesInv, Whole
<1>4. Terminal(id, channels[id], streams[id], down, up, windows, next_stream_id, hello, session)
  BY DEF LanesInv, Whole
<1>5. Untouched(id, channels[id], streams[id], down, up)
  BY <1>2, <1>4 DEF Terminal, Unused
<1>6. BytesTo(down, id) = 0 /\ CreditTo(up, id, hello) = 0
  BY <1>5, BytesNone, CreditNone DEF Untouched, ForThe, LanesInv, Whole
<1>7. Terminal(id, new, streams[id], down, up, windows, next_stream_id, hello, session)
  <2>1. Books(id, new, streams[id], down, up, hello, session)
    BY <1>1, <1>5, <1>6 DEF Books, Untouched
  <2>2. Unused(id, new, streams[id], down, up, windows, next_stream_id)
    BY <1>1, <1>2, <1>4 DEF Terminal, Unused
  <2> QED BY <1>4, <2>1, <2>2 DEF Terminal
<1>8. channels[id].inFlight = 0
  BY <1>2, <1>3 DEF IsChannel
<1>9. Sum([k \in Ids |-> channels'[k].inFlight]) = linkInFlight
  <2>1. Sum([k \in Ids |-> [channels EXCEPT ![id] = new][k].inFlight])
          = Sum([k \in Ids |-> channels[k].inFlight]) - channels[id].inFlight + new.inFlight
    BY <1>1, <1>3, LinkChange
  <2>2. linkInFlight \in Nat /\ linkInFlight = Sum([k \in Ids |-> channels[k].inFlight])
    BY DEF LanesInv, Whole
  <2> QED BY <1>1, <1>2, <1>8, <2>1, <2>2
<1>10. channels' = [k \in Ids |-> channels'[k]] /\ \A k \in Ids : IsChannel(channels'[k])
  BY <1>1, <1>2, <1>3
<1>11. ASSUME NEW i \in Ids PROVE Terminal(i, channels'[i], streams[i], down, up, windows, next_stream_id, hello, session)
  BY <1>2, <1>3, <1>7 DEF LanesInv, Whole
<1>12. Whole(hello, session, next_stream_id, windows, linkInFlight, channels', streams, down, up)
  BY <1>9, <1>10, <1>11 DEF LanesInv, Whole
<1> QED BY <1>12 DEF Mount, LanesInv, rpcdVars

LEMMA CloseWindowKeeps == ASSUME LanesInv, NEW id \in Ids, CloseWindow(id) PROVE LanesInv'
<1> DEFINE v == windows \ {id}
<1>1. /\ channels' = [channels EXCEPT ![id] = Absent]
      /\ channels' = [k \in Ids |-> channels'[k]] /\ \A k \in Ids : IsChannel(channels'[k])
      /\ linkInFlight' \in Nat /\ linkInFlight' = Sum([k \in Ids |-> channels'[k].inFlight])
  BY LinkCloses DEF CloseWindow
<1>2. ASSUME NEW i \in Ids PROVE Terminal(i, channels'[i], streams[i], down, up, v, next_stream_id, hello, session)
  <2>1. Terminal(i, channels[i], streams[i], down, up, windows, next_stream_id, hello, session)
        /\ IsChannel(channels[i]) /\ streams[i] \in Streams /\ down \in Seq(Bursts) /\ up \in Seq(Notes)
    BY DEF LanesInv, Whole
  <2>2. CASE i = id
    <3>1. channels'[i] = Absent
      BY <1>1, <2>2 DEF LanesInv, Whole
    <3>2. i \notin v
      BY <2>2
    <3> QED BY <2>1, <3>1, <3>2, NewChannels, CloseTerminal
  <2>3. CASE i # id
    <3>1. channels'[i] = channels[i] /\ (i \in v <=> i \in windows)
      BY <1>1, <2>3 DEF LanesInv, Whole
    <3> QED BY <2>1, <3>1 DEF Terminal, Unused, Shown
  <2> QED BY <2>2, <2>3
<1>3. v \subseteq Ids
  BY DEF LanesInv, Whole
<1> HIDE DEF v
<1>4. Whole(hello, session, next_stream_id, v, linkInFlight', channels', streams, down, up)
  BY <1>1, <1>2, <1>3 DEF LanesInv, Whole
<1> QED BY <1>4 DEF CloseWindow, v, LanesInv, rpcdVars

\* What a read notification leaves of the queue.
LEMMA Reads ==
  ASSUME LanesInv, up # <<>>
  PROVE  /\ Tail(up) \in Seq(Notes) /\ \A j \in DOMAIN Tail(up) : Tail(up)[j].epoch <= session
         /\ Head(up) \in Notes /\ Head(up).epoch <= session /\ 1 \in DOMAIN up /\ up[1] = Head(up)
<1>1. up \in Seq(Notes) /\ \A j \in DOMAIN up : up[j].epoch <= session
  BY DEF LanesInv, Whole
<1> QED BY <1>1, TailShift

\* A terminal whose channel and stream stay, once a notification is read.
LEMMA ReadTerminal ==
  ASSUME LanesInv, up # <<>>, NEW i \in Ids, NEW c, NEW w, NEW v,
         Terminal(i, c, streams[i], down, up, w, next_stream_id, hello, session),
         c.open => Repays(Head(up), i, hello) = 0,
         i \in v <=> i \in w,
         session = hello /\ i \in v =>
           /\ ~(Head(up).kind = "up" /\ Head(up).epoch = hello)
           /\ ~(ForThe(Head(up), i, "closed") /\ Head(up).epoch = session)
  PROVE  Terminal(i, c, streams[i], down, Tail(up), v, next_stream_id, hello, session)
<1>1. up \in Seq(Notes) /\ down \in Seq(Bursts)
  BY DEF LanesInv, Whole
<1>2. Books(i, c, streams[i], down, Tail(up), hello, session)
  BY <1>1, BooksTail DEF Terminal
<1>3. Unused(i, c, streams[i], down, Tail(up), w, next_stream_id)
  BY <1>1, UnusedTail DEF Terminal
<1>4. Unused(i, c, streams[i], down, Tail(up), v, next_stream_id)
  BY <1>3 DEF Unused
<1>5. Shown(i, streams[i], up, w, hello, session)
  BY DEF Terminal
<1>6. Shown(i, streams[i], Tail(up), v, hello, session)
  BY <1>1, <1>5, ShownTail
<1> QED BY <1>2, <1>4, <1>6 DEF Terminal

LEMMA IgnoreKeeps == ASSUME LanesInv, IgnoreNote PROVE LanesInv'
<1>1. up # <<>> /\ Head(up).epoch # hello /\ up' = Tail(up)
  BY DEF IgnoreNote
<1>2. ASSUME NEW i \in Ids
      PROVE  Terminal(i, channels[i], streams[i], down, Tail(up), windows, next_stream_id, hello, session)
  <2>1. Terminal(i, channels[i], streams[i], down, up, windows, next_stream_id, hello, session)
    BY DEF LanesInv, Whole
  <2>2. Repays(Head(up), i, hello) = 0
    BY <1>1 DEF Repays
  <2> QED BY <1>1, <2>1, <2>2, ReadTerminal
<1>3. Whole(hello, session, next_stream_id, windows, linkInFlight, channels, streams, down, Tail(up))
  BY <1>1, <1>2, Reads DEF LanesInv, Whole
<1> QED BY <1>1, <1>3 DEF IgnoreNote, LanesInv, pageVars, rpcdVars

LEMMA SessionUpKeeps == ASSUME LanesInv, OnSessionUp PROVE LanesInv'
<1>1. up # <<>> /\ Head(up).kind = "up" /\ up' = Tail(up)
  BY DEF OnSessionUp, Hear
<1> DEFINE none == [i \in Ids |-> Absent]
<1>2. ASSUME NEW i \in Ids
      PROVE  Terminal(i, none[i], streams[i], down, Tail(up), {}, next_stream_id, hello, session)
  <2>1. Terminal(i, channels[i], streams[i], down, up, windows, next_stream_id, hello, session)
        /\ IsChannel(channels[i]) /\ streams[i] \in Streams /\ down \in Seq(Bursts) /\ up \in Seq(Notes)
    BY DEF LanesInv, Whole
  <2>2. none[i] = Absent /\ ~Absent.open
    BY NewChannels
  <2> HIDE DEF none
  <2>3. Terminal(i, Absent, streams[i], down, up, {}, next_stream_id, hello, session)
    BY <2>1, <2>2, CloseTerminal
  <2>4. Repays(Head(up), i, hello) = 0 /\ i \notin {}
    BY <1>1 DEF Repays
  <2>5. Terminal(i, Absent, streams[i], down, Tail(up), {}, next_stream_id, hello, session)
    BY <1>1, <2>3, <2>4, ReadTerminal
  <2> QED BY <2>2, <2>5
<1>3. 0 = Sum([i \in Ids |-> none[i].inFlight])
  <2> DEFINE f == [i \in Ids |-> none[i].inFlight]
  <2>1. f \in [Ids -> Nat] /\ \A i \in Ids : f[i] = 0
    BY DEF Absent
  <2> HIDE DEF f
  <2>2. Sum(f) = 0
    BY <2>1, SumNothing
  <2> QED BY <2>2 DEF f
<1>4. none = [i \in Ids |-> none[i]] /\ \A i \in Ids : IsChannel(none[i])
  BY NewChannels
<1> HIDE DEF none
<1>5. Whole(hello, session, next_stream_id, {}, 0, none, streams, down, Tail(up))
  BY <1>1, <1>2, <1>3, <1>4, Reads DEF LanesInv, Whole
<1> QED BY <1>1, <1>5 DEF OnSessionUp, LanesInv, none, rpcdVars

LEMMA OpenedKeeps == ASSUME LanesInv, OnOpened PROVE LanesInv'
<1> DEFINE i == Head(up).id
           c == channels[i]
           t == streams[i]
           v == windows'
<1>1. /\ up # <<>> /\ Head(up).kind = "opened" /\ Head(up).epoch = hello /\ up' = Tail(up)
      /\ v = windows \cup {i} \/ v = windows
  BY DEF OnOpened, Hear
<1>2. i \in Ids /\ 1 \in DOMAIN up /\ ForThe(up[1], i, "opened")
  BY <1>1, Reads DEF Notes, ForThe
<1>3. up \in Seq(Notes) /\ down \in Seq(Bursts) /\ next_stream_id \in Nat /\ i \in Nat
  BY <1>2 DEF LanesInv, Whole, Ids
<1>4. Terminal(i, c, t, down, up, windows, next_stream_id, hello, session)
  BY <1>2 DEF LanesInv, Whole
<1> HIDE DEF v
<1>5. Terminal(i, c, t, down, Tail(up), v, next_stream_id, hello, session)
  <2>1. Repays(Head(up), i, hello) = 0
    BY <1>1 DEF Repays
  <2>2. Books(i, c, t, down, Tail(up), hello, session)
    BY <1>1, <1>3, <1>4, <2>1, BooksTail DEF Terminal
  <2>3. Unused(i, c, t, down, Tail(up), windows, next_stream_id)
    BY <1>1, <1>3, <1>4, UnusedTail DEF Terminal
  <2>4. Untouched(i, c, t, down, up) /\ ~(i >= next_stream_id)
    BY <1>2, <1>4 DEF Terminal, Unused, ForThe
  <2>5. Untouched(i, c, t, down, Tail(up))
    BY <1>1, <1>3, <2>4, TailShift DEF Untouched
  <2>6. \A j \in DOMAIN Tail(up) : ~ForThe(Tail(up)[j], i, "opened")
    <3> SUFFICES ASSUME NEW j \in DOMAIN Tail(up), ForThe(Tail(up)[j], i, "opened") PROVE FALSE
      OBVIOUS
    <3>1. j \in Nat \ {0} /\ j + 1 \in DOMAIN up /\ Tail(up)[j] = up[j + 1]
      BY <1>1, <1>3, TailShift
    <3>2. j + 1 = 1
      BY <1>2, <1>4, <3>1 DEF Terminal, Unused
    <3> QED BY <3>1, <3>2
  <2>7. ~c.open
    BY <2>4 DEF Untouched
  <2>8. Unused(i, c, t, down, Tail(up), v, next_stream_id)
    BY <2>4, <2>5, <2>6, <2>7 DEF Unused
  <2>9. Shown(i, t, up, windows, hello, session)
    BY <1>4 DEF Terminal
  <2>10. session = hello => ForThe(Head(up), i, "opened") /\ Head(up).epoch = session
    BY <1>1, <1>2 DEF ForThe
  <2>11. Shown(i, t, Tail(up), v, hello, session)
    BY <1>1, <1>3, <2>9, <2>10, ShownTail
  <2> QED BY <2>2, <2>8, <2>11 DEF Terminal
<1>6. ASSUME NEW k \in Ids, k # i
      PROVE  Terminal(k, channels[k], streams[k], down, Tail(up), v, next_stream_id, hello, session)
  <2>1. Terminal(k, channels[k], streams[k], down, up, windows, next_stream_id, hello, session)
    BY DEF LanesInv, Whole
  <2>2. Repays(Head(up), k, hello) = 0 /\ (k \in v <=> k \in windows)
    BY <1>1, <1>6 DEF Repays
  <2>3. ~(Head(up).kind = "up" /\ Head(up).epoch = hello) /\ ~(ForThe(Head(up), k, "closed") /\ Head(up).epoch = session)
    BY <1>1 DEF ForThe
  <2> QED BY <1>1, <2>1, <2>2, <2>3, ReadTerminal
<1>7. v \subseteq Ids
  BY <1>1, <1>2 DEF LanesInv, Whole
<1>8. \A k \in Ids : Terminal(k, channels[k], streams[k], down, Tail(up), v, next_stream_id, hello, session)
  BY <1>5, <1>6
<1> HIDE DEF i, c, t
<1>9. Whole(hello, session, next_stream_id, v, linkInFlight, channels, streams, down, Tail(up))
  BY <1>1, <1>7, <1>8, Reads DEF LanesInv, Whole
<1> QED BY <1>1, <1>9 DEF OnOpened, LanesInv, v, rpcdVars

LEMMA ClosedKeeps == ASSUME LanesInv, OnClosed PROVE LanesInv'
<1> DEFINE d == Head(up).id
           v == windows \ {d}
<1>1. /\ up # <<>> /\ Head(up).kind = "closed" /\ Head(up).epoch = hello /\ up' = Tail(up)
      /\ WithoutChannel(d) /\ windows' = v
  BY DEF OnClosed, Hear
<1>2. d \in Ids
  BY <1>1, Reads DEF Notes
<1> HIDE DEF d
<1>3. /\ channels' = [channels EXCEPT ![d] = Absent]
      /\ channels' = [k \in Ids |-> channels'[k]] /\ \A k \in Ids : IsChannel(channels'[k])
      /\ linkInFlight' \in Nat /\ linkInFlight' = Sum([k \in Ids |-> channels'[k].inFlight])
  BY <1>1, <1>2, LinkCloses
<1>4. ASSUME NEW i \in Ids
      PROVE  Terminal(i, channels'[i], streams[i], down, Tail(up), v, next_stream_id, hello, session)
  <2>1. Terminal(i, channels[i], streams[i], down, up, windows, next_stream_id, hello, session)
        /\ IsChannel(channels[i]) /\ streams[i] \in Streams /\ down \in Seq(Bursts) /\ up \in Seq(Notes)
    BY DEF LanesInv, Whole
  <2>2. Repays(Head(up), i, hello) = 0 /\ ~(Head(up).kind = "up" /\ Head(up).epoch = hello)
    BY <1>1 DEF Repays
  <2>3. CASE i = d
    <3>1. channels'[i] = Absent
      BY <1>3, <2>3 DEF LanesInv, Whole
    <3>2. i \notin v
      BY <2>3
    <3>3. Terminal(i, Absent, streams[i], down, up, v, next_stream_id, hello, session)
      BY <2>1, <3>2, NewChannels, CloseTerminal
    <3>4. Terminal(i, Absent, streams[i], down, Tail(up), v, next_stream_id, hello, session)
      BY <1>1, <2>2, <3>2, <3>3, ReadTerminal
    <3> QED BY <3>1, <3>4
  <2>4. CASE i # d
    <3>1. channels'[i] = channels[i] /\ (i \in v <=> i \in windows)
      BY <1>3, <2>4 DEF LanesInv, Whole
    <3>2. ~ForThe(Head(up), i, "closed")
      BY <2>4 DEF ForThe, d
    <3>3. Terminal(i, channels[i], streams[i], down, Tail(up), v, next_stream_id, hello, session)
      BY <1>1, <2>1, <2>2, <3>1, <3>2, ReadTerminal
    <3> QED BY <3>1, <3>3
  <2> QED BY <2>3, <2>4
<1>5. v \subseteq Ids
  BY DEF LanesInv, Whole
<1> HIDE DEF v
<1>6. Whole(hello, session, next_stream_id, v, linkInFlight', channels', streams, down, Tail(up))
  BY <1>1, <1>3, <1>4, <1>5, Reads DEF LanesInv, Whole
<1> QED BY <1>1, <1>6 DEF OnClosed, LanesInv, rpcdVars

\* What one pump does to the page's own numbers.
LEMMA PumpSends ==
  ASSUME LanesInv, NEW i \in Ids, NEW c, NEW link \in Int,
         IsChannel(c), c.open, linkInFlight = link + channels[i].inFlight - c.inFlight, Pump(i, c, link)
  PROVE  \E m \in Nat :
           /\ channels' = [k \in Ids |-> channels'[k]] /\ \A k \in Ids : IsChannel(channels'[k])
           /\ channels'[i].open /\ channels'[i].inFlight = c.inFlight + m
           /\ \A k \in Ids : k # i => channels'[k] = channels[k]
           /\ linkInFlight' \in Nat /\ linkInFlight' = Sum([k \in Ids |-> channels'[k].inFlight])
           /\ down' \in Seq(Bursts) /\ BytesTo(down', i) = BytesTo(down, i) + m
           /\ \A k \in Ids : k # i => BytesTo(down', k) = BytesTo(down, k)
           /\ \A k \in Ids : k # i => ((\A j \in DOMAIN down : down[j].id # k) => \A j \in DOMAIN down' : down'[j].id # k)
<1>1. PICK m \in 0 .. c.window :
        /\ channels' = [channels EXCEPT ![i] =
             [c EXCEPT !.window = @ - m, !.inFlight = @ + m, !.queue = Without(@, m)]]
        /\ linkInFlight' = link + m
        /\ down' = IF m = 0 THEN down ELSE Append(down, Burst(i, m))
  BY DEF Pump
<1> DEFINE d == [c EXCEPT !.window = @ - m, !.inFlight = @ + m, !.queue = Without(@, m)]
<1>2. m \in Nat /\ c.window \in Nat /\ m <= c.window
  BY DEF IsChannel
<1>3. /\ DOMAIN d = {"open", "window", "inFlight", "queue"} /\ d.open = c.open
      /\ d.window = c.window - m /\ d.inFlight = c.inFlight + m
  BY DEF IsChannel
<1> HIDE DEF d
<1>4. IsChannel(d) /\ d.open /\ d.inFlight \in Nat
  <2>1. c.window + c.inFlight = STREAM_WINDOW /\ c.inFlight \in Nat
    BY DEF IsChannel
  <2>2. d.window \in Nat /\ d.inFlight \in Nat /\ d.window + d.inFlight = STREAM_WINDOW
    BY <1>2, <1>3, <2>1
  <2> QED BY <1>3, <2>2 DEF IsChannel
<1>5. channels' = [channels EXCEPT ![i] = d]
  BY <1>1 DEF d
<1>6. channels = [k \in Ids |-> channels[k]] /\ \A k \in Ids : IsChannel(channels[k])
  BY DEF LanesInv, Whole
<1>7. /\ channels' = [k \in Ids |-> channels'[k]] /\ channels'[i] = d
      /\ \A k \in Ids : k # i => channels'[k] = channels[k]
  BY <1>5, <1>6
<1>8. linkInFlight' \in Nat /\ linkInFlight' = Sum([k \in Ids |-> channels'[k].inFlight])
  <2>1. /\ Sum([k \in Ids |-> channels[k].inFlight]) \in Nat
        /\ channels[i].inFlight <= Sum([k \in Ids |-> channels[k].inFlight])
        /\ Sum([k \in Ids |-> [channels EXCEPT ![i] = d][k].inFlight])
             = Sum([k \in Ids |-> channels[k].inFlight]) - channels[i].inFlight + d.inFlight
    BY <1>4, <1>6, LinkChange
  <2>2. linkInFlight = Sum([k \in Ids |-> channels[k].inFlight])
    BY DEF LanesInv, Whole
  <2>3. channels[i].inFlight \in Nat /\ c.inFlight \in Nat
    BY <1>6 DEF IsChannel
  <2> DEFINE a == Sum([k \in Ids |-> channels'[k].inFlight])
  <2>4. a = linkInFlight - channels[i].inFlight + d.inFlight
    <3>1. a = Sum([k \in Ids |-> [channels EXCEPT ![i] = d][k].inFlight])
      BY <1>5
    <3> HIDE DEF a
    <3> QED BY <2>1, <2>2, <3>1
  <2> HIDE DEF a
  <2>5. linkInFlight' = a /\ a \in Nat
    <3> DEFINE x == channels[i].inFlight
               y == c.inFlight
               z == d.inFlight
    <3>1. /\ linkInFlight \in Nat /\ x <= linkInFlight /\ x \in Nat /\ y \in Nat /\ z = y + m
          /\ linkInFlight = link + x - y /\ a = linkInFlight - x + z
      BY <1>3, <2>1, <2>2, <2>3, <2>4
    <3> HIDE DEF x, y, z
    <3> QED BY <1>1, <1>2, <3>1
  <2> QED BY <2>5 DEF a
<1>9. /\ down' \in Seq(Bursts) /\ BytesTo(down', i) = BytesTo(down, i) + m
      /\ \A k \in Ids : k # i => BytesTo(down', k) = BytesTo(down, k)
      /\ \A k \in Ids : k # i => ((\A j \in DOMAIN down : down[j].id # k) => \A j \in DOMAIN down' : down'[j].id # k)
  <2>1. down \in Seq(Bursts)
    BY DEF LanesInv, Whole
  <2>2. \A k \in Ids : BytesTo(down, k) \in Nat
    BY <2>1, BytesAre
  <2>3. CASE m = 0
    BY <1>1, <2>1, <2>2, <2>3
  <2>4. CASE m # 0
    <3> DEFINE b == Burst(i, m)
    <3>1. b \in Bursts /\ b.id = i /\ b.bytes = m
      BY <1>2, <2>4 DEF Burst, Bursts
    <3>2. down' = Append(down, b)
      BY <1>1, <2>4
    <3> HIDE DEF b
    <3>3. \A k \in Ids : BytesTo(Append(down, b), k) = BytesTo(down, k) + Weighs(b, k)
      BY <2>1, <3>1, BytesAppend
    <3>4. Weighs(b, i) = m /\ \A k \in Ids : k # i => Weighs(b, k) = 0
      BY <3>1 DEF Weighs
    <3>5. ASSUME NEW k \in Ids, k # i, \A j \in DOMAIN down : down[j].id # k, NEW j \in DOMAIN Append(down, b)
          PROVE  Append(down, b)[j].id # k
      BY <2>1, <3>1, <3>5
    <3>6. Append(down, b) \in Seq(Bursts)
      BY <2>1, <3>1
    <3>7. BytesTo(Append(down, b), i) = BytesTo(down, i) + m
      BY <3>3, <3>4
    <3>8. \A k \in Ids : k # i => BytesTo(Append(down, b), k) = BytesTo(down, k)
      BY <2>2, <3>3, <3>4
    <3> QED BY <3>2, <3>5, <3>6, <3>7, <3>8
  <2> QED BY <2>3, <2>4
<1> QED BY <1>2, <1>3, <1>4, <1>6, <1>7, <1>8, <1>9

\* A pump keeps the books if they were kept for the channel it starts from.
LEMMA PumpKeeps ==
  ASSUME LanesInv, NEW i \in Ids, NEW c, NEW link \in Int, NEW u \in Seq(Notes),
         \A j \in DOMAIN u : u[j].epoch <= session,
         IsChannel(c), c.open, linkInFlight = link + channels[i].inFlight - c.inFlight, Pump(i, c, link),
         Terminal(i, c, streams[i], down, u, windows, next_stream_id, hello, session),
         \A k \in Ids : k # i => Terminal(k, channels[k], streams[k], down, u, windows, next_stream_id, hello, session)
  PROVE  Whole(hello, session, next_stream_id, windows, linkInFlight', channels', streams, down', u)
<1>1. PICK m \in Nat :
           /\ channels' = [k \in Ids |-> channels'[k]] /\ \A k \in Ids : IsChannel(channels'[k])
           /\ channels'[i].open /\ channels'[i].inFlight = c.inFlight + m
           /\ \A k \in Ids : k # i => channels'[k] = channels[k]
           /\ linkInFlight' \in Nat /\ linkInFlight' = Sum([k \in Ids |-> channels'[k].inFlight])
           /\ down' \in Seq(Bursts) /\ BytesTo(down', i) = BytesTo(down, i) + m
           /\ \A k \in Ids : k # i => BytesTo(down', k) = BytesTo(down, k)
           /\ \A k \in Ids : k # i => ((\A j \in DOMAIN down : down[j].id # k) => \A j \in DOMAIN down' : down'[j].id # k)
  BY PumpSends
<1>2. down \in Seq(Bursts) /\ streams \in [Ids -> Streams]
  BY DEF LanesInv, Whole
<1> DEFINE p == down'
           d == channels'[i]
<1>3. Terminal(i, d, streams[i], p, u, windows, next_stream_id, hello, session)
  <2>1. streams[i] \in Streams /\ p \in Seq(Bursts) /\ d.open /\ d.inFlight = c.inFlight + m /\ BytesTo(p, i) = BytesTo(down, i) + m
    BY <1>1, <1>2
  <2> HIDE DEF p, d
  <2> QED BY <1>2, <2>1, SendTerminal
<1>4. ASSUME NEW k \in Ids, k # i
      PROVE  Terminal(k, channels'[k], streams[k], p, u, windows, next_stream_id, hello, session)
  <2>1. channels'[k] = channels[k] /\ BytesTo(p, k) = BytesTo(down, k)
        /\ ((\A j \in DOMAIN down : down[j].id # k) => \A j \in DOMAIN p : p[j].id # k)
    BY <1>1, <1>4
  <2>2. Terminal(k, channels[k], streams[k], down, u, windows, next_stream_id, hello, session)
    BY <1>4
  <2> HIDE DEF p
  <2>3. Terminal(k, channels[k], streams[k], p, u, windows, next_stream_id, hello, session)
    BY <2>1, <2>2, LineElsewhere
  <2> QED BY <2>1, <2>3
<1>5. \A k \in Ids : Terminal(k, channels'[k], streams[k], p, u, windows, next_stream_id, hello, session)
  BY <1>3, <1>4
<1> QED BY <1>1, <1>5 DEF LanesInv, Whole

LEMMA SendKeeps == ASSUME LanesInv, NEW id \in Ids, NEW n, Send(id, n) PROVE LanesInv'
<1> DEFINE c == [channels[id] EXCEPT !.queue = Bounded(Append(@, n))]
<1>1. IsChannel(channels[id]) /\ channels[id].open
  BY DEF Send, LanesInv, Whole
<1>2. /\ DOMAIN c = {"open", "window", "inFlight", "queue"} /\ c.open = channels[id].open
      /\ c.window = channels[id].window /\ c.inFlight = channels[id].inFlight
  BY <1>1 DEF IsChannel
<1> HIDE DEF c
<1>3. IsChannel(c) /\ c.open
  BY <1>1, <1>2 DEF IsChannel
<1>4. Terminal(id, channels[id], streams[id], down, up, windows, next_stream_id, hello, session)
  BY DEF LanesInv, Whole
<1>5. Terminal(id, c, streams[id], down, up, windows, next_stream_id, hello, session)
  <2>1. Untouched(id, c, streams[id], down, up) <=> Untouched(id, channels[id], streams[id], down, up)
    BY <1>2 DEF Untouched
  <2> QED BY <1>2, <1>4, <2>1 DEF Terminal, Books, Unused
<1>6. linkInFlight \in Int /\ linkInFlight = linkInFlight + channels[id].inFlight - c.inFlight
  BY <1>1, <1>2 DEF LanesInv, Whole, IsChannel
<1>7. Pump(id, c, linkInFlight)
  BY DEF Send, c
<1>8. up \in Seq(Notes) /\ \A j \in DOMAIN up : up[j].epoch <= session
  BY DEF LanesInv, Whole
<1>9. \A k \in Ids : Terminal(k, channels[k], streams[k], down, up, windows, next_stream_id, hello, session)
  BY DEF LanesInv, Whole
<1>10. Whole(hello, session, next_stream_id, windows, linkInFlight', channels', streams, down', up)
  BY <1>3, <1>5, <1>6, <1>7, <1>8, <1>9, PumpKeeps
<1> QED BY <1>10 DEF Send, LanesInv, rpcdVars

LEMMA CreditKeeps == ASSUME LanesInv, OnCredit PROVE LanesInv'
<1> DEFINE i == Head(up).id
           n == Head(up).bytes
           ch == channels[i]
           settled == Min({n, ch.inFlight})
           link == Max({0, linkInFlight - settled})
           c == [ch EXCEPT !.window = @ + n, !.inFlight = @ - settled]
           u == Tail(up)
<1>1. /\ up # <<>> /\ Head(up).kind = "credit" /\ Head(up).epoch = hello /\ up' = u
      /\ IF ~ch.open THEN UNCHANGED <<channels, linkInFlight, down>> ELSE Pump(i, c, link)
      /\ UNCHANGED <<hello, windows, typed, rpcdVars>>
  BY DEF OnCredit, Hear
<1>2. i \in Ids /\ n \in Nat /\ IsChannel(ch)
  BY <1>1, Reads DEF Notes, LanesInv, Whole
<1>3. Repays(Head(up), i, hello) = n /\ \A k \in Ids : k # i => Repays(Head(up), k, hello) = 0
  BY <1>1 DEF Repays
<1>4. \A k \in Ids : Terminal(k, channels[k], streams[k], down, up, windows, next_stream_id, hello, session)
  BY DEF LanesInv, Whole
<1>5. /\ ~(Head(up).kind = "up" /\ Head(up).epoch = hello)
      /\ \A k : ~(ForThe(Head(up), k, "closed") /\ Head(up).epoch = session)
  BY <1>1 DEF ForThe
<1>6. ASSUME NEW k \in Ids, k # i \/ ~ch.open
      PROVE  Terminal(k, channels[k], streams[k], down, u, windows, next_stream_id, hello, session)
  <2>1. channels[k].open => Repays(Head(up), k, hello) = 0
    BY <1>3, <1>6
  <2> QED BY <1>1, <1>4, <1>5, <2>1, ReadTerminal
<1>7. u \in Seq(Notes) /\ \A j \in DOMAIN u : u[j].epoch <= session
  BY <1>1, Reads
<1>8. CASE ~ch.open
  <2>1. \A k \in Ids : Terminal(k, channels[k], streams[k], down, u, windows, next_stream_id, hello, session)
    BY <1>6, <1>8
  <2> HIDE DEF u
  <2>2. Whole(hello, session, next_stream_id, windows, linkInFlight, channels, streams, down, u)
    BY <1>7, <2>1 DEF LanesInv, Whole
  <2> QED BY <1>1, <1>8, <2>2 DEF LanesInv, rpcdVars
<1>9. CASE ch.open
  <2>1. /\ up \in Seq(Notes) /\ down \in Seq(Bursts) /\ streams[i] \in Streams
        /\ ch.inFlight \in Nat /\ ch.window \in Nat /\ ch.window + ch.inFlight = STREAM_WINDOW
    BY <1>2, <1>9 DEF LanesInv, Whole, IsChannel
  <2>2. CreditTo(up, i, hello) = CreditTo(u, i, hello) + n /\ CreditTo(u, i, hello) \in Nat
    <3>1. CreditTo(up, i, hello) = CreditTo(u, i, hello) + Repays(Head(up), i, hello)
      BY <1>1, <2>1, CreditTail
    <3>2. CreditTo(u, i, hello) \in Nat
      <4> HIDE DEF u
      <4> QED BY <1>7, CreditAre
    <3> QED BY <1>3, <3>1, <3>2
  <2>3. n <= ch.inFlight
    BY <1>2, <1>4, <1>9, <2>1, <2>2 DEF Terminal, Books
  <2>4. settled = n
    BY <1>2, <2>1, <2>3, PairMin
  <2>5. linkInFlight \in Nat /\ ch.inFlight <= linkInFlight
    <3>1. channels = [k \in Ids |-> channels[k]] /\ \A k \in Ids : IsChannel(channels[k])
      BY DEF LanesInv, Whole
    <3>2. Absent.inFlight \in Nat
      BY DEF Absent
    <3> QED BY <1>2, <3>1, <3>2, LinkChange DEF LanesInv, Whole
  <2>6. link = linkInFlight - n
    <3>1. linkInFlight - settled \in Int /\ 0 <= linkInFlight - settled /\ linkInFlight - settled = linkInFlight - n
      BY <1>2, <2>1, <2>3, <2>4, <2>5
    <3> DEFINE a == linkInFlight - settled
    <3>2. a \in Int /\ 0 <= a /\ a = linkInFlight - n
      BY <3>1
    <3> HIDE DEF a
    <3>3. Max({0, a}) = a
      BY <3>2, PairMax
    <3> QED BY <3>2, <3>3 DEF a
  <2>7. /\ DOMAIN c = {"open", "window", "inFlight", "queue"} /\ c.open = ch.open
        /\ c.window = ch.window + n /\ c.inFlight = ch.inFlight - n
    BY <1>2, <2>4 DEF IsChannel
  <2>8. Pump(i, c, link)
    BY <1>1, <1>9
  <2>9. Unused(i, ch, streams[i], down, u, windows, next_stream_id)
    BY <1>1, <1>2, <1>4, <2>1, UnusedTail DEF Terminal
  <2>10. Shown(i, streams[i], up, windows, hello, session)
    BY <1>2, <1>4 DEF Terminal
  <2>11. Shown(i, streams[i], u, windows, hello, session)
    BY <1>1, <1>5, <2>1, <2>10, ShownTail
  <2>12. Books(i, ch, streams[i], down, up, hello, session)
    BY <1>2, <1>4 DEF Terminal
  <2> HIDE DEF c, ch, settled, link, u, n, i
  <2>13. c.inFlight \in Nat /\ c.window \in Nat /\ c.window + c.inFlight = STREAM_WINDOW
    BY <1>2, <2>1, <2>3, <2>7
  <2>14. IsChannel(c) /\ c.open
    BY <1>9, <2>7, <2>13 DEF IsChannel
  <2>15. Books(i, c, streams[i], down, u, hello, session)
    <3>1. streams[i].to_pty \in Nat /\ streams[i].credit_owed \in Nat /\ BytesTo(down, i) \in Nat
      BY <2>1, BytesAre DEF Streams
    <3>2. streams[i].used /\ session = hello =>
            c.inFlight = BytesTo(down, i) + streams[i].to_pty + streams[i].credit_owed + CreditTo(u, i, hello)
      <4> SUFFICES ASSUME streams[i].used, session = hello
                   PROVE  c.inFlight = BytesTo(down, i) + streams[i].to_pty + streams[i].credit_owed + CreditTo(u, i, hello)
        OBVIOUS
      <4>1. ch.inFlight = BytesTo(down, i) + streams[i].to_pty + streams[i].credit_owed + CreditTo(up, i, hello)
        BY <1>9, <2>12 DEF Books
      <4>2. /\ BytesTo(down, i) \in Nat /\ streams[i].to_pty \in Nat /\ streams[i].credit_owed \in Nat
            /\ CreditTo(u, i, hello) \in Nat /\ n \in Nat
            /\ CreditTo(up, i, hello) = CreditTo(u, i, hello) + n
        BY <1>2, <2>2, <3>1
      <4> DEFINE b == BytesTo(down, i)
                 p == streams[i].to_pty
                 o == streams[i].credit_owed
                 r == CreditTo(u, i, hello)
                 g == CreditTo(up, i, hello)
                 x == c.inFlight
                 y == ch.inFlight
      <4>3. /\ b \in Nat /\ p \in Nat /\ o \in Nat /\ r \in Nat /\ n \in Nat
            /\ x = y - n /\ y = b + p + o + g /\ g = r + n
        BY <2>7, <4>1, <4>2
      <4> HIDE DEF b, p, o, r, g, x, y
      <4>4. x = b + p + o + r
        BY <4>3
      <4> QED BY <4>4 DEF b, p, o, r, x
    <3>3. CreditTo(u, i, hello) <= c.inFlight
      BY <1>2, <1>9, <2>1, <2>2, <2>7, <2>12 DEF Books
    <3>4. streams[i].used => streams[i].to_pty + BytesTo(down, i) <= c.inFlight
      <4>1. ASSUME streams[i].used PROVE streams[i].to_pty + BytesTo(down, i) <= c.inFlight
        <5>1. CASE session = hello
          <6>1. c.inFlight = BytesTo(down, i) + streams[i].to_pty + streams[i].credit_owed + CreditTo(u, i, hello)
            BY <3>2, <4>1, <5>1
          <6> QED BY <2>2, <2>13, <3>1, <6>1
        <5>2. CASE session # hello
          <6>1. Head(up).epoch <= session /\ session <= hello /\ session \in Nat /\ hello \in Nat
            BY <1>1, Reads DEF LanesInv, Whole
          <6> QED BY <1>1, <5>2, <6>1
        <5> QED BY <5>1, <5>2
      <4> QED BY <4>1
    <3> QED BY <2>14, <3>2, <3>3, <3>4 DEF Books
  <2>16. Unused(i, c, streams[i], down, u, windows, next_stream_id)
    <3>1. Untouched(i, c, streams[i], down, u) <=> Untouched(i, ch, streams[i], down, u)
      BY <2>7 DEF Untouched
    <3> QED BY <2>7, <2>9, <3>1 DEF Unused
  <2>17. Terminal(i, c, streams[i], down, u, windows, next_stream_id, hello, session)
    BY <2>11, <2>15, <2>16 DEF Terminal
  <2>18. link \in Int /\ linkInFlight = link + ch.inFlight - c.inFlight
    BY <1>2, <2>1, <2>5, <2>6, <2>7
  <2>19. linkInFlight = link + channels[i].inFlight - c.inFlight
    BY <2>18 DEF ch
  <2>20. Whole(hello, session, next_stream_id, windows, linkInFlight', channels', streams, down', u)
    BY <1>2, <1>6, <1>7, <2>8, <2>14, <2>17, <2>18, <2>19, PumpKeeps
  <2> QED BY <1>1, <2>20 DEF LanesInv, rpcdVars
<1> QED BY <1>8, <1>9

----------------------------------------------------------------------------
(* What rpcd does.                                                         *)

\* What is said, of the present session, is appended.
LEMMA SaysNotes ==
  ASSUME LanesInv, NEW v \in Seq(Notes), \A k \in DOMAIN v : v[k].epoch <= session
  PROVE  up \o v \in Seq(Notes) /\ \A j \in DOMAIN (up \o v) : (up \o v)[j].epoch <= session
<1>1. up \in Seq(Notes) /\ \A j \in DOMAIN up : up[j].epoch <= session
  BY DEF LanesInv, Whole
<1>2. ASSUME NEW j \in DOMAIN (up \o v) PROVE (up \o v)[j].epoch <= session
  <2>1. CASE j \in DOMAIN up
    BY <1>1, <2>1, SayShift
  <2>2. CASE j - Len(up) \in DOMAIN v /\ (up \o v)[j] = v[j - Len(up)]
    BY <2>2
  <2> QED BY <1>1, <2>1, <2>2, SayShift
<1> QED BY <1>1, <1>2, SayShift

\* A terminal is not told anything of its bytes.
LEMMA SayTerminal ==
  ASSUME LanesInv, NEW i \in Ids, NEW r, NEW v \in Seq(Notes), NEW m,
         Terminal(i, channels[i], r, down, up, windows, m, hello, session),
         channels[i].open => CreditTo(up \o v, i, hello) = CreditTo(up, i, hello),
         \A k \in DOMAIN v : ~ForThe(v[k], i, "opened") /\ ~ForThe(v[k], i, "credit") /\ (i >= m => v[k].id # i)
  PROVE  Terminal(i, channels[i], r, down, up \o v, windows, m, hello, session)
<1>1. up \in Seq(Notes)
  BY DEF LanesInv, Whole
<1>2. Unused(i, channels[i], r, down, up \o v, windows, m)
  BY <1>1, UnusedSay DEF Terminal
<1>3. Shown(i, r, up, windows, hello, session)
  BY DEF Terminal
<1>4. Shown(i, r, up \o v, windows, hello, session)
  BY <1>1, <1>3, ShownSay
<1> QED BY <1>2, <1>4 DEF Terminal, Books

\* A stream goes, the page told or its number known to be gone.
LEMMA FreeTerminal ==
  ASSUME LanesInv, NEW i \in Ids, NEW v \in Seq(Notes), NEW k \in DOMAIN v,
         v[k] = [kind |-> "closed", id |-> i, bytes |-> 0, epoch |-> session],
         \A j \in DOMAIN v : v[j].kind = "closed" /\ v[j].id = i,
         streams[i].used
  PROVE  Terminal(i, channels[i], Free, down, up \o v, windows, next_stream_id, hello, session)
<1>1. up \in Seq(Notes) /\ Terminal(i, channels[i], streams[i], down, up, windows, next_stream_id, hello, session)
  BY DEF LanesInv, Whole
<1>2. Free.to_pty = 0 /\ Free.credit_owed = 0 /\ ~Free.used
  BY DEF Free
<1>3. CreditTo(up \o v, i, hello) = CreditTo(up, i, hello)
  <2>1. \A j \in DOMAIN v : Repays(v[j], i, hello) = 0
    BY DEF Repays
  <2>2. CreditTo(up \o v, i, hello) = CreditTo(up, i, hello) + Repays(v[k], i, hello)
    BY <1>1, <2>1, CreditSay
  <2>3. CreditTo(up, i, hello) \in Nat
    BY <1>1, CreditAre
  <2> QED BY <2>1, <2>2, <2>3
<1>4. Books(i, channels[i], Free, down, up \o v, hello, session)
  BY <1>1, <1>2, <1>3 DEF Terminal, Books
<1>5. Unused(i, channels[i], Free, down, up, windows, next_stream_id)
  <2>1. Untouched(i, channels[i], streams[i], down, up) => Untouched(i, channels[i], Free, down, up)
    BY <1>2 DEF Untouched
  <2> QED BY <1>1, <1>2, <2>1 DEF Terminal, Unused
<1>6. ~(i >= next_stream_id)
  BY <1>1 DEF Terminal, Unused
<1>7. \A j \in DOMAIN v : ~ForThe(v[j], i, "opened") /\ ~ForThe(v[j], i, "credit")
  BY DEF ForThe
<1>8. Unused(i, channels[i], Free, down, up \o v, windows, next_stream_id)
  BY <1>1, <1>5, <1>6, <1>7, UnusedSay
<1>9. Shown(i, streams[i], up, windows, hello, session)
  BY <1>1 DEF Terminal
<1>10. Shown(i, Free, up \o v, windows, hello, session)
  BY <1>1, <1>7, <1>9, ShownSay
<1> QED BY <1>4, <1>8, <1>10 DEF Terminal

LEMMA NewSessionKeeps == ASSUME LanesInv, NewSession PROVE LanesInv'
<1> DEFINE s == session'
           free == [i \in Ids |-> Free]
           m == [kind |-> "up", id |-> 0, bytes |-> 0, epoch |-> s]
<1>1. s \in session + 1 .. hello /\ streams' = free /\ UNCHANGED <<pageVars, next_stream_id, down>>
  BY DEF NewSession
<1>2. up' = Append(up, m)
  BY DEF NewSession, Note
<1>3. /\ s \in Nat /\ session \in Nat /\ session < s /\ s <= hello /\ up \in Seq(Notes) /\ down \in Seq(Bursts)
      /\ \A j \in DOMAIN up : up[j].epoch <= session /\ up[j].epoch \in Nat
  BY <1>1 DEF LanesInv, Whole, Notes
<1>4. m \in Notes
  BY <1>3 DEF Notes
<1> HIDE DEF s
<1>5. /\ Append(up, m) \in Seq(Notes) /\ Len(up) + 1 \in DOMAIN Append(up, m) /\ Append(up, m)[Len(up) + 1] = m
      /\ \A j \in DOMAIN up : j \in DOMAIN Append(up, m) /\ Append(up, m)[j] = up[j]
      /\ \A j \in DOMAIN Append(up, m) : Append(up, m)[j] = m \/ (j \in DOMAIN up /\ Append(up, m)[j] = up[j])
  BY <1>3, <1>4
<1>6. Free.to_pty = 0 /\ Free.credit_owed = 0 /\ ~Free.used /\ Free \in Streams
  BY DEF Free, Streams
<1>7. m.id = 0 /\ m.kind = "up" /\ m.epoch = s
  OBVIOUS
<1> DEFINE u == Append(up, m)
<1>8. \A i : CreditTo(u, i, hello) = CreditTo(up, i, hello)
  <2> SUFFICES ASSUME NEW i PROVE CreditTo(u, i, hello) = CreditTo(up, i, hello)
    OBVIOUS
  <2>1. CreditTo(u, i, hello) = CreditTo(up, i, hello) + Repays(m, i, hello)
    BY <1>3, <1>4, CreditAppend
  <2>2. Repays(m, i, hello) = 0
    BY <1>7 DEF Repays
  <2>3. CreditTo(up, i, hello) \in Nat
    BY <1>3, CreditAre
  <2> QED BY <2>1, <2>2, <2>3
<1> HIDE DEF u, m
<1>9. ASSUME NEW i \in Ids PROVE Terminal(i, channels[i], Free, down, u, windows, next_stream_id, hello, s)
  <2>1. Terminal(i, channels[i], streams[i], down, up, windows, next_stream_id, hello, session)
    BY DEF LanesInv, Whole
  <2>2. Books(i, channels[i], Free, down, u, hello, s)
    BY <1>6, <1>8, <2>1 DEF Terminal, Books
  <2>3. i # 0
    BY DEF Ids
  <2>4. Untouched(i, channels[i], streams[i], down, up) => Untouched(i, channels[i], Free, down, u)
    BY <1>5, <1>6, <1>7 DEF Untouched, ForThe, u
  <2>5. \A j \in DOMAIN u : ForThe(u[j], i, "opened") => j \in DOMAIN up /\ u[j] = up[j]
    BY <1>5, <1>7 DEF ForThe, u
  <2>6. (\A j \in DOMAIN up : up[j].id # i) => \A j \in DOMAIN u : u[j].id # i
    BY <1>5, <1>7, <2>3 DEF u
  <2>7. Unused(i, channels[i], Free, down, u, windows, next_stream_id)
    BY <1>6, <2>1, <2>4, <2>5, <2>6 DEF Terminal, Unused
  <2>8. \A j \in DOMAIN u : ~(ForThe(u[j], i, "opened") /\ u[j].epoch = s)
    BY <1>3, <2>5
  <2>9. s = hello => \E j \in DOMAIN u : u[j].kind = "up" /\ u[j].epoch = hello
    BY <1>5, <1>7 DEF u
  <2>10. Shown(i, Free, u, windows, hello, s)
    BY <2>8, <2>9 DEF Shown
  <2> QED BY <2>2, <2>7, <2>10 DEF Terminal
<1>10. \A j \in DOMAIN u : u[j].epoch <= s
  BY <1>3, <1>5, <1>7 DEF u
<1>11. Whole(hello, s, next_stream_id, windows, linkInFlight, channels, free, down, u)
  <2>1. free \in [Ids -> Streams] /\ \A i \in Ids : free[i] = Free
    BY <1>6
  <2>2. u \in Seq(Notes)
    BY <1>5 DEF u
  <2> HIDE DEF free
  <2> QED BY <1>3, <1>9, <1>10, <2>1, <2>2 DEF LanesInv, Whole
<1> QED BY <1>1, <1>2, <1>11 DEF LanesInv, s, u, pageVars

LEMMA OpenKeeps == ASSUME LanesInv, Open PROVE LanesInv'
<1> DEFINE i == next_stream_id
           t == [Free EXCEPT !.used = TRUE]
           m == Note("opened", i, STREAM_WINDOW)
           v == <<m>>
<1>1. /\ next_stream_id' = i + 1 /\ streams' = [streams EXCEPT ![i] = t] /\ up' = up \o v
      /\ UNCHANGED <<pageVars, session, down>>
  BY DEF Open, Say
<1>2. /\ session \in Nat /\ up \in Seq(Notes) /\ down \in Seq(Bursts) /\ i \in Ids /\ i \in Nat
      /\ streams \in [Ids -> Streams]
  BY DEF LanesInv, Whole, Open, Ids
<1>3. t.used /\ t.to_pty = 0 /\ t.credit_owed = 0 /\ t \in Streams
  BY DEF Free, Streams
<1>4. m.kind = "opened" /\ m.id = i /\ m.epoch = session /\ m \in Notes
  BY <1>2, StreamLaneAssumption DEF Note, Notes
<1> HIDE DEF m
<1>5. v \in Seq(Notes) /\ 1 \in DOMAIN v /\ \A j \in DOMAIN v : v[j] = m
  BY <1>4
<1> HIDE DEF v
<1>6. ASSUME NEW k \in Ids
      PROVE  CreditTo(up \o v, k, hello) = CreditTo(up, k, hello)
  <2>1. Repays(m, k, hello) = 0
    BY <1>4 DEF Repays
  <2>2. CreditTo(up \o v, k, hello) = CreditTo(up, k, hello) + Repays(v[1], k, hello)
    BY <1>2, <1>5, <2>1, CreditSay
  <2>3. CreditTo(up, k, hello) \in Nat
    BY <1>2, CreditAre
  <2> QED BY <1>5, <2>1, <2>2, <2>3
<1>7. ASSUME NEW k \in Ids, k # i
      PROVE  Terminal(k, channels[k], streams[k], down, up \o v, windows, i + 1, hello, session)
  <2>1. Terminal(k, channels[k], streams[k], down, up, windows, i, hello, session)
    BY DEF LanesInv, Whole
  <2>2. k >= i + 1 => k >= i
    BY <1>2 DEF Ids
  <2>3. Terminal(k, channels[k], streams[k], down, up, windows, i + 1, hello, session)
    BY <2>1, <2>2 DEF Terminal, Unused
  <2>4. \A j \in DOMAIN v : ~ForThe(v[j], k, "opened") /\ ~ForThe(v[j], k, "credit") /\ v[j].id # k
    BY <1>4, <1>5, <1>7 DEF ForThe
  <2>5. CreditTo(up \o v, k, hello) = CreditTo(up, k, hello)
    BY <1>6
  <2> HIDE DEF i
  <2> QED BY <1>5, <2>3, <2>4, <2>5, SayTerminal
<1>8. Terminal(i, channels[i], t, down, up \o v, windows, i + 1, hello, session)
  <2>1. Terminal(i, channels[i], streams[i], down, up, windows, i, hello, session)
    BY <1>2 DEF LanesInv, Whole
  <2>2. Untouched(i, channels[i], streams[i], down, up) /\ i \notin windows /\ \A j \in DOMAIN up : up[j].id # i
    BY <1>2, <2>1 DEF Terminal, Unused
  <2>3. BytesTo(down, i) = 0
    BY <1>2, <2>2, BytesNone DEF Untouched
  <2>4. Books(i, channels[i], t, down, up \o v, hello, session)
    BY <1>2, <1>3, <2>2, <2>3, StreamLaneAssumption DEF Books, Untouched
  <2>5. \A j \in DOMAIN (up \o v) : (j \in DOMAIN up /\ (up \o v)[j] = up[j]) \/ (j = Len(up) + 1 /\ (up \o v)[j] = m)
    <3> SUFFICES ASSUME NEW j \in DOMAIN (up \o v)
                 PROVE  (j \in DOMAIN up /\ (up \o v)[j] = up[j]) \/ (j = Len(up) + 1 /\ (up \o v)[j] = m)
      OBVIOUS
    <3>1. CASE j \in DOMAIN up
      BY <1>2, <1>5, <3>1, SayShift
    <3>2. CASE j - Len(up) \in DOMAIN v /\ (up \o v)[j] = v[j - Len(up)]
      <4>1. j - Len(up) = 1 /\ j \in Nat /\ Len(up) \in Nat
        <5>1. \A k \in DOMAIN v : k = 1
          BY DEF v
        <5> QED BY <1>2, <1>5, <3>2, <5>1, SayShift
      <4> QED BY <1>5, <3>2, <4>1
    <3> QED BY <1>2, <1>5, <3>1, <3>2, SayShift
  <2>6. \A j \in DOMAIN (up \o v) : ForThe((up \o v)[j], i, "opened") => j = Len(up) + 1
    BY <2>2, <2>5 DEF ForThe
  <2>7. Untouched(i, channels[i], t, down, up \o v)
    BY <1>3, <1>4, <2>2, <2>5 DEF Untouched, ForThe
  <2>8. Unused(i, channels[i], t, down, up \o v, windows, i + 1)
    <3>1. ~(i >= i + 1) /\ ~channels[i].open
      BY <1>2, <2>2 DEF Untouched
    <3> QED BY <2>2, <2>6, <2>7, <3>1 DEF Unused
  <2>9. Shown(i, t, up \o v, windows, hello, session)
    BY <1>3 DEF Shown
  <2> QED BY <2>4, <2>8, <2>9 DEF Terminal
<1>9. up \o v \in Seq(Notes) /\ \A j \in DOMAIN (up \o v) : (up \o v)[j].epoch <= session
  <2>1. \A k \in DOMAIN v : v[k].epoch <= session
    BY <1>2, <1>4, <1>5
  <2> QED BY <1>5, <2>1, SaysNotes
<1>10. streams' \in [Ids -> Streams] /\ streams'[i] = t /\ \A k \in Ids : k # i => streams'[k] = streams[k]
  BY <1>1, <1>2, <1>3
<1> DEFINE n == i + 1
           u == up \o v
<1>11. \A k \in Ids : Terminal(k, channels[k], streams'[k], down, u, windows, n, hello, session)
  BY <1>7, <1>8, <1>10
<1>12. n \in Nat \ {0}
  BY <1>2
<1> HIDE DEF n, u, i, t
<1>13. Whole(hello, session, n, windows, linkInFlight, channels, streams', down, u)
  BY <1>9, <1>10, <1>11, <1>12 DEF LanesInv, Whole, u
<1> QED BY <1>1, <1>13 DEF LanesInv, n, u, pageVars

\* A stream goes and the page is told.
LEMMA DropKeeps ==
  ASSUME LanesInv, NEW i \in Ids, streams[i].used, Drop(i), NEW q \in Seq(Bursts),
         \A k \in Ids : BytesTo(q, k) = BytesTo(down, k) \/ k = i,
         \A k \in Ids : (\A j \in DOMAIN down : down[j].id # k) => \A j \in DOMAIN q : q[j].id # k
  PROVE  Whole(hello, session, next_stream_id, windows, linkInFlight, channels, streams', q, up')
<1> DEFINE m == Note("closed", i, 0)
           v == <<m>>
           u == up \o v
<1>1. streams' = [streams EXCEPT ![i] = Free] /\ up' = u
  BY DEF Drop, Say
<1>2. session \in Nat /\ up \in Seq(Notes) /\ down \in Seq(Bursts) /\ streams \in [Ids -> Streams]
  BY DEF LanesInv, Whole
<1>3. m = [kind |-> "closed", id |-> i, bytes |-> 0, epoch |-> session] /\ m \in Notes
  BY <1>2 DEF Note, Notes
<1>4. m.kind = "closed" /\ m.id = i /\ m.epoch = session
  BY <1>3
<1> HIDE DEF m
<1>5. v \in Seq(Notes) /\ 1 \in DOMAIN v /\ \A j \in DOMAIN v : v[j] = m
  BY <1>3
<1> HIDE DEF v
<1>6. Terminal(i, channels[i], Free, down, u, windows, next_stream_id, hello, session)
  <2>1. v[1] = [kind |-> "closed", id |-> i, bytes |-> 0, epoch |-> session]
    BY <1>3, <1>5
  <2>2. \A j \in DOMAIN v : v[j].kind = "closed" /\ v[j].id = i
    BY <1>4, <1>5
  <2> QED BY <1>5, <2>1, <2>2, FreeTerminal
<1>7. ASSUME NEW k \in Ids, k # i
      PROVE  Terminal(k, channels[k], streams[k], down, u, windows, next_stream_id, hello, session)
  <2>1. Terminal(k, channels[k], streams[k], down, up, windows, next_stream_id, hello, session)
    BY DEF LanesInv, Whole
  <2>2. Repays(m, k, hello) = 0
    BY <1>4 DEF Repays
  <2>3. CreditTo(u, k, hello) = CreditTo(up, k, hello) + Repays(v[1], k, hello)
    BY <1>2, <1>5, <2>2, CreditSay
  <2>4. CreditTo(up, k, hello) \in Nat
    BY <1>2, CreditAre
  <2>5. CreditTo(u, k, hello) = CreditTo(up, k, hello)
    BY <1>5, <2>2, <2>3, <2>4
  <2>6. \A j \in DOMAIN v : ~ForThe(v[j], k, "opened") /\ ~ForThe(v[j], k, "credit") /\ v[j].id # k
    BY <1>4, <1>5, <1>7 DEF ForThe
  <2> QED BY <1>5, <2>1, <2>5, <2>6, SayTerminal
<1>8. u \in Seq(Notes) /\ \A j \in DOMAIN u : u[j].epoch <= session
  <2>1. \A k \in DOMAIN v : v[k].epoch <= session
    BY <1>2, <1>4, <1>5
  <2> QED BY <1>5, <2>1, SaysNotes
<1>9. streams' \in [Ids -> Streams] /\ streams'[i] = Free /\ \A k \in Ids : k # i => streams'[k] = streams[k]
  BY <1>1, <1>2 DEF Free, Streams
<1> HIDE DEF u
<1>10. ASSUME NEW k \in Ids
       PROVE  Terminal(k, channels[k], streams'[k], q, u, windows, next_stream_id, hello, session)
  <2>1. CASE k = i
    <3>1. Books(i, channels[i], Free, q, u, hello, session)
      BY <1>6 DEF Terminal, Books, Free
    <3>2. Untouched(i, channels[i], Free, down, u) => Untouched(i, channels[i], Free, q, u)
      BY DEF Untouched
    <3>3. Unused(i, channels[i], Free, q, u, windows, next_stream_id)
      BY <1>6, <3>2 DEF Terminal, Unused
    <3> QED BY <1>6, <1>9, <2>1, <3>1, <3>3 DEF Terminal
  <2>2. CASE k # i
    BY <1>7, <1>9, <2>2, LineElsewhere
  <2> QED BY <2>1, <2>2
<1> QED BY <1>1, <1>8, <1>9, <1>10 DEF LanesInv, Whole

LEMMA HangUpKeeps == ASSUME LanesInv, NEW i \in Ids, HangUp(i) PROVE LanesInv'
<1>1. down \in Seq(Bursts)
  BY DEF LanesInv, Whole
<1>2. Whole(hello, session, next_stream_id, windows, linkInFlight, channels, streams', down, up')
  BY <1>1, DropKeeps DEF HangUp
<1> QED BY <1>2 DEF HangUp, LanesInv, pageVars

LEMMA BytesInKeeps == ASSUME LanesInv, BytesIn PROVE LanesInv'
<1> DEFINE i == Head(down).id
           n == Head(down).bytes
           q == Tail(down)
<1>1. /\ down # <<>> /\ down' = q /\ UNCHANGED <<pageVars, session, next_stream_id>>
      /\ \/ ~streams[i].used /\ UNCHANGED <<streams, up>>
         \/ streams[i].used /\ Drop(i)
         \/ streams[i].used /\ streams' = [streams EXCEPT ![i].to_pty = @ + n] /\ UNCHANGED up
  BY DEF BytesIn
<1>2. down \in Seq(Bursts) /\ streams \in [Ids -> Streams] /\ up \in Seq(Notes)
  BY DEF LanesInv, Whole
<1>3. Head(down) \in Bursts /\ q \in Seq(Bursts) /\ 1 \in DOMAIN down /\ down[1].id = i
  BY <1>1, <1>2
<1>4. i \in Ids /\ n \in Nat
  BY <1>3 DEF Bursts
<1>5. \A k : BytesTo(down, k) = BytesTo(q, k) + Weighs(Head(down), k)
  BY <1>1, <1>2, BytesTail
<1>6. Weighs(Head(down), i) = n /\ \A k : k # i => Weighs(Head(down), k) = 0
  BY DEF Weighs
<1> HIDE DEF q
<1>7. \A k : BytesTo(q, k) \in Nat /\ BytesTo(down, k) \in Nat
  BY <1>2, <1>3, BytesAre
<1>8. \A k \in Ids : (\A j \in DOMAIN down : down[j].id # k) => \A j \in DOMAIN q : q[j].id # k
  BY <1>1, <1>2, TailShift DEF q
<1>9. \A k \in Ids : k # i => BytesTo(q, k) = BytesTo(down, k)
  BY <1>5, <1>6, <1>7
<1>10. BytesTo(down, i) = BytesTo(q, i) + n
  BY <1>5, <1>6
<1> HIDE DEF i, n
<1>11. ASSUME NEW k \in Ids, k # i
       PROVE  Terminal(k, channels[k], streams[k], q, up, windows, next_stream_id, hello, session)
  <2>1. Terminal(k, channels[k], streams[k], down, up, windows, next_stream_id, hello, session)
    BY DEF LanesInv, Whole
  <2> QED BY <1>8, <1>9, <1>11, <2>1, LineElsewhere
<1>12. Terminal(i, channels[i], streams[i], down, up, windows, next_stream_id, hello, session)
  BY <1>4 DEF LanesInv, Whole
<1>13. CASE ~streams[i].used /\ UNCHANGED <<streams, up>>
  <2>1. Books(i, channels[i], streams[i], q, up, hello, session)
    BY <1>12, <1>13 DEF Terminal, Books
  <2>2. Untouched(i, channels[i], streams[i], down, up) => Untouched(i, channels[i], streams[i], q, up)
    BY <1>4, <1>8 DEF Untouched
  <2>3. Terminal(i, channels[i], streams[i], q, up, windows, next_stream_id, hello, session)
    BY <1>12, <2>1, <2>2 DEF Terminal, Unused
  <2>4. \A k \in Ids : Terminal(k, channels[k], streams[k], q, up, windows, next_stream_id, hello, session)
    BY <1>11, <2>3
  <2>5. Whole(hello, session, next_stream_id, windows, linkInFlight, channels, streams, q, up)
    BY <1>3, <2>4 DEF LanesInv, Whole
  <2> QED BY <1>1, <1>13, <2>5 DEF LanesInv, pageVars
<1>14. CASE streams[i].used /\ Drop(i)
  <2>1. \A k \in Ids : BytesTo(q, k) = BytesTo(down, k) \/ k = i
    BY <1>9
  <2>2. Whole(hello, session, next_stream_id, windows, linkInFlight, channels, streams', q, up')
    BY <1>3, <1>4, <1>8, <1>14, <2>1, DropKeeps
  <2> QED BY <1>1, <2>2 DEF LanesInv, pageVars
<1>15. CASE streams[i].used /\ streams' = [streams EXCEPT ![i].to_pty = @ + n] /\ UNCHANGED up
  <2> DEFINE t == streams[i]
             r == [t EXCEPT !.to_pty = @ + n]
  <2>1. /\ t \in Streams /\ r \in Streams /\ r.used = t.used /\ r.credit_owed = t.credit_owed
        /\ r.to_pty = t.to_pty + n /\ t.to_pty \in Nat /\ t.credit_owed \in Nat
    BY <1>2, <1>4, SMTT(40) DEF Streams
  <2>2. /\ streams' \in [Ids -> Streams] /\ streams'[i] = r
        /\ \A k \in Ids : k # i => streams'[k] = streams[k]
    BY <1>2, <1>4, <1>15, <2>1
  <2>3. ~Untouched(i, channels[i], t, down, up)
    BY <1>3 DEF Untouched, i
  <2> HIDE DEF r, t
  <2>4. r.to_pty + BytesTo(q, i) = t.to_pty + BytesTo(down, i)
    BY <1>4, <1>7, <1>10, <2>1
  <2>5. BytesTo(q, i) + r.to_pty = BytesTo(down, i) + t.to_pty
    BY <1>4, <1>7, <1>10, <2>1
  <2>6. Books(i, channels[i], r, q, up, hello, session)
    BY <1>12, <2>1, <2>4, <2>5 DEF Terminal, Books, t
  <2>7. Unused(i, channels[i], r, q, up, windows, next_stream_id)
    BY <1>12, <2>3 DEF Terminal, Unused, t
  <2>8. Shown(i, r, up, windows, hello, session)
    BY <1>12, <2>1 DEF Terminal, Shown, t
  <2>9. Terminal(i, channels[i], r, q, up, windows, next_stream_id, hello, session)
    BY <2>6, <2>7, <2>8 DEF Terminal
  <2>10. \A k \in Ids : Terminal(k, channels[k], streams'[k], q, up, windows, next_stream_id, hello, session)
    BY <1>11, <2>2, <2>9
  <2>11. Whole(hello, session, next_stream_id, windows, linkInFlight, channels, streams', q, up)
    BY <1>3, <2>2, <2>10 DEF LanesInv, Whole
  <2> QED BY <1>1, <1>15, <2>11 DEF LanesInv, pageVars
<1> QED BY <1>1, <1>13, <1>14, <1>15

LEMMA LandKeeps == ASSUME LanesInv, NEW i \in Ids, Land(i) PROVE LanesInv'
<1> DEFINE t == streams[i]
<1>0. \E n \in 1 .. t.to_pty : streams' = [streams EXCEPT ![i].to_pty = @ - n, ![i].credit_owed = @ + n]
  BY DEF Land
<1>1. PICK n \in 1 .. t.to_pty : streams' = [streams EXCEPT ![i].to_pty = @ - n, ![i].credit_owed = @ + n]
  BY <1>0
<1> DEFINE r == [t EXCEPT !.to_pty = @ - n, !.credit_owed = @ + n]
<1>2. streams \in [Ids -> Streams] /\ up \in Seq(Notes) /\ down \in Seq(Bursts)
  BY DEF LanesInv, Whole
<1>3. t \in Streams /\ t.to_pty \in Nat /\ t.credit_owed \in Nat /\ n \in Nat \ {0} /\ n <= t.to_pty
  BY <1>2 DEF Streams
<1> DEFINE a == t.to_pty - n
           b == t.credit_owed + n
<1>a. a \in Nat /\ b \in Nat
  BY <1>3
<1>b. r = [t EXCEPT !.to_pty = a, !.credit_owed = b]
  OBVIOUS
<1>c. streams' = [streams EXCEPT ![i].to_pty = a, ![i].credit_owed = b]
  BY <1>1, <1>2
<1>d. a = t.to_pty - n /\ b = t.credit_owed + n
  OBVIOUS
<1> HIDE DEF a, b, r, t
<1>4. r \in Streams /\ r.used = t.used /\ r.to_pty = t.to_pty - n /\ r.credit_owed = t.credit_owed + n
  BY <1>3, <1>a, <1>b, <1>d DEF Streams
<1>5. streams' \in [Ids -> Streams] /\ streams'[i] = r /\ \A k \in Ids : k # i => streams'[k] = streams[k]
  <2> DEFINE mid == [streams EXCEPT ![i].to_pty = a]
             p == [t EXCEPT !.to_pty = a]
  <2>1. mid \in [Ids -> Streams] /\ mid[i] = p /\ p \in Streams /\ \A k \in Ids : k # i => mid[k] = streams[k]
    BY <1>2, <1>3, <1>a DEF Streams, t
  <2>2. r = [p EXCEPT !.credit_owed = b]
    BY <1>3, <1>b DEF Streams
  <2>3. streams' = [mid EXCEPT ![i].credit_owed = b]
    BY <1>c, <1>2
  <2> HIDE DEF mid, p
  <2>4. streams' = [mid EXCEPT ![i] = [p EXCEPT !.credit_owed = b]]
    BY <2>1, <2>3
  <2> QED BY <1>4, <2>1, <2>2, <2>4
<1>6. Terminal(i, channels[i], t, down, up, windows, next_stream_id, hello, session)
  BY DEF LanesInv, Whole, t
<1>7. ~Untouched(i, channels[i], t, down, up)
  BY <1>3 DEF Untouched
<1>8. BytesTo(down, i) \in Nat /\ CreditTo(up, i, hello) \in Nat
  BY <1>2, BytesAre, CreditAre
<1>9. Books(i, channels[i], r, down, up, hello, session)
  <2>1. BytesTo(down, i) + r.to_pty + r.credit_owed = BytesTo(down, i) + t.to_pty + t.credit_owed
    BY <1>3, <1>4, <1>8
  <2>2. channels[i].open => channels[i].inFlight \in Nat
    BY DEF LanesInv, Whole, IsChannel
  <2>3. r.to_pty + BytesTo(down, i) <= t.to_pty + BytesTo(down, i)
    BY <1>3, <1>4, <1>8
  <2>4. t.used => r.to_pty + BytesTo(down, i) <= IF channels[i].open THEN channels[i].inFlight ELSE STREAM_WINDOW
    <3>1. t.used => t.to_pty + BytesTo(down, i) <= IF channels[i].open THEN channels[i].inFlight ELSE STREAM_WINDOW
      BY <1>6 DEF Terminal, Books
    <3> QED BY <1>3, <1>4, <1>8, <2>2, <2>3, <3>1, StreamLaneAssumption
  <2> QED BY <1>4, <1>6, <2>1, <2>4 DEF Terminal, Books
<1>10. Unused(i, channels[i], r, down, up, windows, next_stream_id) /\ Shown(i, r, up, windows, hello, session)
  BY <1>4, <1>6, <1>7 DEF Terminal, Unused, Shown
<1>11. ASSUME NEW k \in Ids PROVE Terminal(k, channels[k], streams'[k], down, up, windows, next_stream_id, hello, session)
  <2>1. Terminal(k, channels[k], streams[k], down, up, windows, next_stream_id, hello, session)
    BY DEF LanesInv, Whole
  <2> QED BY <1>5, <1>6, <1>9, <1>10, <2>1 DEF Terminal
<1>12. Whole(hello, session, next_stream_id, windows, linkInFlight, channels, streams', down, up)
  BY <1>5, <1>11 DEF LanesInv, Whole
<1> QED BY <1>12 DEF Land, LanesInv, pageVars

\* In the order of its numbers each terminal comes up once.
LEMMA OrderCovers ==
  ASSUME NEW S \in SUBSET Nat, IsFiniteSet(S), NEW n \in Nat, n = Cardinality(S), NEW f \in [1 .. n -> S],
         \A j, k \in 1 .. n : j < k => f[j] < f[k]
  PROVE  /\ \A i \in S : \E d \in 1 .. n : f[d] = i
         /\ \A j, k \in 1 .. n : f[j] = f[k] => j = k
<1>1. 1 \in Int /\ n \in Int
  OBVIOUS
<1>2. Cardinality(1 .. n) = n
  BY <1>1, FS_Interval
<1>3. ASSUME NEW j \in 1 .. n, NEW k \in 1 .. n, j # k PROVE f[j] # f[k]
  <2>1. f[j] \in Nat /\ f[k] \in Nat
    OBVIOUS
  <2>2. j < k \/ k < j
    BY <1>3
  <2> QED BY <2>1, <2>2
<1>4. f \in Injection(1 .. n, S)
  BY <1>3 DEF Injection, IsInjective
<1>5. f \in Surjection(1 .. n, S)
  BY <1>2, <1>4, FS_Injection
<1> QED BY <1>3, <1>5 DEF Surjection

LEMMA RunOf == ASSUME NEW S, NEW n \in Nat, NEW v \in [1 .. n -> S] PROVE v \in Seq(S) /\ DOMAIN v = 1 .. n
OBVIOUS

\* The notes of one flush: one for each stream that owes, of what it owes.
Owing == {id \in Used : streams[id].credit_owed > 0}
CreditNotes(order) == [j \in DOMAIN order |-> Note("credit", order[j], streams[order[j]].credit_owed)]

LEMMA FlushSays ==
  ASSUME LanesInv, Owing # {}, NEW n, n = Cardinality(Owing), NEW order \in [1 .. n -> Owing],
         \A j, k \in 1 .. n : j < k => order[j] < order[k]
  PROVE  LET v == CreditNotes(order) IN
         /\ v \in Seq(Notes) /\ 1 \in DOMAIN v
         /\ \A k \in DOMAIN v : v[k].kind = "credit" /\ v[k].epoch = session /\ v[k].id \in Owing
         /\ \A i \in Owing : \E d \in DOMAIN v :
              /\ v[d].id = i /\ v[d].bytes = streams[i].credit_owed
              /\ \A k \in DOMAIN v : k # d => v[k].id # i
<1> DEFINE v == CreditNotes(order)
           owing == Owing
<1>1. session \in Nat /\ streams \in [Ids -> Streams]
  BY DEF LanesInv, Whole
<1>2. owing \in SUBSET Nat /\ owing \subseteq Ids
  BY DEF Used, Ids, Owing
<1>3. IsFiniteSet(owing)
  <2>1. 1 \in Int /\ MaxStream \in Int
    BY StreamLaneAssumption
  <2>2. IsFiniteSet(Ids)
    BY <2>1, FS_Interval DEF Ids
  <2> QED BY <1>2, <2>2, FS_Subset
<1>4. n \in Nat /\ n # 0
  BY <1>3, FS_CardinalityType, FS_EmptySet
<1>6. ASSUME NEW j \in 1 .. n
      PROVE  /\ v[j] \in Notes /\ v[j].kind = "credit" /\ v[j].epoch = session
             /\ v[j].id = order[j] /\ v[j].bytes = streams[order[j]].credit_owed /\ order[j] \in owing
  <2>1. order[j] \in owing /\ order[j] \in Ids /\ streams[order[j]].credit_owed \in Nat
    BY <1>1, <1>2 DEF Streams
  <2>2. v[j] = [kind |-> "credit", id |-> order[j], bytes |-> streams[order[j]].credit_owed, epoch |-> session]
    BY DEF Note, CreditNotes
  <2> QED BY <1>1, <2>1, <2>2 DEF Notes
<1>9. v \in [1 .. n -> Notes] /\ DOMAIN v = 1 .. n
  <2>1. v = [j \in 1 .. n |-> v[j]]
    BY DEF CreditNotes
  <2> QED BY <1>6, <2>1
<1> HIDE DEF v
<1>7. (\A i \in owing : \E d \in 1 .. n : order[d] = i) /\ \A j, k \in 1 .. n : order[j] = order[k] => j = k
  BY <1>2, <1>3, <1>4, OrderCovers
<1> HIDE DEF owing
<1>10. v \in Seq(Notes) /\ 1 \in DOMAIN v
  <2>1. v \in Seq(Notes)
    BY <1>4, <1>9, RunOf
  <2>2. 1 \in 1 .. n
    BY <1>4
  <2> QED BY <1>9, <2>1, <2>2
<1>11. ASSUME NEW i \in owing
       PROVE  \E d \in DOMAIN v : /\ v[d].id = i /\ v[d].bytes = streams[i].credit_owed
                                  /\ \A k \in DOMAIN v : k # d => v[k].id # i
  <2>1. PICK d \in 1 .. n : order[d] = i
    BY <1>7
  <2>2. v[d].id = i /\ v[d].bytes = streams[i].credit_owed
    BY <1>6, <2>1
  <2>3. ASSUME NEW k \in 1 .. n, k # d PROVE v[k].id # i
    BY <1>6, <1>7, <2>1, <2>3
  <2> QED BY <1>9, <2>2, <2>3
<1> QED BY <1>6, <1>9, <1>10, <1>11 DEF v, owing

\* A terminal's books when its credit is flushed, v the notes that are said.
LEMMA FlushBooks ==
  ASSUME LanesInv, NEW i \in Ids, NEW v \in Seq(Notes), NEW t \in Streams,
         t.used = streams[i].used, t.to_pty = streams[i].to_pty, t.credit_owed = 0,
         \/ \A k \in DOMAIN v : v[k].id # i
         \/ streams[i].used /\ \E d \in DOMAIN v :
              /\ v[d].kind = "credit" /\ v[d].epoch = session /\ v[d].id = i /\ v[d].bytes = streams[i].credit_owed
              /\ \A k \in DOMAIN v : k # d => v[k].id # i,
         1 \in DOMAIN v, (\A k \in DOMAIN v : v[k].id # i) => ~streams[i].used \/ streams[i].credit_owed = 0
  PROVE  Books(i, channels[i], t, down, up \o v, hello, session)
<1> DEFINE c == channels[i]
           r == streams[i]
<1>1. /\ up \in Seq(Notes) /\ down \in Seq(Bursts) /\ r \in Streams /\ Books(i, c, r, down, up, hello, session)
      /\ IsChannel(c) /\ session \in Nat /\ hello \in Nat
  BY DEF LanesInv, Whole, Terminal
<1>2. BytesTo(down, i) \in Nat /\ CreditTo(up, i, hello) \in Nat /\ r.to_pty \in Nat /\ r.credit_owed \in Nat
  BY <1>1, BytesAre, CreditAre DEF Streams
<1>3. CASE \A k \in DOMAIN v : v[k].id # i
  <2>1. \A k \in DOMAIN v : Repays(v[k], i, hello) = 0
    BY <1>3 DEF Repays
  <2>2. CreditTo(up \o v, i, hello) = CreditTo(up, i, hello) + Repays(v[1], i, hello)
    BY <1>1, <2>1, CreditSay
  <2>3. CreditTo(up \o v, i, hello) = CreditTo(up, i, hello)
    BY <1>2, <2>1, <2>2
  <2>4. ~r.used \/ r.credit_owed = 0
    BY <1>3
  <2> HIDE DEF r, c
  <2> QED BY <1>1, <2>3, <2>4 DEF Books, r, c
<1>4. CASE r.used /\ \E d \in DOMAIN v :
              /\ v[d].kind = "credit" /\ v[d].epoch = session /\ v[d].id = i /\ v[d].bytes = r.credit_owed
              /\ \A k \in DOMAIN v : k # d => v[k].id # i
  <2>1. PICK d \in DOMAIN v :
              /\ v[d].kind = "credit" /\ v[d].epoch = session /\ v[d].id = i /\ v[d].bytes = r.credit_owed
              /\ \A k \in DOMAIN v : k # d => v[k].id # i
    BY <1>4
  <2>2. \A k \in DOMAIN v : k # d => Repays(v[k], i, hello) = 0
    BY <2>1 DEF Repays
  <2>3. CreditTo(up \o v, i, hello) = CreditTo(up, i, hello) + Repays(v[d], i, hello)
    BY <1>1, <2>2, CreditSay
  <2>4. Repays(v[d], i, hello) = IF session = hello THEN r.credit_owed ELSE 0
    BY <2>1 DEF Repays
  <2> DEFINE b == BytesTo(down, i)
             g == CreditTo(up, i, hello)
             p == r.to_pty
             o == r.credit_owed
             x == c.inFlight
             g2 == CreditTo(up \o v, i, hello)
  <2>5. b \in Nat /\ g \in Nat /\ p \in Nat /\ o \in Nat /\ g2 = g + IF session = hello THEN o ELSE 0
    BY <1>2, <2>3, <2>4
  <2>6. /\ c.open /\ session = hello => x = b + p + o + g
        /\ c.open => g <= x
        /\ p + b <= IF c.open THEN x ELSE STREAM_WINDOW
    BY <1>1, <1>4 DEF Books
  <2>7. t.used /\ t.to_pty = p /\ t.credit_owed = 0 /\ x \in Nat
    BY <1>1, <1>4 DEF IsChannel
  <2> HIDE DEF b, g, p, o, x, g2
  <2>8. /\ c.open /\ session = hello => x = b + p + 0 + g2
        /\ c.open => g2 <= x
    BY <2>5, <2>6, <2>7
  <2> QED BY <2>6, <2>7, <2>8 DEF Books, b, p, x, g2
<1> QED BY <1>3, <1>4

LEMMA FlushKeeps == ASSUME LanesInv, FlushCredits PROVE LanesInv'
<1> DEFINE owing == Owing
           n == Cardinality(owing)
           st == [id \in Ids |-> [streams[id] EXCEPT !.credit_owed = 0]]
<1>1. \E order \in [1 .. n -> owing] :
        (\A j, k \in DOMAIN order : j < k => order[j] < order[k]) /\ Say(CreditNotes(order))
  BY DEF FlushCredits, Owing, CreditNotes
<1>2. PICK order \in [1 .. n -> owing] :
        (\A j, k \in DOMAIN order : j < k => order[j] < order[k]) /\ Say(CreditNotes(order))
  BY <1>1
<1> DEFINE v == CreditNotes(order)
<1>3. owing # {} /\ up' = up \o v /\ streams' = st /\ UNCHANGED <<pageVars, session, next_stream_id, down>>
  BY <1>2 DEF FlushCredits, Say, Owing
<1>4. /\ v \in Seq(Notes) /\ 1 \in DOMAIN v
      /\ \A k \in DOMAIN v : v[k].kind = "credit" /\ v[k].epoch = session /\ v[k].id \in owing
      /\ \A i \in owing : \E d \in DOMAIN v :
           /\ v[d].id = i /\ v[d].bytes = streams[i].credit_owed
           /\ \A k \in DOMAIN v : k # d => v[k].id # i
  <2>1. DOMAIN order = 1 .. n
    OBVIOUS
  <2>2. \A j, k \in 1 .. n : j < k => order[j] < order[k]
    BY <1>2, <2>1
  <2>3. n = Cardinality(Owing) /\ order \in [1 .. n -> Owing] /\ Owing # {}
    BY <1>3
  <2> HIDE DEF n
  <2> QED BY <2>2, <2>3, FlushSays
<1>5. streams \in [Ids -> Streams] /\ session \in Nat /\ up \in Seq(Notes)
  BY DEF LanesInv, Whole
<1>6. /\ st \in [Ids -> Streams]
      /\ \A i \in Ids : st[i] \in Streams /\ st[i].used = streams[i].used /\ st[i].to_pty = streams[i].to_pty /\ st[i].credit_owed = 0
  BY <1>5 DEF Streams
<1>7. \A i : i \in owing <=> i \in Ids /\ streams[i].used /\ streams[i].credit_owed > 0
  BY DEF Used, Owing
<1> HIDE DEF v, st, owing
<1>8. ASSUME NEW i \in Ids PROVE Terminal(i, channels[i], st[i], down, up \o v, windows, next_stream_id, hello, session)
  <2>1. Terminal(i, channels[i], streams[i], down, up, windows, next_stream_id, hello, session)
    BY DEF LanesInv, Whole
  <2> DEFINE t == st[i]
  <2>2. t \in Streams /\ t.used = streams[i].used /\ t.to_pty = streams[i].to_pty /\ t.credit_owed = 0
    BY <1>6
  <2> HIDE DEF t
  <2>3. (\A k \in DOMAIN v : v[k].id # i) => ~streams[i].used \/ streams[i].credit_owed = 0
    <3> SUFFICES ASSUME i \in owing PROVE \E k \in DOMAIN v : v[k].id = i
      BY <1>5, <1>7 DEF Streams
    <3> QED BY <1>4
  <2>4. \/ \A k \in DOMAIN v : v[k].id # i
        \/ streams[i].used /\ \E d \in DOMAIN v :
              /\ v[d].kind = "credit" /\ v[d].epoch = session /\ v[d].id = i /\ v[d].bytes = streams[i].credit_owed
              /\ \A k \in DOMAIN v : k # d => v[k].id # i
    <3>1. CASE i \in owing
      BY <1>4, <1>7, <3>1
    <3>2. CASE i \notin owing
      BY <1>4, <3>2
    <3> QED BY <3>1, <3>2
  <2>5. Books(i, channels[i], t, down, up \o v, hello, session)
    BY <1>4, <2>2, <2>3, <2>4, FlushBooks
  <2>6. i \notin owing => \A k \in DOMAIN v : v[k].id # i
    BY <1>4
  <2>7. Untouched(i, channels[i], streams[i], down, up) => \A k \in DOMAIN v : v[k].id # i
    BY <1>7, <2>6 DEF Untouched
  <2>8. i >= next_stream_id => \A k \in DOMAIN v : v[k].id # i
    BY <1>7, <2>1, <2>6 DEF Terminal, Unused
  <2>9. Unused(i, channels[i], streams[i], down, up \o v, windows, next_stream_id)
    <3>1. \A k \in DOMAIN v : /\ ~ForThe(v[k], i, "opened")
                              /\ Untouched(i, channels[i], streams[i], down, up) => ~ForThe(v[k], i, "credit")
                              /\ i >= next_stream_id => v[k].id # i
      BY <1>4, <2>7, <2>8 DEF ForThe
    <3>2. Unused(i, channels[i], streams[i], down, up, windows, next_stream_id)
      BY <2>1 DEF Terminal
    <3> QED BY <1>4, <1>5, <3>1, <3>2, UnusedSay
  <2>10. Unused(i, channels[i], t, down, up \o v, windows, next_stream_id)
    <3>1. Untouched(i, channels[i], streams[i], down, up \o v) => Untouched(i, channels[i], t, down, up \o v)
      BY <2>2 DEF Untouched
    <3> QED BY <2>2, <2>9, <3>1 DEF Unused
  <2>11. Shown(i, streams[i], up, windows, hello, session)
    BY <2>1 DEF Terminal
  <2>12. \A k \in DOMAIN v : ~ForThe(v[k], i, "opened")
    BY <1>4 DEF ForThe
  <2>13. Shown(i, t, up \o v, windows, hello, session)
    BY <1>4, <1>5, <2>2, <2>11, <2>12, ShownSay
  <2> QED BY <2>5, <2>10, <2>13 DEF Terminal, t
<1> DEFINE u == up \o v
<1>9. u \in Seq(Notes) /\ \A j \in DOMAIN u : u[j].epoch <= session
  <2>1. \A k \in DOMAIN v : v[k].epoch <= session
    BY <1>4, <1>5
  <2> QED BY <1>4, <2>1, SaysNotes
<1> HIDE DEF u
<1>10. \A i \in Ids : Terminal(i, channels[i], st[i], down, u, windows, next_stream_id, hello, session)
  BY <1>8 DEF u
<1>11. Whole(hello, session, next_stream_id, windows, linkInFlight, channels, st, down, u)
  BY <1>6, <1>9, <1>10 DEF LanesInv, Whole
<1> QED BY <1>3, <1>11 DEF LanesInv, u, pageVars

LEMMA LanesStart == Init => LanesInv
<1> SUFFICES ASSUME Init PROVE LanesInv
  OBVIOUS
<1>1. /\ Absent.inFlight = 0 /\ IsChannel(Absent) /\ ~Absent.open
      /\ Free.to_pty = 0 /\ Free.credit_owed = 0 /\ ~Free.used /\ Free \in Streams
  BY NewChannels DEF Absent, Free, Streams
<1>2. /\ \A i \in Ids : channels[i] = Absent /\ streams[i] = Free
      /\ channels = [i \in Ids |-> channels[i]] /\ streams \in [Ids -> Streams]
  BY <1>1 DEF Init
<1>3. windows = {} /\ down = <<>> /\ up = <<>> /\ hello = 0 /\ session = 0 /\ next_stream_id = 1 /\ linkInFlight = 0
  BY DEF Init
<1>4. down \in Seq(Bursts) /\ up \in Seq(Notes) /\ DOMAIN down = {} /\ DOMAIN up = {}
  BY <1>3
<1>5. ASSUME NEW i \in Ids
      PROVE  Terminal(i, channels[i], streams[i], down, up, windows, next_stream_id, hello, session)
  <2>1. ~channels[i].open /\ ~streams[i].used /\ streams[i].to_pty = 0 /\ streams[i].credit_owed = 0
    BY <1>1, <1>2
  <2>2. Books(i, channels[i], streams[i], down, up, hello, session)
    BY <2>1 DEF Books
  <2>3. Untouched(i, channels[i], streams[i], down, up)
    BY <1>4, <2>1 DEF Untouched
  <2>4. i \notin windows
    BY <1>3
  <2>5. Unused(i, channels[i], streams[i], down, up, windows, next_stream_id)
    BY <1>4, <2>1, <2>3, <2>4 DEF Unused
  <2>6. Shown(i, streams[i], up, windows, hello, session)
    BY <1>4, <2>4 DEF Shown
  <2> QED BY <2>2, <2>5, <2>6 DEF Terminal
<1>6. linkInFlight = Sum([i \in Ids |-> channels[i].inFlight])
  <2> DEFINE f == [i \in Ids |-> channels[i].inFlight]
  <2>1. f \in [Ids -> Nat] /\ \A i \in Ids : f[i] = 0
    BY <1>1, <1>2
  <2> HIDE DEF f
  <2>2. Sum(f) = 0
    BY <2>1, SumNothing
  <2> QED BY <1>3, <2>2 DEF f
<1>7. \A i \in Ids : IsChannel(channels[i])
  BY <1>1, <1>2
<1>8. /\ hello \in Nat /\ session \in Nat /\ session <= hello /\ next_stream_id \in Nat \ {0}
      /\ windows \subseteq Ids /\ linkInFlight \in Nat /\ \A j \in DOMAIN up : up[j].epoch <= session
  BY <1>3, <1>4
<1> QED BY <1>2, <1>4, <1>5, <1>6, <1>7, <1>8 DEF LanesInv, Whole

LEMMA LanesKeep == LanesInv /\ [Next]_vars => LanesInv'
<1> SUFFICES ASSUME LanesInv, [Next]_vars PROVE LanesInv'
  OBVIOUS
<1>1. CASE SayHello
  BY <1>1, HelloKeeps
<1>2. CASE PageHears
  BY <1>2, SessionUpKeeps, OpenedKeeps, ClosedKeeps, CreditKeeps, IgnoreKeeps DEF PageHears
<1>3. CASE NewSession \/ Open \/ BytesIn \/ FlushCredits
  BY <1>3, NewSessionKeeps, OpenKeeps, BytesInKeeps, FlushKeeps
<1>4. ASSUME NEW id \in Ids, Mount(id) \/ CloseWindow(id) \/ HangUp(id) \/ Land(id) PROVE LanesInv'
  BY <1>4, MountKeeps, CloseWindowKeeps, HangUpKeeps, LandKeeps
<1>5. ASSUME NEW id \in Ids, NEW n \in Pastes, Send(id, n) PROVE LanesInv'
  BY <1>5, SendKeeps
<1>6. CASE UNCHANGED vars
  BY <1>6 DEF vars, pageVars, rpcdVars, LanesInv
<1> QED BY <1>1, <1>2, <1>3, <1>4, <1>5, <1>6 DEF Next

LEMMA LanesTell == LanesInv => LanesExact
<1> SUFFICES ASSUME LanesInv PROVE LanesExact
  OBVIOUS
<1>1. ASSUME NEW i \in Ids
      PROVE  /\ IsChannel(channels[i]) /\ streams[i] \in Streams /\ BytesTo(down, i) \in Nat
             /\ Books(i, channels[i], streams[i], down, up, hello, session)
             /\ Shown(i, streams[i], up, windows, hello, session)
  <2>1. down \in Seq(Bursts)
    BY DEF LanesInv, Whole
  <2>2. BytesTo(down, i) \in Nat
    BY <2>1, BytesAre
  <2> QED BY <2>2 DEF LanesInv, Whole, Terminal
<1>2. CreditConserved
  <2> SUFFICES ASSUME NEW i \in Ids, channels[i].open, streams[i].used, session = hello
               PROVE  /\ channels[i].window + channels[i].inFlight = STREAM_WINDOW
                      /\ channels[i].inFlight = BytesTo(down, i) + streams[i].to_pty + streams[i].credit_owed
                                                + CreditTo(up, i, hello)
    BY DEF CreditConserved
  <2> QED BY <1>1 DEF IsChannel, Books
<1>3. LinkExact
  BY DEF LinkExact, LanesInv, Whole
<1>4. NeverOverrun
  <2> SUFFICES ASSUME NEW i \in Ids, streams[i].used
               PROVE  streams[i].to_pty + BytesTo(down, i) <= STREAM_WINDOW
    BY DEF NeverOverrun, Used
  <2>1. streams[i].to_pty + BytesTo(down, i) <= IF channels[i].open THEN channels[i].inFlight ELSE STREAM_WINDOW
    BY <1>1 DEF Books
  <2>2. channels[i].open => channels[i].inFlight <= STREAM_WINDOW /\ channels[i].inFlight \in Nat
    BY <1>1, StreamLaneAssumption DEF IsChannel
  <2>3. streams[i].to_pty \in Nat /\ BytesTo(down, i) \in Nat
    BY <1>1 DEF Streams
  <2> QED BY <2>1, <2>2, <2>3, StreamLaneAssumption
<1>5. EveryWindowHasItsStream
  <2> SUFFICES ASSUME session = hello, ~(\E j \in DOMAIN up : up[j].kind = "up" /\ up[j].epoch = hello), NEW i \in windows
               PROVE  streams[i].used \/ \E j \in DOMAIN up : up[j] = Note("closed", i, 0)
    BY DEF EveryWindowHasItsStream
  <2>1. i \in Ids
    BY DEF LanesInv, Whole
  <2>2. streams[i].used \/ ClosedIn(up, i, session, 0)
    BY <1>1, <2>1 DEF Shown
  <2> QED BY <2>2 DEF ClosedIn, Note
<1> QED BY <1>2, <1>3, <1>4, <1>5 DEF LanesExact

\* What a terminal's window, the link and rpcd's buffers say of its bytes agrees
\* through every open, close, credit and change of session, and no window
\* outlives its stream.
THEOREM TerminalsKeepTheirBooks == Spec => []LanesExact
<1>1. Init => LanesInv
  BY LanesStart
<1>2. LanesInv /\ [Next]_vars => LanesInv'
  BY LanesKeep
<1>3. LanesInv => LanesExact
  BY LanesTell
<1> QED BY <1>1, <1>2, <1>3, PTL DEF Spec
=============================================================================
