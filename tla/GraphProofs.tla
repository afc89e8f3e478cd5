----------------------------- MODULE GraphProofs -----------------------------
(***************************************************************************)
(* The inductive invariant of the exploration of a program whose accesses  *)
(* to a word all have one size, and what the operations on a graph do to   *)
(* it.  The module ExplorationProofs puts the operations together.         *)
(***************************************************************************)
EXTENDS ExplorationCorrectness, FiniteSetTheorems, TLAPS

Event == Thread \X (Nat \ {0})
Source == Event \cup {InitPos}

Label ==
    [op : {"R", "W"}, rmw : {"none", "XCHG", "CAS"}, loc : Word,
     bytes : (SUBSET Byte) \ {{}}, val : Int, exp : Int, sync : BOOLEAN,
     pc : Nat, stamp : Nat, rf : Seq(Source \X SUBSET Byte), max : BOOLEAN,
     rev : BOOLEAN, pre : SUBSET Event]

(* The program has one size of access per word. *)
Uniform(p) == \A x \in Word : OneSize(p, x)

(* That size, for every word. *)
Width(p) ==
    [x \in Word |-> CHOOSE b \in SUBSET Byte : \E a \in AccessesTo(p, x) : b = p[a[1]][a[2]].bytes]

-----------------------------------------------------------------------------
(* The inductive invariant of a graph. *)

Enumerates(s, S) == s \in Seq(S) /\ IsInjective(s) /\ Range(s) = S

StoresTo(g, x) == {e \in Pos(g) : g.ev[e].op = "W" /\ g.ev[e].loc = x}

Typed(g) ==
    /\ g = [ev |-> g.ev, co |-> g.co, stamp |-> g.stamp]
    /\ Pos(g) \subseteq Event
    /\ g.ev \in [Pos(g) -> Label]
    /\ g.co \in [Word -> Seq(Event)]
    /\ g.stamp \in Nat \ {0}

(* Threads have no gaps. *)
Contiguous(g) == \A e \in Pos(g) : \A k \in 1..e[2] : <<e[1], k>> \in Pos(g)

(* Stamps number the labels, in an order that extends program order. *)
Stamped(g) ==
    /\ \A e \in Pos(g) : g.ev[e].stamp \in 1..(g.stamp - 1)
    /\ \A e, f \in Pos(g) : g.ev[e].stamp = g.ev[f].stamp => e = f
    /\ \A n \in 1..(g.stamp - 1) : \E e \in Pos(g) : g.ev[e].stamp = n
    /\ \A e, f \in Pos(g) : (e[1] = f[1] /\ e[2] < f[2]) => g.ev[e].stamp < g.ev[f].stamp

(* Coherence lists all the stores but those in D, which a handler has      *)
(* still to place.                                                         *)
CoListsStores(g, D) == \A x \in Word : Enumerates(g.co[x], StoresTo(g, x) \ D)

(* Accesses have the width Z[x] of their word x. *)
Sized(Z, g) == \A e \in Pos(g) : g.ev[e].bytes = Z[g.ev[e].loc]

(* Read r has one rf, a store to its word or the initializer. *)
ReadsOne(g, r) ==
    \E w \in StoresTo(g, g.ev[r].loc) \cup {InitPos} :
        g.ev[r].rf = << <<w, g.ev[r].bytes>> >>

(* Reads have an rf, but for those in D, which a handler has still to set. *)
RfsGiven(g, D) ==
    /\ \A r \in Reads(g) \ D : ReadsOne(g, r)
    /\ \A e \in Pos(g) : g.ev[e].op = "W" => g.ev[e].rf = <<>>

(* A prefix view is closed under program order, and under the reads-from   *)
(* of all of its reads but the last.                                       *)
ViewsClosed(g) ==
    \A e \in Pos(g) :
        /\ e \in g.ev[e].pre
        /\ g.ev[e].pre \subseteq Pos(g)
        /\ \A f \in g.ev[e].pre :
             /\ g.ev[f].pre \subseteq g.ev[e].pre
             /\ \A k \in 1..f[2] : <<f[1], k>> \in g.ev[e].pre
             /\ f # e => RfStores(g, f) \subseteq g.ev[e].pre \cup {InitPos}

(* Nothing that is stamped before n depends on anything stamped later. *)
SettledBefore(g, n) ==
    \A e \in Pos(g) : g.ev[e].stamp < n =>
        \A f \in g.ev[e].pre \cup (RfStores(g, e) \ {InitPos}) : g.ev[f].stamp < n

(* A label that may be revisited, or cut off at, depends on earlier ones   *)
(* only.  The labels of a revisiting store's prefix need not: their stamps *)
(* are not in the order in which they were added, and they are fixed.      *)
CutsClean(g) ==
    \A c \in Pos(g) : g.ev[c].rev =>
        /\ SettledBefore(g, g.ev[c].stamp)
        /\ \A f \in g.ev[c].pre : g.ev[f].stamp <= g.ev[c].stamp

GraphBut(Z, g, D) ==
    /\ Typed(g) /\ Contiguous(g) /\ Stamped(g) /\ CoListsStores(g, D) /\ Sized(Z, g)
    /\ RfsGiven(g, D) /\ ViewsClosed(g) /\ CutsClean(g)

GraphOK(Z, g) == GraphBut(Z, g, {})

-----------------------------------------------------------------------------
(* The inductive invariant of a work item in the queue of graph g. *)

(* The label whose stamp the item has. *)
Owner(q) == IF q.kind = "back" THEN q.rev ELSE q.pos

ReadItemOK(g, q) ==
    /\ g.ev[q.pos].op = "R"
    /\ \E w \in StoresTo(g, g.ev[q.pos].loc) \cup {InitPos} :
         /\ q.rfs = << <<w, g.ev[q.pos].bytes>> >>
         /\ Stamp(g, w) < q.stamp

BackItemOK(g, q) ==
    LET r == q.pos
        s == q.rev
    IN  /\ g.ev[s].op = "W"
        /\ r \in Pos(g) /\ g.ev[r].op = "R" /\ g.ev[r].rev
        /\ g.ev[r].loc = g.ev[s].loc
        /\ g.ev[r].stamp < g.ev[s].stamp
        /\ r \notin g.ev[s].pre
        /\ q.rfs = << <<s, g.ev[r].bytes>> >>
        /\ q.view = ViewFromStamp(g, g.ev[r].stamp) \cup g.ev[s].pre

PlaceItemOK(g, q) ==
    /\ g.ev[q.pos].op = "W"
    /\ q.succ \in Pos(g) /\ g.ev[q.succ].stamp <= q.stamp

ItemOK(g, q) ==
    /\ Owner(q) \in Pos(g) /\ g.ev[Owner(q)].stamp = q.stamp /\ g.ev[Owner(q)].rev
    /\ \/ q.kind = "read" /\ ReadItemOK(g, q)
       \/ q.kind = "back" /\ BackItemOK(g, q)
       \/ q.kind = "mo" /\ PlaceItemOK(g, q)

QueueOK(g, q) == \A k \in DOMAIN q : ItemOK(g, q[k])

-----------------------------------------------------------------------------
(* Sorting and picking. *)

TotalOrder(S, R) ==
    /\ \A x \in S : <<x, x>> \notin R
    /\ \A x, y \in S : x # y => <<x, y>> \in R \/ <<y, x>> \in R
    /\ \A x, y, z \in S : <<x, y>> \in R /\ <<y, z>> \in R => <<x, z>> \in R

Below(S, R, x) == {y \in S : <<y, x>> \in R}

(* The number of elements below x grows strictly with x. *)
LEMMA RankGrows ==
    ASSUME NEW S, NEW R, IsFiniteSet(S), TotalOrder(S, R), NEW x \in S, NEW y \in S,
           <<x, y>> \in R
    PROVE  /\ IsFiniteSet(Below(S, R, x)) /\ IsFiniteSet(Below(S, R, y))
           /\ Cardinality(Below(S, R, x)) < Cardinality(Below(S, R, y))
<1>1. Below(S, R, y) \in SUBSET S /\ Below(S, R, x) \in SUBSET S
  BY DEF Below
<1>2. Below(S, R, x) \in SUBSET Below(S, R, y)
  BY DEF Below, TotalOrder
<1>3. x \in Below(S, R, y) /\ x \notin Below(S, R, x)
  BY DEF Below, TotalOrder
<1>4. IsFiniteSet(Below(S, R, y)) /\ IsFiniteSet(Below(S, R, x))
  BY <1>1, FS_Subset
<1>5. /\ Cardinality(Below(S, R, x)) <= Cardinality(Below(S, R, y))
      /\ Cardinality(Below(S, R, x)) # Cardinality(Below(S, R, y))
  BY <1>2, <1>3, <1>4, FS_Subset
<1>6. Cardinality(Below(S, R, y)) \in Nat /\ Cardinality(Below(S, R, x)) \in Nat
  BY <1>4, FS_CardinalityType
<1> QED
  BY <1>4, <1>5, <1>6

(* Ranks number the elements of S, from 0. *)
LEMMA RanksNumber ==
    ASSUME NEW S, NEW R, IsFiniteSet(S), TotalOrder(S, R)
    PROVE  /\ Cardinality(S) \in Nat
           /\ \A x \in S : Cardinality(Below(S, R, x)) \in 0..(Cardinality(S) - 1)
           /\ \A x, y \in S : Cardinality(Below(S, R, x)) = Cardinality(Below(S, R, y)) => x = y
           /\ \A n \in 0..(Cardinality(S) - 1) : \E x \in S : Cardinality(Below(S, R, x)) = n
<1> DEFINE N == Cardinality(S)
           rank == [x \in S |-> Cardinality(Below(S, R, x))]
<1>1. N \in Nat
  BY FS_CardinalityType
<1>2. ASSUME NEW x \in S
      PROVE  Cardinality(Below(S, R, x)) \in 0..(N - 1)
  <2>1. Below(S, R, x) \in SUBSET S /\ x \notin Below(S, R, x)
    BY DEF Below, TotalOrder
  <2>2. /\ IsFiniteSet(Below(S, R, x)) /\ Cardinality(Below(S, R, x)) <= N
        /\ Cardinality(Below(S, R, x)) # N
    BY <2>1, FS_Subset
  <2>3. Cardinality(Below(S, R, x)) \in Nat
    BY <2>2, FS_CardinalityType
  <2> QED
    BY <1>1, <2>2, <2>3
<1>3. ASSUME NEW x \in S, NEW y \in S,
             Cardinality(Below(S, R, x)) = Cardinality(Below(S, R, y))
      PROVE  x = y
  <2>1. Cardinality(Below(S, R, x)) \in Nat
    BY <1>2
  <2>2. <<x, y>> \notin R /\ <<y, x>> \notin R
    BY <1>3, <2>1, RankGrows
  <2> QED
    BY <2>2 DEF TotalOrder
<1>4. rank \in Injection(S, 0..(N - 1))
  BY <1>2, <1>3 DEF Injection, IsInjective
<1>5. IsFiniteSet(0..(N - 1)) /\ Cardinality(0..(N - 1)) = N
  BY <1>1, FS_Interval
<1>6. rank \in Surjection(S, 0..(N - 1))
  BY <1>4, <1>5, FS_Injection
<1>7. \A n \in 0..(N - 1) : \E x \in S : rank[x] = n
  BY <1>6 DEF Surjection
<1> QED
  BY <1>1, <1>2, <1>3, <1>7

(* Sorted() lists each element of S once. *)
LEMMA SortedEnumerates ==
    ASSUME NEW S, NEW R, IsFiniteSet(S), TotalOrder(S, R)
    PROVE  Enumerates(Sorted(S, R), S) /\ DOMAIN Sorted(S, R) = 1..Cardinality(S)
<1> DEFINE N == Cardinality(S)
<1>1. N \in Nat
  BY FS_CardinalityType
<1>2. ASSUME NEW n \in 1..N
      PROVE  /\ Sorted(S, R)[n] \in S
             /\ Cardinality(Below(S, R, Sorted(S, R)[n])) = n - 1
  <2>1. n - 1 \in 0..(N - 1)
    BY <1>1
  <2>2. \E x \in S : Cardinality(Below(S, R, x)) = n - 1
    BY <2>1, RanksNumber
  <2>3. \E x \in S : Cardinality({y \in S : <<y, x>> \in R}) = n - 1
    BY <2>2 DEF Below
  <2>4. Sorted(S, R)[n] = CHOOSE x \in S : Cardinality({y \in S : <<y, x>> \in R}) = n - 1
    BY DEF Sorted, Nth
  <2>5. /\ Sorted(S, R)[n] \in S
        /\ Cardinality({y \in S : <<y, Sorted(S, R)[n]>> \in R}) = n - 1
    BY <2>3, <2>4, Zenon
  <2> QED
    BY <2>5 DEF Below
<1>3. DOMAIN Sorted(S, R) = 1..N /\ Sorted(S, R) = [n \in 1..N |-> Sorted(S, R)[n]]
  BY DEF Sorted
<1>4. Sorted(S, R) \in Seq(S)
  BY <1>1, <1>2, <1>3
<1>5. IsInjective(Sorted(S, R))
  <2> SUFFICES ASSUME NEW a \in 1..N, NEW b \in 1..N, Sorted(S, R)[a] = Sorted(S, R)[b]
               PROVE  a = b
    BY <1>3 DEF IsInjective
  <2>1. a - 1 = b - 1
    BY <1>2
  <2> QED
    BY <2>1
<1>6. ASSUME NEW x \in S
      PROVE  \E n \in 1..N : Sorted(S, R)[n] = x
  <2>1. Cardinality(Below(S, R, x)) \in 0..(N - 1)
    BY RanksNumber
  <2>2. PICK n \in 1..N : n - 1 = Cardinality(Below(S, R, x))
    <3>1. Cardinality(Below(S, R, x)) + 1 \in 1..N
      BY <2>1, <1>1
    <3> QED
      BY <3>1, <2>1
  <2>3. Sorted(S, R)[n] \in S /\ Cardinality(Below(S, R, Sorted(S, R)[n])) = Cardinality(Below(S, R, x))
    BY <1>2, <2>2
  <2> QED
    BY <2>3, RanksNumber
<1>7. Range(Sorted(S, R)) = S
  BY <1>2, <1>3, <1>6 DEF Range
<1> QED
  BY <1>3, <1>4, <1>5, <1>7 DEF Enumerates

(* Picked() keeps the elements at the indices in I. *)
LEMMA PickedProps ==
    ASSUME NEW T, NEW s \in Seq(T), NEW I \in SUBSET (DOMAIN s)
    PROVE  /\ Picked(s, I) \in Seq(T)
           /\ Range(Picked(s, I)) = {s[k] : k \in I}
           /\ IsInjective(s) => IsInjective(Picked(s, I))
           /\ Len(Picked(s, I)) = Cardinality(I)
<1> DEFINE R == {p \in I \X I : p[1] < p[2]}
           ks == Sorted(I, R)
<1>1. Len(s) \in Nat /\ DOMAIN s = 1..Len(s)
  OBVIOUS
<1>2. IsFiniteSet(1..Len(s))
  BY <1>1, FS_Interval
<1>3. IsFiniteSet(I) /\ Cardinality(I) \in Nat
  BY <1>1, <1>2, FS_Subset, FS_CardinalityType
<1>4. I \subseteq Nat
  BY <1>1
<1>5. TotalOrder(I, R)
  BY <1>4 DEF TotalOrder
<1>6. Enumerates(ks, I) /\ DOMAIN ks = 1..Cardinality(I)
  BY <1>3, <1>5, SortedEnumerates
<1>7. Picked(s, I) = [n \in DOMAIN ks |-> s[ks[n]]]
  BY DEF Picked
<1> HIDE DEF ks, R
<1>8. \A n \in DOMAIN ks : ks[n] \in I
  BY <1>6 DEF Enumerates, Range
<1>9. Picked(s, I) \in Seq(T) /\ Len(Picked(s, I)) = Cardinality(I)
  BY <1>1, <1>3, <1>6, <1>7, <1>8
<1>10. Range(Picked(s, I)) = {s[k] : k \in I}
  BY <1>6, <1>7, <1>8 DEF Enumerates, Range
<1>11. IsInjective(s) => IsInjective(Picked(s, I))
  BY <1>1, <1>6, <1>7, <1>8 DEF Enumerates, IsInjective
<1> QED
  BY <1>9, <1>10, <1>11

-----------------------------------------------------------------------------
(* Sequences that list a set. *)

LEMMA EnumeratesElements ==
    ASSUME NEW s, NEW S, Enumerates(s, S)
    PROVE  /\ s \in Seq(S) /\ Len(s) \in Nat /\ DOMAIN s = 1..Len(s)
           /\ \A k \in DOMAIN s : s[k] \in S
           /\ \A x \in S : \E k \in DOMAIN s : s[k] = x
           /\ \A j, k \in DOMAIN s : s[j] = s[k] => j = k
<1>1. s \in Seq(S)
  BY DEF Enumerates
<1>2. Len(s) \in Nat /\ DOMAIN s = 1..Len(s) /\ \A k \in DOMAIN s : s[k] \in S
  BY <1>1
<1> QED
  BY <1>1, <1>2 DEF Enumerates, Range, IsInjective

(* A sequence enumerates a set if it has every element once. *)
LEMMA EnumeratesIntro ==
    ASSUME NEW S, NEW s \in Seq(S),
           \A x \in S : \E k \in 1..Len(s) : s[k] = x,
           \A j, k \in 1..Len(s) : s[j] = s[k] => j = k
    PROVE  Enumerates(s, S)
<1>1. Len(s) \in Nat /\ DOMAIN s = 1..Len(s) /\ \A k \in DOMAIN s : s[k] \in S
  OBVIOUS
<1> QED
  BY <1>1 DEF Enumerates, Range, IsInjective

(* The type of a sequence follows from its elements. *)
LEMMA SeqOver ==
    ASSUME NEW S, NEW s \in Seq(S), NEW A, \A k \in 1..Len(s) : s[k] \in A
    PROVE  s \in Seq(A)
OBVIOUS

(* The empty list. *)
LEMMA EnumeratesEmpty == Enumerates(<<>>, {})
BY DEF Enumerates, Range, IsInjective

(* A list of one element. *)
LEMMA EnumeratesSingleton ==
    ASSUME NEW x
    PROVE  Enumerates(<<x>>, {x})
BY DEF Enumerates, Range, IsInjective

(* Lists of disjoint sets, one after the other. *)
LEMMA EnumeratesConcat ==
    ASSUME NEW S, NEW T, NEW s, NEW t, Enumerates(s, S), Enumerates(t, T), S \cap T = {}
    PROVE  Enumerates(s \o t, S \cup T)
<1>1. s \in Seq(S) /\ t \in Seq(T) /\ Len(s) \in Nat /\ Len(t) \in Nat
  BY EnumeratesElements
<1>2. s \in Seq(S \cup T) /\ t \in Seq(S \cup T)
  BY <1>1
<1> DEFINE u == s \o t
<1>3. u \in Seq(S \cup T) /\ Len(u) = Len(s) + Len(t)
  BY <1>2
<1>4. /\ \A k \in 1..Len(s) : u[k] = s[k] /\ u[k] \in S
      /\ \A k \in 1..Len(t) : u[Len(s) + k] = t[k] /\ t[k] \in T
  BY <1>1, <1>2
<1> HIDE DEF u
<1>5. ASSUME NEW k \in 1..Len(u), k \notin 1..Len(s)
      PROVE  k - Len(s) \in 1..Len(t) /\ u[k] = t[k - Len(s)] /\ u[k] \in T
  <2>1. k - Len(s) \in 1..Len(t) /\ Len(s) + (k - Len(s)) = k
    BY <1>1, <1>3, <1>5
  <2> QED
    BY <1>4, <2>1
<1>6. \A x \in S \cup T : \E k \in 1..Len(u) : u[k] = x
  <2>1. \A x \in S : \E k \in 1..Len(s) : s[k] = x
    BY EnumeratesElements
  <2>2. \A x \in T : \E k \in 1..Len(t) : t[k] = x
    BY EnumeratesElements
  <2>3. ASSUME NEW x \in S PROVE \E k \in 1..Len(u) : u[k] = x
    <3>1. PICK k \in 1..Len(s) : s[k] = x
      BY <2>1
    <3>2. k \in 1..Len(u) /\ u[k] = x
      BY <1>1, <1>3, <1>4, <3>1
    <3> QED
      BY <3>2
  <2>4. ASSUME NEW x \in T PROVE \E k \in 1..Len(u) : u[k] = x
    <3>1. PICK k \in 1..Len(t) : t[k] = x
      BY <2>2
    <3>2. Len(s) + k \in 1..Len(u) /\ u[Len(s) + k] = x
      BY <1>1, <1>3, <1>4, <3>1
    <3> QED
      BY <3>2
  <2> QED
    BY <2>3, <2>4
<1>7. ASSUME NEW j \in 1..Len(u), NEW k \in 1..Len(u), u[j] = u[k]
      PROVE  j = k
  <2>1. \A a, b \in 1..Len(s) : s[a] = s[b] => a = b
    BY EnumeratesElements
  <2>2. \A a, b \in 1..Len(t) : t[a] = t[b] => a = b
    BY EnumeratesElements
  <2>3. CASE j \in 1..Len(s) /\ k \in 1..Len(s)
    BY <1>4, <1>7, <2>1, <2>3
  <2>4. CASE j \notin 1..Len(s) /\ k \notin 1..Len(s)
    <3>1. j - Len(s) = k - Len(s)
      BY <1>5, <1>7, <2>2, <2>4
    <3> QED
      BY <3>1, <1>1
  <2>5. CASE j \in 1..Len(s) /\ k \notin 1..Len(s)
    BY <1>4, <1>5, <1>7, <2>5
  <2>6. CASE j \notin 1..Len(s) /\ k \in 1..Len(s)
    BY <1>4, <1>5, <1>7, <2>6
  <2> QED
    BY <2>3, <2>4, <2>5, <2>6
<1>8. Enumerates(u, S \cup T)
  BY <1>3, <1>6, <1>7, EnumeratesIntro
<1> QED
  BY <1>8 DEF u

(* What a filter keeps of a list. *)
LEMMA EnumeratesPicked ==
    ASSUME NEW S, NEW s, Enumerates(s, S), NEW I \in SUBSET (DOMAIN s)
    PROVE  Enumerates(Picked(s, I), {s[k] : k \in I})
<1>1. s \in Seq(S) /\ IsInjective(s)
  BY DEF Enumerates
<1>2. /\ Picked(s, I) \in Seq(S) /\ Range(Picked(s, I)) = {s[k] : k \in I}
      /\ IsInjective(Picked(s, I))
  BY <1>1, PickedProps
<1>3. Picked(s, I) \in Seq({s[k] : k \in I})
  <2> DEFINE u == Picked(s, I)
  <2>1. u \in Seq(S) /\ \A k \in 1..Len(u) : u[k] \in Range(u)
    BY <1>2 DEF Range
  <2> HIDE DEF u
  <2>2. u \in Seq(Range(u))
    BY <2>1
  <2> QED
    BY <1>2, <2>2 DEF u
<1> QED
  BY <1>2, <1>3 DEF Enumerates

(* Picking the elements in V keeps the others' order and loses nothing     *)
(* else.                                                                   *)
LEMMA EnumeratesFiltered ==
    ASSUME NEW S, NEW s, Enumerates(s, S), NEW V
    PROVE  Enumerates(Picked(s, {k \in DOMAIN s : s[k] \in V}), S \cap V)
<1> DEFINE I == {k \in DOMAIN s : s[k] \in V}
<1>1. {s[k] : k \in I} = S \cap V
  BY EnumeratesElements
<1> QED
  BY <1>1, EnumeratesPicked

(* Taking one element out of a list. *)
LEMMA EnumeratesRemoved ==
    ASSUME NEW S, NEW s, Enumerates(s, S), NEW w
    PROVE  Enumerates(Picked(s, {k \in DOMAIN s : s[k] # w}), S \ {w})
<1> DEFINE I == {k \in DOMAIN s : s[k] # w}
<1>1. {s[k] : k \in I} = S \ {w}
  BY EnumeratesElements
<1> QED
  BY <1>1, EnumeratesPicked

(* Adding an element at the end. *)
LEMMA EnumeratesAppend ==
    ASSUME NEW S, NEW s, Enumerates(s, S), NEW w, w \notin S
    PROVE  Enumerates(Append(s, w), S \cup {w})
<1>1. Enumerates(s \o <<w>>, S \cup {w})
  BY EnumeratesConcat, EnumeratesSingleton
<1>2. s \in Seq(S \cup {w})
  BY EnumeratesElements
<1>3. Append(s, w) = s \o <<w>>
  BY <1>2
<1> QED
  BY <1>1, <1>3

(* Adding an element at place k. *)
LEMMA EnumeratesInsert ==
    ASSUME NEW S, NEW s, Enumerates(s, S), NEW w, w \notin S, NEW k \in 1..Len(s)
    PROVE  Enumerates(InsertAt(s, k, w), S \cup {w})
<1>1. s \in Seq(S) /\ Len(s) \in Nat /\ DOMAIN s = 1..Len(s) /\ k \in Nat
  BY EnumeratesElements
<1> DEFINE a == SubSeq(s, 1, k - 1)
           b == SubSeq(s, k, Len(s))
           A == {s[j] : j \in 1..(k - 1)}
           B == {s[j] : j \in k..Len(s)}
<1>2. /\ a \in Seq(S) /\ Len(a) = k - 1 /\ \A j \in 1..(k - 1) : a[j] = s[j]
      /\ b \in Seq(S) /\ Len(b) = Len(s) - k + 1
      /\ \A j \in 1..(Len(s) - k + 1) : b[j] = s[k + j - 1]
  BY <1>1
<1> HIDE DEF a, b
<1>3. \A i, j \in 1..Len(s) : s[i] = s[j] => i = j
  BY <1>1, EnumeratesElements
<1>4. Enumerates(a, A)
  <2>1. a \in Seq(A)
    <3>1. \A j \in 1..Len(a) : a[j] \in A
      BY <1>1, <1>2
    <3> HIDE DEF A
    <3> QED
      BY <3>1, <1>2, SeqOver
  <2>2. \A x \in A : \E j \in 1..Len(a) : a[j] = x
    BY <1>1, <1>2
  <2>3. \A i, j \in 1..Len(a) : a[i] = a[j] => i = j
    BY <1>1, <1>2, <1>3
  <2> HIDE DEF A
  <2> QED
    BY <2>1, <2>2, <2>3, EnumeratesIntro
<1>5. Enumerates(b, B)
  <2>0. \A j \in 1..Len(b) : k + j - 1 \in k..Len(s) /\ k + j - 1 \in 1..Len(s)
    BY <1>1, <1>2
  <2>1. b \in Seq(B)
    <3>1. \A j \in 1..Len(b) : b[j] \in B
      BY <2>0, <1>2
    <3> HIDE DEF B
    <3> QED
      BY <3>1, <1>2, SeqOver
  <2>2. ASSUME NEW x \in B PROVE \E j \in 1..Len(b) : b[j] = x
    <3>1. PICK i \in k..Len(s) : x = s[i]
      OBVIOUS
    <3>2. i - k + 1 \in 1..Len(b) /\ k + (i - k + 1) - 1 = i
      BY <1>1, <1>2
    <3> QED
      BY <3>1, <3>2, <1>2
  <2>3. ASSUME NEW i \in 1..Len(b), NEW j \in 1..Len(b), b[i] = b[j]
        PROVE  i = j
    <3>1. b[i] = s[k + i - 1] /\ b[j] = s[k + j - 1]
      BY <1>2
    <3>2. k + i - 1 \in 1..Len(s) /\ k + j - 1 \in 1..Len(s)
      BY <2>0
    <3>3. k + i - 1 = k + j - 1
      BY <2>3, <1>3, <3>1, <3>2
    <3> QED
      BY <3>3, <1>1, <1>2
  <2> HIDE DEF B
  <2> QED
    BY <2>1, <2>2, <2>3, EnumeratesIntro
<1>6. A \cap B = {} /\ A \subseteq S /\ B \subseteq S
  BY <1>1, <1>3
<1>7. A \cup B = S
  <2>1. \A x \in S : \E j \in 1..Len(s) : s[j] = x
    BY <1>1, EnumeratesElements
  <2>2. \A j \in 1..Len(s) : j \in 1..(k - 1) \/ j \in k..Len(s)
    BY <1>1
  <2> QED
    BY <1>6, <2>1, <2>2
<1> HIDE DEF A, B
<1>8. Enumerates(a \o <<w>>, A \cup {w})
  BY <1>4, <1>6, EnumeratesConcat, EnumeratesSingleton
<1>9. Enumerates((a \o <<w>>) \o b, (A \cup {w}) \cup B)
  BY <1>5, <1>6, <1>8, EnumeratesConcat
<1>10. (A \cup {w}) \cup B = S \cup {w}
  BY <1>7
<1> QED
  BY <1>9, <1>10 DEF InsertAt, a, b

(* Adding an element between the places outside I and those in I. *)
LEMMA EnumeratesSplit ==
    ASSUME NEW S, NEW s, Enumerates(s, S), NEW w, w \notin S, NEW I \in SUBSET (DOMAIN s)
    PROVE  Enumerates(Picked(s, (DOMAIN s) \ I) \o <<w>> \o Picked(s, I), S \cup {w})
<1> DEFINE A == {s[k] : k \in (DOMAIN s) \ I}
           B == {s[k] : k \in I}
           a == Picked(s, (DOMAIN s) \ I)
           b == Picked(s, I)
<1>1. Enumerates(a, A) /\ Enumerates(b, B)
  <2>1. (DOMAIN s) \ I \in SUBSET (DOMAIN s)
    OBVIOUS
  <2> QED
    BY <2>1, EnumeratesPicked
<1>2. A \cap B = {} /\ A \cup B = S
  BY EnumeratesElements
<1> HIDE DEF A, B, a, b
<1>3. Enumerates(a \o <<w>>, A \cup {w})
  BY <1>1, <1>2, EnumeratesConcat, EnumeratesSingleton
<1>4. Enumerates((a \o <<w>>) \o b, (A \cup {w}) \cup B)
  BY <1>1, <1>2, <1>3, EnumeratesConcat
<1>5. (A \cup {w}) \cup B = S \cup {w}
  BY <1>2
<1> QED
  BY <1>4, <1>5 DEF a, b

(* SetToSeq lists every element of a finite set once. *)
LEMMA EnumeratesSetToSeq ==
    ASSUME NEW S, IsFiniteSet(S)
    PROVE  Enumerates(SetToSeq(S), S)
<1> DEFINE N == Cardinality(S)
<1>1. N \in Nat /\ ExistsBijection(1..N, S)
  BY FS_CardinalityType
<1>2. PICK f \in [1..N -> S] : IsInjective(f)
  BY <1>1 DEF ExistsBijection, Bijection, Injection
<1>3. SetToSeq(S) \in [1..N -> S] /\ IsInjective(SetToSeq(S))
  BY <1>2, Zenon DEF SetToSeq
<1> DEFINE u == SetToSeq(S)
<1>4. u \in Injection(1..N, S)
  BY <1>3 DEF Injection
<1>5. Cardinality(1..N) = N
  BY <1>1, FS_Interval
<1>6. u \in Surjection(1..N, S)
  BY <1>4, <1>5, FS_Injection
<1> HIDE DEF u
<1>7. u \in Seq(S) /\ DOMAIN u = 1..N
  BY <1>1, <1>3 DEF u
<1>8. Range(u) = S
  BY <1>6, <1>7 DEF Surjection, Range
<1>9. Enumerates(u, S)
  BY <1>3, <1>7, <1>8 DEF Enumerates, u
<1> QED
  BY <1>9 DEF u

-----------------------------------------------------------------------------
(* Positions. *)

(* Stamps number the positions. *)
LEMMA PositionsFinite ==
    ASSUME NEW g, Typed(g), Stamped(g)
    PROVE  IsFiniteSet(Pos(g)) /\ Cardinality(Pos(g)) = g.stamp - 1
<1> DEFINE N == g.stamp - 1
           f == [e \in Pos(g) |-> g.ev[e].stamp]
<1>1. N \in Nat
  BY DEF Typed
<1>2. f \in Injection(Pos(g), 1..N) /\ f \in Surjection(Pos(g), 1..N)
  BY DEF Stamped, Injection, IsInjective, Surjection
<1>3. IsFiniteSet(1..N) /\ Cardinality(1..N) = N
  BY <1>1, FS_Interval, SMTT(30)
<1> QED
  BY <1>2, <1>3, FS_Injection

(* The positions of a thread are those from 1 to its size. *)
LEMMA ThreadPositions ==
    ASSUME NEW g, Typed(g), Stamped(g), Contiguous(g), NEW t \in Thread
    PROVE  /\ Size(g, t) \in Nat
           /\ \A k \in Nat \ {0} : <<t, k>> \in Pos(g) <=> k <= Size(g, t)
<1> DEFINE E == {e \in Pos(g) : e[1] = t}
           n == Size(g, t)
<1>1. IsFiniteSet(E)
  BY PositionsFinite, FS_Subset
<1>2. n = Cardinality(E) /\ n \in Nat
  BY <1>1, FS_CardinalityType DEF Size
<1>3. \A e \in E : e = <<t, e[2]>> /\ e[2] \in Nat \ {0}
  BY DEF Typed, Event
<1>4. ASSUME NEW k \in Nat \ {0}, <<t, k>> \in Pos(g)
      PROVE  k <= n
  <2> DEFINE f == [j \in 1..k |-> <<t, j>>]
  <2>1. \A j \in 1..k : <<t, j>> \in E
    BY <1>4 DEF Contiguous
  <2>2. f \in Injection(1..k, E)
    BY <2>1 DEF Injection, IsInjective
  <2>3. Cardinality(1..k) = k
    BY FS_Interval
  <2> QED
    BY <1>1, <1>2, <2>2, <2>3, FS_Injection
<1>5. ASSUME NEW k \in Nat \ {0}, k <= n
      PROVE  <<t, k>> \in Pos(g)
  <2> SUFFICES ASSUME <<t, k>> \notin Pos(g)
               PROVE  FALSE
    OBVIOUS
  <2>1. \A e \in E : e[2] \in 1..(k - 1)
    <3> SUFFICES ASSUME NEW e \in E, e[2] > k - 1
                 PROVE  FALSE
      BY <1>3
    <3>1. k \in 1..e[2]
      BY <1>3
    <3> QED
      BY <3>1, <1>3 DEF Contiguous
  <2> DEFINE f == [e \in E |-> e[2]]
  <2>2. f \in Injection(E, 1..(k - 1))
    BY <1>3, <2>1 DEF Injection, IsInjective
  <2>3. IsFiniteSet(1..(k - 1)) /\ Cardinality(1..(k - 1)) = k - 1
    BY FS_Interval
  <2>4. n <= k - 1
    BY <1>2, <2>2, <2>3, FS_Injection
  <2> QED
    BY <2>4, <1>2, <1>5
<1> QED
  BY <1>2, <1>4, <1>5

-----------------------------------------------------------------------------
(* Adding a label. *)

LEMMA RfStoresAreStores ==
    ASSUME NEW g, Typed(g), RfsGiven(g, {}), NEW e \in Pos(g),
           NEW w \in RfStores(g, e) \ {InitPos}
    PROVE  w \in Pos(g) /\ g.ev[w].op = "W" /\ g.ev[w].rf = <<>> /\ RfStores(g, w) = {}
<1>1. g.ev[e].op \in {"R", "W"}
  BY DEF Typed, Label
<1>2. PICK k \in DOMAIN g.ev[e].rf : w = g.ev[e].rf[k][1]
  BY DEF RfStores
<1>3. g.ev[e].rf # <<>>
  BY <1>2
<1>4. g.ev[e].op = "R"
  BY <1>1, <1>3 DEF RfsGiven
<1>5. PICK v \in StoresTo(g, g.ev[e].loc) \cup {InitPos} : g.ev[e].rf = << <<v, g.ev[e].bytes>> >>
  BY <1>4 DEF RfsGiven, Reads, ReadsOne
<1>6. w = v
  BY <1>2, <1>5
<1>7. w \in Pos(g) /\ g.ev[w].op = "W"
  BY <1>5, <1>6 DEF StoresTo
<1>8. g.ev[w].rf = <<>>
  BY <1>7 DEF RfsGiven
<1>9. RfStores(g, w) = {}
  BY <1>8 DEF RfStores
<1> QED
  BY <1>7, <1>8, <1>9

(* The position after the labels of a thread. *)
IsNext(g, e) ==
    /\ e \in Event /\ e \notin Pos(g)
    /\ \A k \in 1..(e[2] - 1) : <<e[1], k>> \in Pos(g)

(* P may become the prefix view of a new label at e. *)
ClosedFor(g, e, P) ==
    /\ e \in P /\ P \subseteq Pos(g) \cup {e}
    /\ \A k \in 1..e[2] : <<e[1], k>> \in P
    /\ \A f \in P \ {e} :
         /\ g.ev[f].pre \subseteq P
         /\ \A k \in 1..f[2] : <<f[1], k>> \in P
         /\ RfStores(g, f) \subseteq P \cup {InitPos}

(* The prefix view that a new label gets is closed. *)
LEMMA NewView ==
    ASSUME NEW g, Typed(g), RfsGiven(g, {}), ViewsClosed(g), NEW e, IsNext(g, e)
    PROVE  ClosedFor(g, e, CalcPPoRfBefore(g, e))
<1> DEFINE P == CalcPPoRfBefore(g, e)
           p == Prev(e)
<1>1. e = <<e[1], e[2]>> /\ e[2] \in Nat \ {0} /\ p = <<e[1], e[2] - 1>>
  BY DEF IsNext, Event, Prev
<1>2. CASE p \notin Pos(g)
  <2>1. P = {e}
    BY <1>2 DEF CalcPPoRfBefore
  <2>2. e[2] = 1
    <3>1. e[2] - 1 \notin 1..(e[2] - 1)
      BY <1>1, <1>2 DEF IsNext
    <3> QED
      BY <1>1, <3>1
  <2>3. \A k \in 1..e[2] : <<e[1], k>> = e
    BY <1>1, <2>2
  <2> QED
    BY <2>1, <2>3 DEF ClosedFor
<1>3. CASE p \in Pos(g)
  <2> DEFINE W == RfStores(g, p) \ {InitPos}
  <2>1. P = {e} \cup (g.ev[p].pre \cup UNION {g.ev[w].pre : w \in W})
    BY <1>3 DEF CalcPPoRfBefore
  <2>2. \A w \in W : w \in Pos(g) /\ RfStores(g, w) = {}
    BY <1>3, RfStoresAreStores
  <2> HIDE DEF W
  <2>3. \A f \in P : f = e \/ f \in g.ev[p].pre \/ \E w \in W : f \in g.ev[w].pre
    BY <2>1
  <2>4. /\ g.ev[p].pre \subseteq P
        /\ \A w \in W : g.ev[w].pre \subseteq P
    BY <2>1
  <2> HIDE DEF P
  <2>5. P \subseteq Pos(g) \cup {e}
    BY <1>3, <2>2, <2>3 DEF ViewsClosed
  <2>6. p \in P /\ W \subseteq P
    BY <1>3, <2>2, <2>4 DEF ViewsClosed
  <2>7. ASSUME NEW k \in 1..e[2]
        PROVE  <<e[1], k>> \in P
    <3>1. CASE k = e[2]
      BY <1>1, <2>1, <3>1
    <3>2. CASE k # e[2]
      <4>1. k \in 1..p[2] /\ p[1] = e[1]
        BY <1>1, <3>2
      <4>2. <<p[1], k>> \in g.ev[p].pre
        BY <1>3, <4>1 DEF ViewsClosed
      <4> QED
        BY <2>4, <4>1, <4>2
    <3> QED
      BY <3>1, <3>2
  <2>8. ASSUME NEW f \in P \ {e}
        PROVE  /\ g.ev[f].pre \subseteq P
               /\ \A k \in 1..f[2] : <<f[1], k>> \in P
               /\ RfStores(g, f) \subseteq P \cup {InitPos}
    <3>1. CASE f \in g.ev[p].pre
      <4>1. /\ g.ev[f].pre \subseteq g.ev[p].pre
            /\ \A k \in 1..f[2] : <<f[1], k>> \in g.ev[p].pre
            /\ f # p => RfStores(g, f) \subseteq g.ev[p].pre \cup {InitPos}
        BY <1>3, <3>1 DEF ViewsClosed
      <4>2. f = p => RfStores(g, f) \subseteq P \cup {InitPos}
        BY <2>6 DEF W
      <4> QED
        BY <2>4, <4>1, <4>2
    <3>2. CASE \E w \in W : f \in g.ev[w].pre
      <4>1. PICK w \in W : f \in g.ev[w].pre
        BY <3>2
      <4>2. w \in Pos(g) /\ RfStores(g, w) = {}
        BY <2>2
      <4>3. /\ g.ev[f].pre \subseteq g.ev[w].pre
            /\ \A k \in 1..f[2] : <<f[1], k>> \in g.ev[w].pre
            /\ f # w => RfStores(g, f) \subseteq g.ev[w].pre \cup {InitPos}
        BY <4>1, <4>2 DEF ViewsClosed
      <4> QED
        BY <2>4, <4>2, <4>3
    <3> QED
      BY <2>3, <3>1, <3>2
  <2>9. e \in P
    BY <2>1
  <2>10. ClosedFor(g, e, P)
    BY <2>5, <2>7, <2>8, <2>9 DEF ClosedFor
  <2> QED
    BY <2>10 DEF P
<1> QED
  BY <1>2, <1>3

(* What addLabelToGraph() changes. *)
LEMMA AddLabelShape ==
    ASSUME NEW g, Typed(g), NEW e \in Event, NEW lab \in Label,
           NEW P, P = CalcPPoRfBefore(g, e), P \subseteq Event,
           NEW h, h = AddLabelToGraph(g, e, lab)
    PROVE  /\ Typed(h) /\ Pos(h) = Pos(g) \cup {e} /\ h.co = g.co /\ h.stamp = g.stamp + 1
           /\ \A f \in Pos(g) \ {e} : h.ev[f] = g.ev[f]
           /\ h.ev[e].op = lab.op /\ h.ev[e].loc = lab.loc /\ h.ev[e].bytes = lab.bytes
           /\ h.ev[e].rmw = lab.rmw /\ h.ev[e].rev = lab.rev /\ h.ev[e].rf = lab.rf
           /\ h.ev[e].stamp = g.stamp /\ h.ev[e].pre = P
<1>1. PICK l : l = [lab EXCEPT !.pre = P]
  OBVIOUS
<1>2. PICK m : m = [l EXCEPT !.stamp = g.stamp]
  OBVIOUS
<1>3. /\ m \in Label /\ m.op = lab.op /\ m.loc = lab.loc /\ m.bytes = lab.bytes
      /\ m.rmw = lab.rmw /\ m.rev = lab.rev /\ m.rf = lab.rf
      /\ m.stamp = g.stamp /\ m.pre = P
  <2>1. g.stamp \in Nat /\ P \in SUBSET Event
    BY DEF Typed
  <2>2. /\ l \in Label /\ l.op = lab.op /\ l.loc = lab.loc /\ l.bytes = lab.bytes
        /\ l.rmw = lab.rmw /\ l.rev = lab.rev /\ l.rf = lab.rf /\ l.pre = P
    BY <1>1, <2>1 DEF Label
  <2> QED
    BY <1>2, <2>1, <2>2 DEF Label
<1>4. PICK ev : ev = [f \in Pos(g) \cup {e} |-> IF f = e THEN m ELSE g.ev[f]]
  OBVIOUS
<1>5. h = [g EXCEPT !.ev = ev, !.stamp = g.stamp + 1]
  BY <1>1, <1>2, <1>4 DEF AddLabelToGraph, AddLabel
<1>6. h = [ev |-> ev, co |-> g.co, stamp |-> g.stamp + 1]
  BY <1>5 DEF Typed
<1>7. /\ h.ev = ev /\ h.co = g.co /\ h.stamp = g.stamp + 1
      /\ h = [ev |-> h.ev, co |-> h.co, stamp |-> h.stamp]
  BY <1>6
<1>8. Pos(h) = Pos(g) \cup {e} /\ h.ev[e] = m /\ \A f \in Pos(g) \ {e} : h.ev[f] = g.ev[f]
  BY <1>4, <1>7 DEF Pos
<1>9. h.ev \in [Pos(h) -> Label]
  <2>1. \A f \in Pos(g) : g.ev[f] \in Label
    BY DEF Typed
  <2> QED
    BY <1>3, <1>4, <1>7, <1>8, <2>1
<1>10. Typed(h)
  BY <1>7, <1>8, <1>9 DEF Typed
<1> QED
  BY <1>3, <1>7, <1>8, <1>10

(* A label that is about to join the graph. *)
IsFresh(Z, lab) ==
    lab \in Label /\ lab.bytes = Z[lab.loc] /\ lab.rf = <<>> /\ lab.rev

(* h is g with label lab added at e, which nothing depends on yet. *)
Added(Z, g, h, e, lab) ==
    /\ GraphBut(Z, h, {e})
    /\ Pos(h) = Pos(g) \cup {e} /\ h.co = g.co /\ h.stamp = g.stamp + 1
    /\ \A f \in Pos(g) : h.ev[f] = g.ev[f]
    /\ h.ev[e].op = lab.op /\ h.ev[e].loc = lab.loc /\ h.ev[e].bytes = lab.bytes
    /\ h.ev[e].rev /\ h.ev[e].stamp = g.stamp /\ h.ev[e].rmw = lab.rmw
    /\ \A f \in Pos(g) : e \notin g.ev[f].pre

(* A new label leaves the graph well formed, up to its own rf or place in  *)
(* coherence.                                                              *)
LEMMA AddLabelOK ==
    ASSUME NEW Z, NEW g, GraphOK(Z, g), NEW e, IsNext(g, e), NEW lab, IsFresh(Z, lab),
           NEW h, h = AddLabelToGraph(g, e, lab)
    PROVE  Added(Z, g, h, e, lab)
<1> DEFINE P == CalcPPoRfBefore(g, e)
<1>1. /\ Typed(g) /\ Contiguous(g) /\ Stamped(g) /\ CoListsStores(g, {}) /\ Sized(Z, g)
      /\ RfsGiven(g, {}) /\ ViewsClosed(g) /\ CutsClean(g)
  BY DEF GraphOK, GraphBut
<1>2. e \in Event /\ e \notin Pos(g) /\ \A k \in 1..(e[2] - 1) : <<e[1], k>> \in Pos(g)
  BY DEF IsNext
<1>3. ClosedFor(g, e, P)
  BY <1>1, NewView
<1>4. P \subseteq Event /\ lab \in Label
  BY <1>1, <1>2, <1>3 DEF ClosedFor, Typed, IsFresh
<1>5. /\ Typed(h) /\ Pos(h) = Pos(g) \cup {e} /\ h.co = g.co /\ h.stamp = g.stamp + 1
      /\ \A f \in Pos(g) \ {e} : h.ev[f] = g.ev[f]
      /\ h.ev[e].op = lab.op /\ h.ev[e].loc = lab.loc /\ h.ev[e].bytes = lab.bytes
      /\ h.ev[e].rmw = lab.rmw /\ h.ev[e].rev = lab.rev /\ h.ev[e].rf = lab.rf
      /\ h.ev[e].stamp = g.stamp /\ h.ev[e].pre = P
  BY <1>1, <1>2, <1>4, AddLabelShape
<1> HIDE DEF P
<1>6. \A f \in Pos(g) : h.ev[f] = g.ev[f]
  BY <1>2, <1>5
<1>7. h.ev[e].rev /\ h.ev[e].rf = <<>> /\ h.ev[e].bytes = Z[h.ev[e].loc]
  BY <1>5 DEF IsFresh
<1>8. \A f \in Pos(g) : e \notin g.ev[f].pre
  BY <1>1, <1>2 DEF ViewsClosed
<1>9. g.stamp \in Nat \ {0} /\ \A f \in Pos(g) : g.ev[f] \in Label
  BY <1>1 DEF Typed
<1>10. RfStores(h, e) = {} /\ \A f \in Pos(g) : RfStores(h, f) = RfStores(g, f)
  BY <1>6, <1>7 DEF RfStores
<1>12. Contiguous(h)
  <2>1. e[2] \in Nat \ {0} /\ e = <<e[1], e[2]>>
    BY <1>2 DEF Event
  <2>2. \A k \in 1..e[2] : k \in 1..(e[2] - 1) \/ <<e[1], k>> = e
    BY <2>1
  <2> QED
    BY <1>1, <1>2, <1>5, <2>2 DEF Contiguous
<1>13. Stamped(h)
  <2>1. \A f \in Pos(g) : h.ev[f].stamp \in 1..(g.stamp - 1)
    BY <1>1, <1>6 DEF Stamped
  <2>2. \A f \in Pos(h) : h.ev[f].stamp \in 1..(h.stamp - 1)
    BY <1>5, <1>9, <2>1
  <2>3. \A d, f \in Pos(h) : h.ev[d].stamp = h.ev[f].stamp => d = f
    BY <1>1, <1>5, <1>6, <1>7, <1>9, <2>1 DEF Stamped
  <2>4. \A n \in 1..(h.stamp - 1) : \E f \in Pos(h) : h.ev[f].stamp = n
    <3> SUFFICES ASSUME NEW n \in 1..(h.stamp - 1), n # g.stamp
                 PROVE  \E f \in Pos(h) : h.ev[f].stamp = n
      BY <1>5, <1>7
    <3>1. n \in 1..(g.stamp - 1)
      BY <1>5, <1>9
    <3> QED
      BY <1>1, <1>5, <1>6, <3>1 DEF Stamped
  <2>5. ASSUME NEW d \in Pos(h), NEW f \in Pos(h), d[1] = f[1], d[2] < f[2]
        PROVE  h.ev[d].stamp < h.ev[f].stamp
    <3>1. CASE d \in Pos(g) /\ f \in Pos(g)
      BY <1>1, <1>6, <2>5, <3>1 DEF Stamped
    <3>2. CASE f = e
      <4>1. d # e
        <5>1. e[2] \in Nat
          BY <1>2 DEF Event
        <5> QED
          BY <5>1, <2>5, <3>2
      <4>2. d \in Pos(g)
        BY <4>1, <1>5
      <4> QED
        BY <1>5, <1>9, <2>1, <3>2, <4>2
    <3>3. CASE d = e /\ f \in Pos(g)
      <4>1. f \in Event /\ e \in Event
        BY <1>1, <1>2, <3>3 DEF Typed
      <4>2. e[2] \in 1..f[2] /\ e = <<f[1], e[2]>>
        BY <4>1, <2>5, <3>3 DEF Event
      <4> QED
        BY <4>2, <1>1, <1>2, <3>3 DEF Contiguous
    <3> QED
      BY <1>5, <3>1, <3>2, <3>3
  <2> QED
    BY <2>2, <2>3, <2>4, <2>5 DEF Stamped
<1>14. CoListsStores(h, {e})
  <2>1. \A x \in Word : StoresTo(h, x) \ {e} = StoresTo(g, x) \ {}
    BY <1>2, <1>5, <1>6 DEF StoresTo
  <2> QED
    BY <1>1, <1>5, <2>1 DEF CoListsStores
<1>15. Sized(Z, h)
  BY <1>1, <1>5, <1>6, <1>7 DEF Sized
<1>16. RfsGiven(h, {e})
  <2>1. \A x : StoresTo(g, x) \subseteq StoresTo(h, x)
    BY <1>5, <1>6 DEF StoresTo
  <2>2. \A f \in Pos(h) : h.ev[f].op = "W" => h.ev[f].rf = <<>>
    BY <1>1, <1>5, <1>6, <1>7 DEF RfsGiven
  <2>3. ASSUME NEW r \in Reads(h) \ {e}
        PROVE  ReadsOne(h, r)
    <3>1. r \in Reads(g) \ {} /\ h.ev[r] = g.ev[r]
      BY <1>5, <1>6 DEF Reads
    <3>2. ReadsOne(g, r)
      BY <1>1, <3>1 DEF RfsGiven
    <3> QED
      BY <2>1, <3>1, <3>2 DEF ReadsOne
  <2> QED
    BY <2>2, <2>3 DEF RfsGiven
<1>17. ViewsClosed(h)
  <2>1. ASSUME NEW d \in Pos(g)
        PROVE  /\ d \in h.ev[d].pre
               /\ h.ev[d].pre \subseteq Pos(h)
               /\ \A f \in h.ev[d].pre :
                    /\ h.ev[f].pre \subseteq h.ev[d].pre
                    /\ \A k \in 1..f[2] : <<f[1], k>> \in h.ev[d].pre
                    /\ f # d => RfStores(h, f) \subseteq h.ev[d].pre \cup {InitPos}
    <3>1. h.ev[d] = g.ev[d] /\ g.ev[d].pre \subseteq Pos(g)
      BY <1>1, <1>6 DEF ViewsClosed
    <3>2. \A f \in g.ev[d].pre : h.ev[f] = g.ev[f] /\ RfStores(h, f) = RfStores(g, f)
      BY <1>6, <1>10, <3>1
    <3> QED
      BY <1>1, <1>5, <3>1, <3>2 DEF ViewsClosed
  <2>2. /\ e \in h.ev[e].pre
        /\ h.ev[e].pre \subseteq Pos(h)
        /\ \A f \in h.ev[e].pre :
             /\ h.ev[f].pre \subseteq h.ev[e].pre
             /\ \A k \in 1..f[2] : <<f[1], k>> \in h.ev[e].pre
             /\ f # e => RfStores(h, f) \subseteq h.ev[e].pre \cup {InitPos}
    <3>1. \A f \in P : f = e \/ f \in Pos(g)
      BY <1>3 DEF ClosedFor
    <3>2. \A f \in P \ {e} : h.ev[f] = g.ev[f] /\ RfStores(h, f) = RfStores(g, f)
      BY <1>6, <1>10, <3>1
    <3> QED
      BY <1>3, <1>5, <1>7, <3>2 DEF ClosedFor
  <2> QED
    BY <1>5, <2>1, <2>2 DEF ViewsClosed
<1>18. CutsClean(h)
  <2>0. \A f \in Pos(g) : g.ev[f].stamp \in 1..(g.stamp - 1)
    BY <1>1 DEF Stamped
  <2>1. ASSUME NEW d \in Pos(g)
        PROVE  \A f \in h.ev[d].pre \cup (RfStores(h, d) \ {InitPos}) :
                 f \in Pos(g) /\ h.ev[f] = g.ev[f]
    <3>1. g.ev[d].pre \subseteq Pos(g)
      BY <1>1 DEF ViewsClosed
    <3>2. \A w \in RfStores(g, d) \ {InitPos} : w \in Pos(g)
      BY <1>1, RfStoresAreStores
    <3> QED
      BY <1>6, <1>10, <3>1, <3>2
  <2>2. ASSUME NEW n \in 1..(g.stamp - 1), SettledBefore(g, n)
        PROVE  SettledBefore(h, n)
    <3> SUFFICES ASSUME NEW d \in Pos(h), h.ev[d].stamp < n,
                        NEW f \in h.ev[d].pre \cup (RfStores(h, d) \ {InitPos})
                 PROVE  h.ev[f].stamp < n
      BY DEF SettledBefore
    <3>1. d \in Pos(g)
      BY <1>5, <1>9
    <3> QED
      BY <1>6, <1>10, <2>1, <2>2, <3>1 DEF SettledBefore
  <2>3. SettledBefore(h, g.stamp)
    <3> SUFFICES ASSUME NEW d \in Pos(h), h.ev[d].stamp < g.stamp,
                        NEW f \in h.ev[d].pre \cup (RfStores(h, d) \ {InitPos})
                 PROVE  h.ev[f].stamp < g.stamp
      BY DEF SettledBefore
    <3>1. d \in Pos(g)
      BY <1>5, <1>9
    <3>2. f \in Pos(g) /\ h.ev[f] = g.ev[f]
      BY <2>1, <3>1
    <3> QED
      BY <1>9, <2>0, <3>2
  <2>4. ASSUME NEW c \in Pos(g), h.ev[c].rev
        PROVE  /\ SettledBefore(h, h.ev[c].stamp)
               /\ \A f \in h.ev[c].pre : h.ev[f].stamp <= h.ev[c].stamp
    <3>1. h.ev[c] = g.ev[c] /\ g.ev[c].rev
      BY <1>6, <2>4
    <3>2. SettledBefore(g, g.ev[c].stamp) /\ \A f \in g.ev[c].pre : g.ev[f].stamp <= g.ev[c].stamp
      BY <1>1, <3>1 DEF CutsClean
    <3> QED
      BY <2>0, <2>1, <2>2, <3>1, <3>2
  <2>5. \A f \in h.ev[e].pre : h.ev[f].stamp <= h.ev[e].stamp
    <3>1. \A f \in P : f = e \/ f \in Pos(g)
      BY <1>3 DEF ClosedFor
    <3> QED
      BY <1>5, <1>6, <1>9, <2>0, <3>1
  <2> QED
    BY <1>5, <1>7, <2>3, <2>4, <2>5 DEF CutsClean
<1> QED
  BY <1>5, <1>6, <1>7, <1>8, <1>12, <1>13, <1>14, <1>15, <1>16, <1>17, <1>18
     DEF GraphBut, Added

-----------------------------------------------------------------------------
(* Setting the rf of a read, and placing a store. *)

SameCore(a, b) ==
    a.op = b.op /\ a.loc = b.loc /\ a.bytes = b.bytes /\ a.rmw = b.rmw /\ a.pre = b.pre

(* h is g with another rf of r, or another max flag. *)
OnlyRfOf(g, h, r) ==
    /\ Typed(h) /\ Pos(h) = Pos(g) /\ h.co = g.co /\ h.stamp = g.stamp
    /\ \A e \in Pos(g) \ {r} : h.ev[e] = g.ev[e]
    /\ SameCore(h.ev[r], g.ev[r])
    /\ h.ev[r].stamp = g.ev[r].stamp /\ h.ev[r].rev = g.ev[r].rev

(* changeRf() changes the rf of one read and nothing else. *)
LEMMA ChangeRfShape ==
    ASSUME NEW g, Typed(g), NEW r \in Pos(g), NEW rfs \in Seq(Source \X SUBSET Byte),
           NEW h, h = ChangeRf(g, r, rfs)
    PROVE  OnlyRfOf(g, h, r) /\ h.ev[r].rf = rfs
<1>0. g.ev[r] \in Label /\ g.ev \in [Pos(g) -> Label]
  BY DEF Typed
<1>1. PICK l : l = [g.ev[r] EXCEPT !.rf = rfs]
  OBVIOUS
<1>2. l \in Label /\ SameCore(l, g.ev[r]) /\ l.stamp = g.ev[r].stamp /\ l.rev = g.ev[r].rev
      /\ l.rf = rfs
  BY <1>0, <1>1 DEF Label, SameCore
<1>3. PICK ev : ev = [g.ev EXCEPT ![r] = l]
  OBVIOUS
<1>4. h = [g EXCEPT !.ev = ev]
  BY <1>1, <1>3 DEF ChangeRf
<1>5. h = [ev |-> ev, co |-> g.co, stamp |-> g.stamp]
  BY <1>4 DEF Typed
<1>6. /\ h.ev = ev /\ h.co = g.co /\ h.stamp = g.stamp
      /\ h = [ev |-> h.ev, co |-> h.co, stamp |-> h.stamp]
  BY <1>5
<1>7. /\ h.ev \in [Pos(g) -> Label] /\ Pos(h) = Pos(g)
      /\ h.ev[r] = l /\ \A e \in Pos(g) \ {r} : h.ev[e] = g.ev[e]
  BY <1>0, <1>2, <1>3, <1>6 DEF Pos
<1>8. Typed(h)
  BY <1>6, <1>7 DEF Typed
<1> QED
  BY <1>2, <1>6, <1>7, <1>8 DEF OnlyRfOf

(* setAddedMax() leaves the rf of the label alone. *)
LEMMA SetMaxShape ==
    ASSUME NEW g, Typed(g), NEW r \in Pos(g), NEW m \in BOOLEAN,
           NEW h, h = [g EXCEPT !.ev[r].max = m]
    PROVE  OnlyRfOf(g, h, r) /\ h.ev[r].rf = g.ev[r].rf
<1>0. g.ev[r] \in Label /\ g.ev \in [Pos(g) -> Label]
  BY DEF Typed
<1>1. PICK l : l = [g.ev[r] EXCEPT !.max = m]
  OBVIOUS
<1>2. l \in Label /\ SameCore(l, g.ev[r]) /\ l.stamp = g.ev[r].stamp /\ l.rev = g.ev[r].rev
      /\ l.rf = g.ev[r].rf
  BY <1>0, <1>1 DEF Label, SameCore
<1>3. PICK ev : ev = [g.ev EXCEPT ![r] = l]
  OBVIOUS
<1>4. h = [g EXCEPT !.ev = ev]
  BY <1>1, <1>3
<1>5. h = [ev |-> ev, co |-> g.co, stamp |-> g.stamp]
  BY <1>4 DEF Typed
<1>6. /\ h.ev = ev /\ h.co = g.co /\ h.stamp = g.stamp
      /\ h = [ev |-> h.ev, co |-> h.co, stamp |-> h.stamp]
  <2>1. PICK k : k = [ev |-> ev, co |-> g.co, stamp |-> g.stamp]
    OBVIOUS
  <2>2. /\ k.ev = ev /\ k.co = g.co /\ k.stamp = g.stamp
        /\ k = [ev |-> k.ev, co |-> k.co, stamp |-> k.stamp]
    BY ONLY <2>1
  <2>3. h = k
    BY <1>5, <2>1, Zenon
  <2> QED
    BY ONLY <2>2, <2>3
<1>7. /\ h.ev \in [Pos(g) -> Label] /\ Pos(h) = Pos(g)
      /\ h.ev[r] = l /\ \A e \in Pos(g) \ {r} : h.ev[e] = g.ev[e]
  BY <1>0, <1>2, <1>3, <1>6 DEF Pos
<1>8. Typed(h)
  BY <1>6, <1>7 DEF Typed
<1> QED
  BY <1>2, <1>6, <1>7, <1>8 DEF OnlyRfOf

(* Two changes of one label's rf are one. *)
LEMMA OnlyRfTransitive ==
    ASSUME NEW f, NEW g, NEW h, NEW r \in Pos(f), OnlyRfOf(f, g, r), OnlyRfOf(g, h, r)
    PROVE  OnlyRfOf(f, h, r)
BY DEF OnlyRfOf, SameCore

(* A read that nothing else depends on yet may get any rf. *)
Unsettled(g, r) ==
    /\ \A e \in Pos(g) \ {r} : r \notin g.ev[e].pre
    /\ \A c \in Pos(g) : g.ev[c].rev => g.ev[c].stamp <= g.ev[r].stamp

(* All but the rf of r is as in g. *)
LEMMA SetRfKeeps ==
    ASSUME NEW Z, NEW g, NEW r \in Reads(g), GraphBut(Z, g, {r}), Unsettled(g, r),
           NEW h, OnlyRfOf(g, h, r)
    PROVE  GraphBut(Z, h, {r}) /\ Unsettled(h, r)
<1>1. /\ Typed(g) /\ Contiguous(g) /\ Stamped(g) /\ CoListsStores(g, {r}) /\ Sized(Z, g)
      /\ RfsGiven(g, {r}) /\ ViewsClosed(g) /\ CutsClean(g)
  BY DEF GraphBut
<1>2. r \in Pos(g) /\ g.ev[r].op = "R"
  BY DEF Reads
<1>3. /\ Typed(h) /\ Pos(h) = Pos(g) /\ h.co = g.co /\ h.stamp = g.stamp
      /\ \A e \in Pos(g) \ {r} : h.ev[e] = g.ev[e]
  BY DEF OnlyRfOf
<1>4. \A e \in Pos(g) : /\ h.ev[e].op = g.ev[e].op /\ h.ev[e].loc = g.ev[e].loc
                        /\ h.ev[e].bytes = g.ev[e].bytes /\ h.ev[e].pre = g.ev[e].pre
                        /\ h.ev[e].stamp = g.ev[e].stamp /\ h.ev[e].rev = g.ev[e].rev
  BY <1>2 DEF OnlyRfOf, SameCore
<1>5. \A e \in Pos(g) \ {r} : RfStores(h, e) = RfStores(g, e)
  BY <1>3 DEF RfStores
<1>6. Contiguous(h) /\ Stamped(h) /\ Sized(Z, h)
  BY <1>1, <1>3, <1>4 DEF Contiguous, Stamped, Sized
<1>7. \A x : StoresTo(h, x) = StoresTo(g, x)
  BY <1>3, <1>4 DEF StoresTo
<1>8. CoListsStores(h, {r})
  BY <1>1, <1>3, <1>7 DEF CoListsStores
<1>9. RfsGiven(h, {r})
  BY <1>1, <1>2, <1>3, <1>4, <1>7 DEF RfsGiven, Reads, ReadsOne
<1>10. ViewsClosed(h)
  <2> SUFFICES ASSUME NEW e \in Pos(g)
               PROVE  /\ e \in h.ev[e].pre
                      /\ h.ev[e].pre \subseteq Pos(h)
                      /\ \A f \in h.ev[e].pre :
                           /\ h.ev[f].pre \subseteq h.ev[e].pre
                           /\ \A k \in 1..f[2] : <<f[1], k>> \in h.ev[e].pre
                           /\ f # e => RfStores(h, f) \subseteq h.ev[e].pre \cup {InitPos}
    BY <1>3 DEF ViewsClosed
  <2>1. h.ev[e].pre = g.ev[e].pre /\ g.ev[e].pre \subseteq Pos(g)
    BY <1>1, <1>4 DEF ViewsClosed
  <2>2. \A f \in g.ev[e].pre : h.ev[f].pre = g.ev[f].pre
    BY <1>4, <2>1
  <2>3. \A f \in g.ev[e].pre : f # e => f # r /\ RfStores(h, f) = RfStores(g, f)
    BY <1>5, <2>1 DEF Unsettled
  <2> QED
    BY <1>1, <1>3, <2>1, <2>2, <2>3 DEF ViewsClosed
<1>11. ASSUME NEW n \in Nat, n <= g.ev[r].stamp, SettledBefore(g, n)
       PROVE  SettledBefore(h, n)
  <2> SUFFICES ASSUME NEW e \in Pos(g), h.ev[e].stamp < n,
                      NEW f \in h.ev[e].pre \cup (RfStores(h, e) \ {InitPos})
               PROVE  h.ev[f].stamp < n
    BY <1>3 DEF SettledBefore
  <2>0. g.ev[r].stamp \in Nat
    BY <1>1, <1>2 DEF Typed, Label
  <2>1. e # r
    BY <1>4, <1>11, <2>0, <1>2
  <2>2. f \in g.ev[e].pre \cup (RfStores(g, e) \ {InitPos}) /\ g.ev[e].stamp < n
    BY <1>4, <1>5, <2>1
  <2>3. f \in Pos(g)
    <3>1. e \in Reads(g) \ {r} \/ g.ev[e].rf = <<>>
      BY <1>1, <2>1 DEF RfsGiven, Reads, Typed, Label
    <3>2. \A v \in RfStores(g, e) \ {InitPos} : v \in Pos(g)
      BY <1>1, <3>1 DEF RfsGiven, ReadsOne, RfStores, StoresTo
    <3> QED
      BY <1>1, <2>2, <3>2 DEF ViewsClosed
  <2> QED
    BY <1>4, <1>11, <2>2, <2>3 DEF SettledBefore
<1>12. CutsClean(h)
  <2> SUFFICES ASSUME NEW c \in Pos(g), g.ev[c].rev
               PROVE  /\ SettledBefore(h, g.ev[c].stamp)
                      /\ \A f \in g.ev[c].pre : h.ev[f].stamp <= g.ev[c].stamp
    BY <1>3, <1>4 DEF CutsClean
  <2>1. /\ SettledBefore(g, g.ev[c].stamp) /\ g.ev[c].pre \subseteq Pos(g)
        /\ \A f \in g.ev[c].pre : g.ev[f].stamp <= g.ev[c].stamp
    BY <1>1 DEF CutsClean, ViewsClosed
  <2>2. g.ev[c].stamp \in Nat /\ g.ev[c].stamp <= g.ev[r].stamp
    BY <1>1 DEF Typed, Label, Unsettled
  <2> QED
    BY <1>4, <1>11, <2>1, <2>2
<1>13. Unsettled(h, r)
  BY <1>2, <1>3, <1>4 DEF Unsettled
<1> QED
  BY <1>3, <1>6, <1>8, <1>9, <1>10, <1>12, <1>13 DEF GraphBut

(* A read whose rf was missing gets a store of its word, or the initial    *)
(* value: the graph is whole again.                                        *)
LEMMA SetRfOK ==
    ASSUME NEW Z, NEW g, NEW r \in Reads(g), GraphBut(Z, g, {r}), Unsettled(g, r),
           NEW w \in StoresTo(g, g.ev[r].loc) \cup {InitPos},
           NEW h, OnlyRfOf(g, h, r), h.ev[r].rf = << <<w, g.ev[r].bytes>> >>
    PROVE  GraphOK(Z, h) /\ Unsettled(h, r)
<1>1. GraphBut(Z, h, {r}) /\ Unsettled(h, r)
  BY SetRfKeeps
<1>2. r \in Pos(g) /\ g.ev[r].op = "R"
  BY DEF Reads
<1>3. /\ Pos(h) = Pos(g) /\ \A e \in Pos(g) \ {r} : h.ev[e] = g.ev[e]
      /\ h.ev[r].op = "R" /\ h.ev[r].loc = g.ev[r].loc /\ h.ev[r].bytes = g.ev[r].bytes
  BY <1>2 DEF OnlyRfOf, SameCore
<1>4. \A x : StoresTo(h, x) = StoresTo(g, x) /\ r \notin StoresTo(h, x)
  BY <1>2, <1>3 DEF StoresTo
<1>5. CoListsStores(h, {})
  <2>1. \A x : StoresTo(h, x) \ {r} = StoresTo(h, x) \ {}
    BY <1>4
  <2> QED
    BY <1>1, <2>1 DEF GraphBut, CoListsStores
<1>6. ReadsOne(h, r)
  BY <1>3, <1>4 DEF ReadsOne
<1>7. RfsGiven(h, {})
  BY <1>1, <1>6 DEF GraphBut, RfsGiven
<1> QED
  BY <1>1, <1>5, <1>7 DEF GraphBut, GraphOK

(* Coherence is the only thing that changes. *)
OnlyCo(g, h) == Typed(h) /\ h.ev = g.ev /\ h.stamp = g.stamp

(* A change of coherence concerns nothing else of the invariant. *)
LEMMA PlaceOK ==
    ASSUME NEW Z, NEW g, NEW D, GraphBut(Z, g, D), \A e \in D : e \in Pos(g) => g.ev[e].op = "W",
           NEW h, OnlyCo(g, h), NEW E, CoListsStores(h, E), \A e \in E : e \in Pos(g) => g.ev[e].op = "W"
    PROVE  GraphBut(Z, h, E)
<1>1. /\ Typed(g) /\ Contiguous(g) /\ Stamped(g) /\ Sized(Z, g)
      /\ RfsGiven(g, D) /\ ViewsClosed(g) /\ CutsClean(g)
  BY DEF GraphBut
<1>2. Typed(h) /\ h.ev = g.ev /\ h.stamp = g.stamp /\ Pos(h) = Pos(g) /\ Reads(h) = Reads(g)
  BY DEF OnlyCo, Pos, Reads
<1>3. /\ \A e : RfStores(h, e) = RfStores(g, e)
      /\ \A x : StoresTo(h, x) = StoresTo(g, x)
      /\ \A n : SettledBefore(h, n) <=> SettledBefore(g, n)
  BY <1>2 DEF RfStores, StoresTo, SettledBefore
<1>4. Contiguous(h) /\ Stamped(h) /\ Sized(Z, h)
  BY <1>1, <1>2 DEF Contiguous, Stamped, Sized
<1>5. RfsGiven(h, E)
  <2>1. \A r \in Reads(g) : r \notin D
    BY DEF Reads
  <2> QED
    BY <1>1, <1>2, <1>3, <2>1 DEF RfsGiven, ReadsOne
<1>6. ViewsClosed(h)
  BY <1>1, <1>2, <1>3 DEF ViewsClosed
<1>7. CutsClean(h)
  BY <1>1, <1>2, <1>3 DEF CutsClean
<1> QED
  BY <1>2, <1>4, <1>5, <1>6, <1>7 DEF GraphBut

WithCo(g, x, seq) == [g EXCEPT !.co[x] = seq]

(* Replacing the coherence list of one word. *)
LEMMA SetCoShape ==
    ASSUME NEW g, Typed(g), NEW x \in Word, NEW seq \in Seq(Event),
           NEW h, h = WithCo(g, x, seq)
    PROVE  /\ OnlyCo(g, h) /\ Pos(h) = Pos(g)
           /\ h.co[x] = seq /\ \A y \in Word \ {x} : h.co[y] = g.co[y]
<1>1. PICK co : co = [g.co EXCEPT ![x] = seq]
  OBVIOUS
<1>2. h = [g EXCEPT !.co = co]
  BY <1>1 DEF WithCo
<1>3. PICK k : k = [ev |-> g.ev, co |-> co, stamp |-> g.stamp]
  OBVIOUS
<1>4. h = k
  BY <1>2, <1>3 DEF Typed
<1>5. /\ k.ev = g.ev /\ k.co = co /\ k.stamp = g.stamp
      /\ k = [ev |-> k.ev, co |-> k.co, stamp |-> k.stamp]
  BY ONLY <1>3
<1>6. g.co \in [Word -> Seq(Event)]
  BY DEF Typed
<1>7. /\ co \in [Word -> Seq(Event)] /\ co[x] = seq
      /\ \A y \in Word \ {x} : co[y] = g.co[y]
  BY ONLY <1>1, <1>6, x \in Word, seq \in Seq(Event)
<1>8. Typed(k) /\ Pos(k) = Pos(g)
  BY ONLY Typed(g), <1>5, <1>7 DEF Typed, Pos
<1>9. /\ OnlyCo(g, k) /\ Pos(k) = Pos(g)
      /\ k.co[x] = seq /\ \A y \in Word \ {x} : k.co[y] = g.co[y]
  BY ONLY <1>5, <1>7, <1>8 DEF OnlyCo
<1> QED
  BY ONLY <1>4, <1>9

(* A list of labels of a graph is a sequence of events. *)
LEMMA EnumeratesEvents ==
    ASSUME NEW g, Typed(g), NEW S \in SUBSET Pos(g), NEW s, Enumerates(s, S)
    PROVE  s \in Seq(Event)
<1>1. s \in Seq(S) /\ \A k \in 1..Len(s) : s[k] \in S
  BY EnumeratesElements
<1>2. S \subseteq Event
  BY DEF Typed
<1> QED
  BY <1>1, <1>2, SeqOver

(* Coherence of one word is set to a list of all of its stores but those   *)
(* in E.                                                                   *)
LEMMA SetCoOK ==
    ASSUME NEW Z, NEW g, NEW D, GraphBut(Z, g, D), NEW E, NEW x \in Word,
           \A e \in D \cup E : e \in Pos(g) => g.ev[e].op = "W" /\ g.ev[e].loc = x,
           NEW seq, Enumerates(seq, StoresTo(g, x) \ E),
           NEW h, h = WithCo(g, x, seq)
    PROVE  GraphBut(Z, h, E) /\ h.ev = g.ev /\ h.stamp = g.stamp
<1>1. Typed(g) /\ CoListsStores(g, D)
  BY DEF GraphBut
<1>2. StoresTo(g, x) \ E \in SUBSET Pos(g)
  BY DEF StoresTo
<1>3. seq \in Seq(Event)
  BY <1>1, <1>2, EnumeratesEvents
<1>4. /\ OnlyCo(g, h) /\ Pos(h) = Pos(g)
      /\ h.co[x] = seq /\ \A y \in Word \ {x} : h.co[y] = g.co[y]
  BY <1>1, <1>3, SetCoShape
<1>5. \A y : StoresTo(h, y) = StoresTo(g, y)
  BY <1>4 DEF StoresTo, OnlyCo
<1>6. \A y \in Word \ {x} : StoresTo(g, y) \ E = StoresTo(g, y) \ D
  BY DEF StoresTo
<1>7. CoListsStores(h, E)
  BY <1>1, <1>4, <1>5, <1>6 DEF CoListsStores
<1>8. GraphBut(Z, h, E)
  <2>1. \A e \in D : e \in Pos(g) => g.ev[e].op = "W"
    OBVIOUS
  <2>2. \A e \in E : e \in Pos(g) => g.ev[e].op = "W"
    OBVIOUS
  <2> QED
    BY ONLY GraphBut(Z, g, D), <2>1, <2>2, <1>4, <1>7, PlaceOK
<1> QED
  BY <1>4, <1>8 DEF OnlyCo

(* addStoreToCO() puts a store that is not listed yet into coherence,      *)
(* wherever its successors are.                                            *)
LEMMA AddStoreOK ==
    ASSUME NEW Z, NEW g, NEW w \in Pos(g), g.ev[w].op = "W", GraphBut(Z, g, {w}),
           NEW succs, NEW h, h = AddStoreToCO(g, w, succs)
    PROVE  GraphOK(Z, h) /\ h.ev = g.ev /\ h.stamp = g.stamp
<1> DEFINE x == g.ev[w].loc
           s == g.co[x]
           I == {i \in 1..Len(s) : succs # <<>> /\ s[i] = Head(succs)}
<1>1. x \in Word
  BY DEF GraphBut, Typed, Label
<1>2. Enumerates(s, StoresTo(g, x) \ {w})
  BY <1>1 DEF GraphBut, CoListsStores
<1>3. w \notin StoresTo(g, x) \ {w} /\ (StoresTo(g, x) \ {w}) \cup {w} = StoresTo(g, x) \ {}
  BY DEF StoresTo
<1>4. PICK k : k = SelectInSeq(s, LAMBDA e : succs # <<>> /\ e = Head(succs))
  OBVIOUS
<1>5. PICK seq : seq = IF k = 0 THEN Append(s, w) ELSE InsertAt(s, k, w)
  OBVIOUS
<1>6. h = WithCo(g, x, seq)
  BY <1>4, <1>5 DEF AddStoreToCO, WithCo
<1>7. Enumerates(seq, StoresTo(g, x) \ {})
  <2>1. CASE I = {}
    <3>1. k = 0
      BY <1>4, <2>1 DEF SelectInSeq
    <3> QED
      BY <1>2, <1>3, <1>5, <3>1, EnumeratesAppend
  <2>2. CASE I # {}
    <3>1. PICK i \in I : TRUE
      BY <2>2
    <3>2. \A j \in I : j = i
      BY <1>2, EnumeratesElements
    <3>3. i \in Nat /\ i <= i /\ i \in 1..Len(s)
      BY <1>2, EnumeratesElements
    <3>4. \E j \in I : \A m \in I : j =< m
      BY <3>2, <3>3
    <3>5. Min(I) \in I
      BY <3>4, Zenon DEF Min
    <3>6. k = Min(I)
      BY <1>4, <2>2 DEF SelectInSeq
    <3>7. k = i
      BY <3>2, <3>5, <3>6, Zenon
    <3>8. k \in 1..Len(s) /\ k # 0
      BY <3>3, <3>7
    <3> QED
      BY <1>2, <1>3, <1>5, <3>8, EnumeratesInsert
  <2> QED
    BY <2>1, <2>2
<1>8. \A e \in {w} \cup {} : e \in Pos(g) => g.ev[e].op = "W" /\ g.ev[e].loc = x
  OBVIOUS
<1> HIDE DEF x
<1>9. GraphBut(Z, h, {}) /\ h.ev = g.ev /\ h.stamp = g.stamp
  <2>1. PICK D, E : D = {w} /\ E = {}
    OBVIOUS
  <2>2. /\ GraphBut(Z, g, D) /\ Enumerates(seq, StoresTo(g, x) \ E)
        /\ \A e \in D \cup E : e \in Pos(g) => g.ev[e].op = "W" /\ g.ev[e].loc = x
    BY <1>7, <1>8, <2>1
  <2>3. GraphBut(Z, h, E) /\ h.ev = g.ev /\ h.stamp = g.stamp
    BY ONLY <1>1, <1>6, <2>2, SetCoOK
  <2> QED
    BY <2>1, <2>3
<1> QED
  BY <1>9 DEF GraphOK

(* What revisitWrite() takes out of coherence is all that is missing from  *)
(* it.                                                                     *)
LEMMA RemoveStoreOK ==
    ASSUME NEW Z, NEW g, NEW w \in Pos(g), g.ev[w].op = "W", GraphOK(Z, g),
           NEW h, h = RemoveStoreFromCO(g, w)
    PROVE  GraphBut(Z, h, {w}) /\ h.ev = g.ev /\ h.stamp = g.stamp
<1> DEFINE x == g.ev[w].loc
           s == g.co[x]
<1>0. GraphBut(Z, g, {})
  BY DEF GraphOK
<1>1. x \in Word /\ g.co \in [Word -> Seq(Event)] /\ g = [ev |-> g.ev, co |-> g.co, stamp |-> g.stamp]
  BY <1>0 DEF GraphBut, Typed, Label
<1>2. Enumerates(s, StoresTo(g, x))
  BY <1>0, <1>1 DEF GraphBut, CoListsStores
<1>3. PICK seq : seq = Picked(s, {k \in DOMAIN s : s[k] # w})
  BY SMTT(30)
<1>4. Enumerates(seq, StoresTo(g, x) \ {w})
  BY <1>2, <1>3, EnumeratesRemoved
<1>5. h = WithCo(g, x, seq)
  BY <1>1, <1>3 DEF RemoveStoreFromCO, WithCo
<1>6. \A e \in {} \cup {w} : e \in Pos(g) => g.ev[e].op = "W" /\ g.ev[e].loc = x
  OBVIOUS
<1> HIDE DEF x
<1>7. PICK D, E : D = {} /\ E = {w}
  OBVIOUS
<1>8. /\ GraphBut(Z, g, D) /\ Enumerates(seq, StoresTo(g, x) \ E)
      /\ \A e \in D \cup E : e \in Pos(g) => g.ev[e].op = "W" /\ g.ev[e].loc = x
  BY <1>0, <1>4, <1>6, <1>7
<1>9. GraphBut(Z, h, E) /\ h.ev = g.ev /\ h.stamp = g.stamp
  <2>1. x \in Word
    BY <1>1
  <2> QED
    BY ONLY <2>1, <1>5, <1>8, SetCoOK
<1> QED
  BY <1>7, <1>9
=============================================================================
