------------------------------ MODULE CutProofs ------------------------------
(***************************************************************************)
(* What cutting and copying a graph leaves: cutToStamp(), copyGraphUpTo(), *)
(* compressStampsAfter() and repairDanglingReads() keep the invariant of a *)
(* graph, up to the rf of the read that is revisited next.                 *)
(***************************************************************************)
EXTENDS GraphProofs

(* View V may be what is left of graph g when the reads in D are revisited.*)
Keepable(g, V, D) ==
    /\ V \subseteq Pos(g)
    /\ \A e \in V : \A k \in 1..e[2] : <<e[1], k>> \in V
    /\ \A e \in V : g.ev[e].pre \subseteq V
    /\ \A e \in V \ D : RfStores(g, e) \subseteq V \cup {InitPos}
    /\ \A e \in V \ D : g.ev[e].pre \cap D = {}

-----------------------------------------------------------------------------
(* Cutting. *)

(* A sequence of at most one element that passes a filter is left alone. *)
LEMMA PickedWhole ==
    ASSUME NEW s, NEW p, s = <<p>> \/ s = <<>>, NEW I, I = DOMAIN s
    PROVE  Picked(s, I) = s
<1>1. CASE s = <<>>
  <2>1. s \in Seq({}) /\ I \in SUBSET (DOMAIN s) /\ I = {}
    BY <1>1
  <2>2. Picked(s, I) \in Seq({}) /\ Len(Picked(s, I)) = Cardinality(I)
    BY <2>1, PickedProps
  <2>3. Cardinality(I) = 0
    BY <2>1, FS_EmptySet
  <2> QED
    BY <1>1, <2>2, <2>3
<1>2. CASE s = <<p>>
  <2>1. s \in Seq({p}) /\ I \in SUBSET (DOMAIN s) /\ I = {1}
    BY <1>2
  <2>2. Picked(s, I) \in Seq({p}) /\ Len(Picked(s, I)) = Cardinality(I)
    BY <2>1, PickedProps
  <2>3. Cardinality(I) = 1
    BY <2>1, FS_Singleton
  <2>4. PICK u : u = Picked(s, I)
    OBVIOUS
  <2>5. u \in Seq({p}) /\ Len(u) = 1
    BY <2>2, <2>3, <2>4
  <2>6. u = <<p>>
    BY ONLY <2>5
  <2> QED
    BY <1>2, <2>4, <2>6
<1> QED
  BY <1>1, <1>2

(* The reads-from of a label that is not in D are one or none. *)
LEMMA RfIsShort ==
    ASSUME NEW g, Typed(g), NEW D, RfsGiven(g, D), NEW e \in Pos(g) \ D
    PROVE  \/ g.ev[e].rf = <<>>
           \/ \E w \in StoresTo(g, g.ev[e].loc) \cup {InitPos} :
                g.ev[e].rf = << <<w, g.ev[e].bytes>> >>
<1>1. g.ev[e].op \in {"R", "W"}
  BY DEF Typed, Label
<1>2. CASE g.ev[e].op = "R"
  BY <1>2 DEF RfsGiven, Reads, ReadsOne
<1>3. CASE g.ev[e].op = "W"
  BY <1>3 DEF RfsGiven
<1> QED
  BY <1>1, <1>2, <1>3

CutRf(rf, V) == Picked(rf, {k \in DOMAIN rf : rf[k][1] \in V \cup {InitPos}})
CutCo(co, V) == [x \in Word |-> Picked(co[x], {k \in DOMAIN co[x] : co[x][k] \in V})]
CutLabel(lab, V) == [lab EXCEPT !.rf = CutRf(lab.rf, V)]
CutLabels(g, V) == [e \in Pos(g) \cap V |-> CutLabel(g.ev[e], V)]

(* Labels that differ in their stamp, rf or flags only. *)
SameButRf(a, b) == SameCore(a, b) /\ a.stamp = b.stamp /\ a.rev = b.rev

(* Cutting a label's rf to the view V. *)
LEMMA CutLabelShape ==
    ASSUME NEW lab \in Label, NEW V, NEW l, l = CutLabel(lab, V)
    PROVE  l \in Label /\ SameButRf(l, lab) /\ l.rf = CutRf(lab.rf, V)
<1>1. lab.rf \in Seq(Source \X SUBSET Byte)
  BY DEF Label
<1>2. PICK rf : rf = CutRf(lab.rf, V)
  OBVIOUS
<1>3. rf \in Seq(Source \X SUBSET Byte)
  <2> DEFINE I == {k \in DOMAIN lab.rf : lab.rf[k][1] \in V \cup {InitPos}}
  <2>1. I \in SUBSET (DOMAIN lab.rf)
    OBVIOUS
  <2>2. rf = Picked(lab.rf, I)
    BY <1>2 DEF CutRf
  <2> HIDE DEF I
  <2> QED
    BY <1>1, <2>1, <2>2, PickedProps
<1>4. l = [lab EXCEPT !.rf = rf]
  BY <1>2 DEF CutLabel
<1>5. l \in Label /\ SameButRf(l, lab) /\ l.rf = rf
  BY ONLY <1>3, <1>4, lab \in Label DEF Label, SameButRf, SameCore
<1> QED
  BY <1>2, <1>5

(* What cutToStamp() and copyGraphUpTo() keep. *)
LEMMA RestrictShape ==
    ASSUME NEW g, NEW D, Typed(g), RfsGiven(g, D), CoListsStores(g, {}),
           NEW V, Keepable(g, V, D), NEW h, h = RestrictTo(g, V)
    PROVE  /\ Typed(h) /\ Pos(h) = V /\ h.stamp = g.stamp
           /\ \A e \in V : SameButRf(h.ev[e], g.ev[e])
           /\ \A e \in V \ D : h.ev[e].rf = g.ev[e].rf
           /\ CoListsStores(h, {})
<1>0. /\ V \subseteq Pos(g) /\ Pos(g) \cap V = V
      /\ \A e \in V \ D : RfStores(g, e) \subseteq V \cup {InitPos}
  BY DEF Keepable
<1>1. PICK ev : ev = CutLabels(g, V)
  OBVIOUS
<1>2. PICK co : co = CutCo(g.co, V)
  OBVIOUS
<1>3. h = [g EXCEPT !.ev = ev, !.co = co]
  BY <1>1, <1>2 DEF RestrictTo, CutLabels, CutLabel, CutRf, CutCo
<1>4. PICK k : k = [ev |-> ev, co |-> co, stamp |-> g.stamp]
  OBVIOUS
<1>5. h = k
  BY <1>3, <1>4 DEF Typed
<1>6. /\ k.ev = ev /\ k.co = co /\ k.stamp = g.stamp
      /\ k = [ev |-> k.ev, co |-> k.co, stamp |-> k.stamp]
  BY ONLY <1>4
<1>7. /\ DOMAIN ev = V /\ \A e \in V : ev[e] = CutLabel(g.ev[e], V)
      /\ ev = [e \in V |-> ev[e]]
  BY <1>0, <1>1 DEF CutLabels
<1>8. \A e \in V : /\ ev[e] \in Label /\ SameButRf(ev[e], g.ev[e])
                   /\ ev[e].rf = CutRf(g.ev[e].rf, V)
  <2> SUFFICES ASSUME NEW e \in V
               PROVE  /\ ev[e] \in Label /\ SameButRf(ev[e], g.ev[e])
                      /\ ev[e].rf = CutRf(g.ev[e].rf, V)
    OBVIOUS
  <2>1. g.ev[e] \in Label
    BY <1>0 DEF Typed
  <2>2. ev[e] = CutLabel(g.ev[e], V)
    BY <1>7
  <2> QED
    BY ONLY <2>1, <2>2, CutLabelShape
<1>9. ASSUME NEW e \in V \ D
      PROVE  CutRf(g.ev[e].rf, V) = g.ev[e].rf
  <2> DEFINE rf == g.ev[e].rf
             I == {j \in DOMAIN rf : rf[j][1] \in V \cup {InitPos}}
  <2>1. e \in Pos(g) \ D
    BY <1>0
  <2>2. PICK p : rf = <<>> \/ rf = <<p>>
    BY <2>1, RfIsShort
  <2>3. \A j \in DOMAIN rf : rf[j][1] \in V \cup {InitPos}
    BY <1>0 DEF RfStores
  <2>4. I = DOMAIN rf
    BY <2>3
  <2>5. Picked(rf, I) = rf
    <3> HIDE DEF I, rf
    <3> QED
      BY <2>2, <2>4, PickedWhole
  <2> QED
    BY <2>5 DEF CutRf
<1>10. ASSUME NEW x \in Word
       PROVE  Enumerates(co[x], StoresTo(g, x) \cap V)
  <2>1. Enumerates(g.co[x], StoresTo(g, x) \ {})
    BY DEF CoListsStores
  <2>2. Enumerates(g.co[x], StoresTo(g, x))
    BY <2>1
  <2>3. co[x] = Picked(g.co[x], {j \in DOMAIN g.co[x] : g.co[x][j] \in V})
    BY <1>2 DEF CutCo
  <2> QED
    BY <2>2, <2>3, EnumeratesFiltered
<1>11. co \in [Word -> Seq(Event)]
  <2>1. \A x \in Word : co[x] \in Seq(Event)
    <3> SUFFICES ASSUME NEW x \in Word PROVE co[x] \in Seq(Event)
      OBVIOUS
    <3>1. StoresTo(g, x) \cap V \in SUBSET Pos(g)
      BY <1>0
    <3> QED
      BY <1>10, <3>1, EnumeratesEvents
  <2>2. co = [x \in Word |-> co[x]]
    BY <1>2 DEF CutCo
  <2> QED
    BY <2>1, <2>2
<1>12. Pos(k) = V
  BY <1>6, <1>7 DEF Pos
<1>13. k.ev \in [V -> Label]
  BY <1>6, <1>7, <1>8
<1>14. Typed(k)
  <2>1. g.stamp \in Nat \ {0} /\ V \subseteq Event
    BY <1>0 DEF Typed
  <2> QED
    BY ONLY <1>6, <1>11, <1>12, <1>13, <2>1 DEF Typed
<1>15. \A e \in V : k.ev[e].op = g.ev[e].op /\ k.ev[e].loc = g.ev[e].loc
  BY <1>6, <1>8 DEF SameButRf, SameCore
<1>16. \A x \in Word : StoresTo(k, x) \ {} = StoresTo(g, x) \cap V
  BY <1>0, <1>12, <1>15 DEF StoresTo
<1>17. CoListsStores(k, {})
  BY <1>6, <1>10, <1>16 DEF CoListsStores
<1> QED
  BY <1>5, <1>6, <1>8, <1>9, <1>12, <1>14, <1>17

-----------------------------------------------------------------------------
(* Restamping. *)

LaterThan(g, n) == {e \in Pos(g) : g.ev[e].stamp > n}
UpTo(L, e) == {f \in L : f = e \/ L2R(f, e)}
NewStamp(L, n, e) == n + Cardinality(UpTo(L, e))
Restamp(lab, n) == [lab EXCEPT !.stamp = n]

(* The order in which compressStampsAfter() goes through the labels. *)
LabelOrder(S) == {p \in S \X S : L2R(p[1], p[2])}

(* The left-to-right order in which labels are renumbered is total. *)
LEMMA LabelOrderTotal ==
    ASSUME NEW S \in SUBSET Event
    PROVE  TotalOrder(S, LabelOrder(S))
<1>1. \A e \in S : /\ e = <<e[1], e[2]>> /\ e[1] \in Int /\ e[2] \in Int
  BY DEF Event, Thread
<1>2. \A e \in S : <<e, e>> \notin LabelOrder(S)
  BY <1>1 DEF LabelOrder, L2R
<1>3. ASSUME NEW e \in S, NEW f \in S, e # f
      PROVE  <<e, f>> \in LabelOrder(S) \/ <<f, e>> \in LabelOrder(S)
  <2>1. e[1] # f[1] \/ e[2] # f[2]
    BY <1>1, <1>3
  <2> QED
    BY <1>1, <2>1 DEF LabelOrder, L2R
<1>4. ASSUME NEW d \in S, NEW e \in S, NEW f \in S,
             <<d, e>> \in LabelOrder(S), <<e, f>> \in LabelOrder(S)
      PROVE  <<d, f>> \in LabelOrder(S)
  BY <1>1, <1>4 DEF LabelOrder, L2R
<1> QED
  BY <1>2, <1>3, <1>4 DEF TotalOrder

(* New stamps number the later labels from n + 1, program order included. *)
LEMMA NewStamps ==
    ASSUME NEW L \in SUBSET Event, IsFiniteSet(L), NEW n \in Nat
    PROVE  /\ Cardinality(L) \in Nat
           /\ \A e \in L : NewStamp(L, n, e) \in (n + 1)..(n + Cardinality(L))
           /\ \A e, f \in L : NewStamp(L, n, e) = NewStamp(L, n, f) => e = f
           /\ \A m \in (n + 1)..(n + Cardinality(L)) : \E e \in L : NewStamp(L, n, e) = m
           /\ \A e, f \in L : L2R(e, f) => NewStamp(L, n, e) < NewStamp(L, n, f)
<1> DEFINE R == LabelOrder(L)
           rank(e) == Cardinality(Below(L, R, e))
<1>1. TotalOrder(L, R)
  BY LabelOrderTotal
<1>2. /\ Cardinality(L) \in Nat
      /\ \A e \in L : rank(e) \in 0..(Cardinality(L) - 1)
      /\ \A e, f \in L : rank(e) = rank(f) => e = f
      /\ \A m \in 0..(Cardinality(L) - 1) : \E e \in L : rank(e) = m
  BY <1>1, RanksNumber
<1>3. ASSUME NEW e \in L
      PROVE  NewStamp(L, n, e) = n + rank(e) + 1
  <2>1. UpTo(L, e) = Below(L, R, e) \cup {e}
    BY DEF UpTo, Below, LabelOrder
  <2>2. e \notin Below(L, R, e) /\ Below(L, R, e) \in SUBSET L
    BY <1>1 DEF Below, TotalOrder
  <2>3. IsFiniteSet(Below(L, R, e))
    BY <2>2, FS_Subset
  <2>4. Cardinality(UpTo(L, e)) = rank(e) + 1
    BY <2>1, <2>2, <2>3, FS_AddElement
  <2>5. rank(e) \in Nat
    BY <1>2
  <2> QED
    BY <2>4, <2>5 DEF NewStamp
<1>4. ASSUME NEW e \in L, NEW f \in L, L2R(e, f)
      PROVE  rank(e) < rank(f)
  <2>1. <<e, f>> \in R
    BY <1>4 DEF LabelOrder
  <2> QED
    BY <1>1, <2>1, RankGrows
<1> HIDE DEF rank, R
<1>5. \A e \in L : NewStamp(L, n, e) \in (n + 1)..(n + Cardinality(L))
  BY <1>2, <1>3
<1>6. ASSUME NEW e \in L, NEW f \in L, NewStamp(L, n, e) = NewStamp(L, n, f)
      PROVE  e = f
  <2>1. rank(e) \in Int /\ rank(f) \in Int
    BY <1>2
  <2>2. rank(e) = rank(f)
    BY <1>3, <1>6, <2>1
  <2> QED
    BY <1>2, <2>2
<1>7. ASSUME NEW m \in (n + 1)..(n + Cardinality(L))
      PROVE  \E e \in L : NewStamp(L, n, e) = m
  <2>1. m - n - 1 \in 0..(Cardinality(L) - 1)
    BY <1>2
  <2>2. PICK e \in L : rank(e) = m - n - 1
    BY <1>2, <2>1
  <2> QED
    BY <1>3, <2>2
<1>8. ASSUME NEW e \in L, NEW f \in L, L2R(e, f)
      PROVE  NewStamp(L, n, e) < NewStamp(L, n, f)
  <2>1. rank(e) \in Int /\ rank(f) \in Int /\ rank(e) < rank(f)
    BY <1>2, <1>4, <1>8
  <2> QED
    BY <1>3, <2>1
<1> QED
  BY <1>2, <1>5, <1>6, <1>7, <1>8

(* A new stamp changes nothing else of a label. *)
LEMMA RestampShape ==
    ASSUME NEW lab \in Label, NEW n \in Nat, NEW l, l = Restamp(lab, n)
    PROVE  l \in Label /\ SameCore(l, lab) /\ l.rev = lab.rev /\ l.rf = lab.rf /\ l.stamp = n
BY DEF Label, Restamp, SameCore

(* h is g with new stamps for the labels in L, which were later than n. *)
Compressed(g, h, n, L) ==
    /\ Typed(h) /\ Pos(h) = Pos(g) /\ h.co = g.co
    /\ h.stamp = n + 1 + Cardinality(L)
    /\ \A e \in Pos(g) : /\ SameCore(h.ev[e], g.ev[e]) /\ h.ev[e].rev = g.ev[e].rev
                         /\ h.ev[e].rf = g.ev[e].rf
    /\ \A e \in Pos(g) \ L : h.ev[e].stamp = g.ev[e].stamp
    /\ \A e \in L : h.ev[e].stamp = NewStamp(L, n, e)

(* What compressStampsAfter() changes. *)
LEMMA CompressShape ==
    ASSUME NEW g, Typed(g), NEW n \in Nat, IsFiniteSet(Pos(g)),
           NEW h, h = CompressStampsAfter(g, n)
    PROVE  Compressed(g, h, n, LaterThan(g, n))
<1>1. PICK L : L = LaterThan(g, n)
  OBVIOUS
<1>2. L \in SUBSET Pos(g) /\ L \in SUBSET Event
  BY <1>1 DEF LaterThan, Typed
<1>3. IsFiniteSet(L) /\ Cardinality(L) \in Nat
  BY <1>2, FS_Subset, FS_CardinalityType
<1>4. \A e \in L : NewStamp(L, n, e) \in Nat
  BY <1>2, <1>3, NewStamps
<1>5. PICK ev : ev = [e \in Pos(g) |-> IF e \in L THEN Restamp(g.ev[e], NewStamp(L, n, e)) ELSE g.ev[e]]
  OBVIOUS
<1>6. h = [g EXCEPT !.ev = ev, !.stamp = n + 1 + Cardinality(L)]
  BY <1>1, <1>5 DEF CompressStampsAfter, LaterThan, NewStamp, UpTo, Restamp
<1>7. PICK k : k = [ev |-> ev, co |-> g.co, stamp |-> n + 1 + Cardinality(L)]
  OBVIOUS
<1>8. h = k
  BY <1>6, <1>7 DEF Typed
<1>9. /\ k.ev = ev /\ k.co = g.co /\ k.stamp = n + 1 + Cardinality(L)
      /\ k = [ev |-> k.ev, co |-> k.co, stamp |-> k.stamp]
  BY ONLY <1>7
<1>10. /\ DOMAIN ev = Pos(g) /\ ev = [e \in Pos(g) |-> ev[e]]
       /\ \A e \in L : ev[e] = Restamp(g.ev[e], NewStamp(L, n, e))
       /\ \A e \in Pos(g) \ L : ev[e] = g.ev[e]
  BY <1>2, <1>5
<1>11. \A e \in Pos(g) : g.ev[e] \in Label
  BY DEF Typed
<1>12. \A e \in L : /\ ev[e] \in Label /\ SameCore(ev[e], g.ev[e]) /\ ev[e].rev = g.ev[e].rev
                    /\ ev[e].rf = g.ev[e].rf /\ ev[e].stamp = NewStamp(L, n, e)
  <2> SUFFICES ASSUME NEW e \in L
               PROVE  /\ ev[e] \in Label /\ SameCore(ev[e], g.ev[e]) /\ ev[e].rev = g.ev[e].rev
                      /\ ev[e].rf = g.ev[e].rf /\ ev[e].stamp = NewStamp(L, n, e)
    OBVIOUS
  <2>1. g.ev[e] \in Label /\ NewStamp(L, n, e) \in Nat /\ ev[e] = Restamp(g.ev[e], NewStamp(L, n, e))
    BY <1>2, <1>4, <1>10, <1>11
  <2> QED
    BY ONLY <2>1, RestampShape, SMTT(30)
<1>13. \A e \in Pos(g) \ L : SameCore(ev[e], g.ev[e]) /\ ev[e] = g.ev[e]
  BY <1>10 DEF SameCore
<1>14. Pos(k) = Pos(g)
  BY <1>9, <1>10 DEF Pos
<1>15. k.ev \in [Pos(k) -> Label]
  BY <1>9, <1>10, <1>11, <1>12, <1>14
<1>16. Typed(k)
  <2>1. g.co \in [Word -> Seq(Event)] /\ Pos(g) \subseteq Event
    BY DEF Typed
  <2>2. k.stamp \in Nat \ {0}
    BY <1>3, <1>9
  <2> QED
    BY ONLY <1>9, <1>14, <1>15, <2>1, <2>2 DEF Typed
<1>17. Compressed(g, k, n, L)
  BY ONLY <1>2, <1>9, <1>12, <1>13, <1>14, <1>16 DEF Compressed
<1> QED
  BY ONLY <1>1, <1>8, <1>17

(* Stamps that are in order and without a gap up to n. *)
StampedUpTo(g, n) ==
    /\ \A e \in Pos(g) : g.ev[e].stamp \in Nat \ {0}
    /\ \A e, f \in Pos(g) : g.ev[e].stamp = g.ev[f].stamp => e = f
    /\ \A m \in 1..n : \E e \in Pos(g) : g.ev[e].stamp = m
    /\ \A e, f \in Pos(g) : (e[1] = f[1] /\ e[2] < f[2]) => g.ev[e].stamp < g.ev[f].stamp

(* compressStampsAfter() closes the gaps. *)
LEMMA CompressStamped ==
    ASSUME NEW g, Typed(g), NEW n \in Nat, IsFiniteSet(Pos(g)), StampedUpTo(g, n),
           NEW h, h = CompressStampsAfter(g, n)
    PROVE  Stamped(h)
<1>1. PICK L : L = LaterThan(g, n)
  OBVIOUS
<1>2. L \in SUBSET Pos(g) /\ L \in SUBSET Event
  BY <1>1 DEF LaterThan, Typed
<1>3. IsFiniteSet(L)
  BY <1>2, FS_Subset
<1>4. PICK N : N = Cardinality(L)
  OBVIOUS
<1>5. /\ N \in Nat
      /\ \A e \in L : NewStamp(L, n, e) \in (n + 1)..(n + N)
      /\ \A e, f \in L : NewStamp(L, n, e) = NewStamp(L, n, f) => e = f
      /\ \A m \in (n + 1)..(n + N) : \E e \in L : NewStamp(L, n, e) = m
      /\ \A e, f \in L : L2R(e, f) => NewStamp(L, n, e) < NewStamp(L, n, f)
  BY <1>2, <1>3, <1>4, NewStamps
<1>6. /\ Pos(h) = Pos(g) /\ h.stamp = n + 1 + N
      /\ \A e \in Pos(g) \ L : h.ev[e].stamp = g.ev[e].stamp
      /\ \A e \in L : h.ev[e].stamp = NewStamp(L, n, e)
  <2>1. Compressed(g, h, n, LaterThan(g, n))
    BY CompressShape
  <2>2. Compressed(g, h, n, L)
    BY <1>1, <2>1
  <2> QED
    BY ONLY <1>4, <2>2 DEF Compressed
<1>7. \A e \in L : g.ev[e].stamp > n /\ h.ev[e].stamp \in (n + 1)..(n + N)
  <2>1. \A e \in L : g.ev[e].stamp > n
    BY ONLY <1>1 DEF LaterThan
  <2>2. \A e \in L : h.ev[e].stamp \in (n + 1)..(n + N)
    BY ONLY <1>5, <1>6
  <2> QED
    BY ONLY <2>1, <2>2
<1>8. \A e \in Pos(g) \ L : h.ev[e].stamp = g.ev[e].stamp /\ h.ev[e].stamp \in 1..n
  BY <1>1, <1>6 DEF LaterThan, StampedUpTo
<1>9. h.stamp - 1 = n + N
  BY <1>5, <1>6
<1>10. \A e \in Pos(h) : h.ev[e].stamp \in 1..(n + N)
  BY <1>5, <1>6, <1>7, <1>8
<1>11. ASSUME NEW e \in Pos(h), NEW f \in Pos(h), h.ev[e].stamp = h.ev[f].stamp
       PROVE  e = f
  <2>1. CASE e \in L /\ f \in L
    BY <1>5, <1>6, <1>11, <2>1
  <2>2. CASE e \notin L /\ f \notin L
    BY <1>6, <1>8, <1>11, <2>2 DEF StampedUpTo
  <2>3. CASE (e \in L /\ f \notin L) \/ (e \notin L /\ f \in L)
    BY <1>6, <1>7, <1>8, <1>11, <2>3
  <2> QED
    BY <2>1, <2>2, <2>3
<1>12. ASSUME NEW m \in 1..(n + N)
       PROVE  \E e \in Pos(h) : h.ev[e].stamp = m
  <2>1. CASE m \in 1..n
    <3>1. PICK e \in Pos(g) : g.ev[e].stamp = m
      BY <2>1 DEF StampedUpTo
    <3>2. e \notin L
      BY <1>7, <2>1, <3>1
    <3> QED
      BY <1>6, <3>1, <3>2
  <2>2. CASE m \notin 1..n
    <3>1. m \in (n + 1)..(n + N)
      BY <1>5, <2>2
    <3> QED
      BY <1>2, <1>5, <1>6, <3>1
  <2> QED
    BY <2>1, <2>2
<1>13. ASSUME NEW e \in Pos(h), NEW f \in Pos(h), e[1] = f[1], e[2] < f[2]
       PROVE  h.ev[e].stamp < h.ev[f].stamp
  <2>1. g.ev[e].stamp < g.ev[f].stamp /\ g.ev[e].stamp \in Nat /\ g.ev[f].stamp \in Nat
    BY <1>6, <1>13 DEF StampedUpTo
  <2>2. CASE e \in L
    <3>1. f \in L
      BY <1>1, <1>6, <2>1, <2>2 DEF LaterThan
    <3>2. L2R(e, f)
      BY <1>13 DEF L2R
    <3> QED
      BY <1>5, <1>6, <2>2, <3>1, <3>2
  <2>3. CASE e \notin L /\ f \in L
    BY <1>6, <1>7, <1>8, <2>3
  <2>4. CASE e \notin L /\ f \notin L
    BY <1>6, <1>8, <2>1, <2>4
  <2> QED
    BY <2>2, <2>3, <2>4
<1> QED
  BY <1>9, <1>10, <1>11, <1>12, <1>13 DEF Stamped

-----------------------------------------------------------------------------
(* Repairing. *)

(* The elements of what co_begin() .. co_end() runs over. *)
LEMMA CoElements ==
    ASSUME NEW g, Typed(g), NEW D, CoListsStores(g, D), NEW a, a.loc \in Word
    PROVE  /\ Enumerates(Co(g, a), {e \in StoresTo(g, a.loc) \ D : Overlaps(g.ev[e], a)})
           /\ Co(g, a) \in Seq(Event)
<1> DEFINE s == g.co[a.loc]
           S == StoresTo(g, a.loc) \ D
           I == {k \in DOMAIN s : Overlaps(g.ev[s[k]], a)}
<1>1. Enumerates(s, S)
  BY DEF CoListsStores
<1>2. I \in SUBSET (DOMAIN s) /\ Co(g, a) = Picked(s, I)
  BY DEF Co
<1>3. {s[k] : k \in I} = {e \in S : Overlaps(g.ev[e], a)}
  <2> HIDE DEF s, S
  <2>1. (\A k \in DOMAIN s : s[k] \in S) /\ \A x \in S : \E k \in DOMAIN s : s[k] = x
    BY <1>1, EnumeratesElements
  <2> QED
    BY <2>1
<1>4. {e \in S : Overlaps(g.ev[e], a)} \in SUBSET Pos(g)
  BY DEF StoresTo
<1> HIDE DEF s, I
<1>5. Enumerates(Picked(s, I), {s[k] : k \in I})
  BY <1>1, <1>2, EnumeratesPicked
<1>6. Enumerates(Co(g, a), {e \in S : Overlaps(g.ev[e], a)})
  BY <1>2, <1>3, <1>5
<1>7. Co(g, a) \in Seq(Event)
  BY <1>4, <1>6, EnumeratesEvents
<1> QED
  BY <1>6, <1>7

Repaired(lab, w) == [lab EXCEPT !.rf = <<<<w, lab.bytes>>>>, !.max = TRUE]

(* Repairing the rf of a label changes nothing else of it. *)
LEMMA RepairedShape ==
    ASSUME NEW lab \in Label, NEW w \in Source, NEW l, l = Repaired(lab, w)
    PROVE  l \in Label /\ SameButRf(l, lab)
<1>1. PICK rf : rf = <<<<w, lab.bytes>>>>
  OBVIOUS
<1>2. rf \in Seq(Source \X SUBSET Byte)
  <2>1. <<w, lab.bytes>> \in Source \X SUBSET Byte
    BY DEF Label
  <2> QED
    BY <1>1, <2>1
<1>3. l = [lab EXCEPT !.rf = rf, !.max = TRUE]
  BY <1>1 DEF Repaired
<1> QED
  BY ONLY <1>2, <1>3, lab \in Label DEF Label, SameButRf, SameCore

LatestStore(g, r) == IF Co(g, g.ev[r]) = <<>> THEN InitPos ELSE Last(Co(g, g.ev[r]))

(* repairDanglingReads() gives rfs to reads that have lost theirs only. *)
LEMMA RepairShape ==
    ASSUME NEW g, Typed(g), NEW D, RfsGiven(g, D), CoListsStores(g, {}),
           NEW h, h = RepairDanglingReads(g)
    PROVE  /\ Typed(h) /\ Pos(h) = Pos(g) /\ h.co = g.co /\ h.stamp = g.stamp
           /\ \A e \in Pos(g) : SameButRf(h.ev[e], g.ev[e])
           /\ \A e \in Pos(g) \ D : h.ev[e] = g.ev[e]
<1>1. PICK R : R = {r \in Reads(g) : g.ev[r].rf = <<>> /\ Succ(r) \notin Pos(g)}
  OBVIOUS
<1>2. R \subseteq Pos(g) /\ R \subseteq D
  <2>1. ASSUME NEW r \in R, r \notin D PROVE FALSE
    <3>1. ReadsOne(g, r) /\ g.ev[r].rf = <<>>
      BY <1>1, <2>1 DEF RfsGiven
    <3>2. PICK p : g.ev[r].rf = <<p>>
      BY <3>1 DEF ReadsOne
    <3>3. PICK rf : rf = g.ev[r].rf
      OBVIOUS
    <3>4. rf = <<>> /\ rf = <<p>>
      BY <3>1, <3>2, <3>3
    <3> QED
      BY ONLY <3>4
  <2> QED
    BY <1>1, <2>1 DEF Reads
<1>3. PICK ev : ev = [e \in Pos(g) |-> IF e \in R THEN Repaired(g.ev[e], LatestStore(g, e)) ELSE g.ev[e]]
  OBVIOUS
<1>4. h = [g EXCEPT !.ev = ev]
  BY <1>1, <1>3 DEF RepairDanglingReads, Repaired, LatestStore
<1>5. PICK k : k = [ev |-> ev, co |-> g.co, stamp |-> g.stamp]
  OBVIOUS
<1>6. h = k
  BY <1>4, <1>5 DEF Typed
<1>7. /\ k.ev = ev /\ k.co = g.co /\ k.stamp = g.stamp
      /\ k = [ev |-> k.ev, co |-> k.co, stamp |-> k.stamp]
  BY ONLY <1>5
<1>8. /\ DOMAIN ev = Pos(g) /\ ev = [e \in Pos(g) |-> ev[e]]
      /\ \A e \in R : ev[e] = Repaired(g.ev[e], LatestStore(g, e))
      /\ \A e \in Pos(g) \ R : ev[e] = g.ev[e]
  BY <1>2, <1>3
<1>9. \A e \in Pos(g) : g.ev[e] \in Label
  BY DEF Typed
<1>10. ASSUME NEW e \in R
       PROVE  ev[e] \in Label /\ SameButRf(ev[e], g.ev[e])
  <2>1. g.ev[e] \in Label /\ g.ev[e].loc \in Word
    BY <1>2, <1>9 DEF Label
  <2>2. Co(g, g.ev[e]) \in Seq(Event)
    BY <2>1, CoElements
  <2>3. LatestStore(g, e) \in Source
    <3>1. PICK s : s = Co(g, g.ev[e])
      OBVIOUS
    <3>2. s \in Seq(Event) /\ LatestStore(g, e) = IF s = <<>> THEN InitPos ELSE s[Len(s)]
      BY <2>2, <3>1 DEF LatestStore, Last
    <3>3. s # <<>> => s[Len(s)] \in Event
      BY <3>2
    <3> QED
      BY <3>2, <3>3 DEF Source
  <2>4. ev[e] = Repaired(g.ev[e], LatestStore(g, e))
    BY <1>8
  <2> QED
    BY ONLY <2>1, <2>3, <2>4, RepairedShape
<1>11. \A e \in Pos(g) \ R : SameButRf(ev[e], g.ev[e])
  BY <1>8 DEF SameButRf, SameCore
<1>12. Pos(k) = Pos(g) /\ k.ev \in [Pos(k) -> Label]
  BY <1>7, <1>8, <1>9, <1>10 DEF Pos
<1>13. Typed(k)
  <2>1. g.co \in [Word -> Seq(Event)] /\ Pos(g) \subseteq Event /\ g.stamp \in Nat \ {0}
    BY DEF Typed
  <2> QED
    BY ONLY <1>7, <1>12, <2>1 DEF Typed
<1> QED
  BY <1>2, <1>6, <1>7, <1>8, <1>10, <1>11, <1>12, <1>13

-----------------------------------------------------------------------------
(* A cut as a whole. *)

(* h is what a cut to V that restamps after n leaves of g: all but the rfs *)
(* of the reads in D and the flags.                                        *)
Trimmed(g, h, V, n, D) ==
    /\ Typed(h) /\ Pos(h) = V /\ Stamped(h) /\ CoListsStores(h, {})
    /\ \A e \in V : SameCore(h.ev[e], g.ev[e])
    /\ \A e \in V : IF g.ev[e].stamp <= n THEN h.ev[e].stamp = g.ev[e].stamp
                                          ELSE h.ev[e].stamp > n
    /\ \A e \in V \ D : h.ev[e].rf = g.ev[e].rf

(* The reads that were not to lose their rf have kept it. *)
LEMMA TrimmedRfs ==
    ASSUME NEW g, NEW D, Typed(g), RfsGiven(g, {}), NEW V, Keepable(g, V, D), NEW n,
           NEW h, Trimmed(g, h, V, n, D), \A e \in D : e \in Pos(g) => g.ev[e].op = "R"
    PROVE  RfsGiven(h, D)
<1>1. /\ V \subseteq Pos(g)
      /\ \A e \in V \ D : RfStores(g, e) \subseteq V \cup {InitPos}
  BY DEF Keepable
<1>2. /\ Pos(h) = V /\ \A e \in V \ D : h.ev[e].rf = g.ev[e].rf
      /\ \A e \in V : /\ h.ev[e].op = g.ev[e].op /\ h.ev[e].loc = g.ev[e].loc
                      /\ h.ev[e].bytes = g.ev[e].bytes
  BY DEF Trimmed, SameCore
<1>3. ASSUME NEW r \in Reads(h) \ D PROVE ReadsOne(h, r)
  <2>1. r \in V \ D /\ r \in Reads(g)
    BY <1>1, <1>2 DEF Reads
  <2>2. PICK w \in StoresTo(g, g.ev[r].loc) \cup {InitPos} :
               g.ev[r].rf = << <<w, g.ev[r].bytes>> >>
    BY <2>1 DEF RfsGiven, ReadsOne
  <2>3. w \in RfStores(g, r)
    BY <2>2 DEF RfStores
  <2>4. w = InitPos \/ w \in V
    BY <1>1, <2>1, <2>3
  <2>5. w \in StoresTo(h, h.ev[r].loc) \cup {InitPos}
    BY <1>2, <2>1, <2>2, <2>4 DEF StoresTo
  <2>6. h.ev[r].rf = << <<w, h.ev[r].bytes>> >>
    BY <1>2, <2>1, <2>2
  <2> QED
    BY <2>5, <2>6 DEF ReadsOne
<1>4. ASSUME NEW e \in Pos(h), h.ev[e].op = "W" PROVE h.ev[e].rf = <<>>
  <2>1. e \in Pos(g) /\ g.ev[e].op = "W" /\ e \in V
    BY <1>1, <1>2, <1>4
  <2>2. e \notin D
    BY <2>1
  <2> QED
    BY <1>2, <2>1, <2>2 DEF RfsGiven
<1> QED
  BY <1>3, <1>4 DEF RfsGiven

(* Cutting to V and restamping after n. *)
LEMMA CutTrims ==
    ASSUME NEW Z, NEW g, NEW D, GraphOK(Z, g), NEW V, Keepable(g, V, D),
           NEW n \in Nat, n < g.stamp, ViewFromStamp(g, n) \subseteq V,
           NEW h, h = CompressStampsAfter(RestrictTo(g, V), n)
    PROVE  /\ Trimmed(g, h, V, n, D)
           /\ \A e \in V : h.ev[e].rev = g.ev[e].rev
           /\ V \subseteq ViewFromStamp(g, n) => h.stamp = n + 1
<1>0. /\ Typed(g) /\ Stamped(g) /\ RfsGiven(g, {}) /\ CoListsStores(g, {})
  BY DEF GraphOK, GraphBut
<1>1. RfsGiven(g, D)
  BY <1>0 DEF RfsGiven
<1>2. PICK k : k = RestrictTo(g, V)
  OBVIOUS
<1>3. /\ Typed(k) /\ Pos(k) = V /\ k.stamp = g.stamp
      /\ \A e \in V : SameButRf(k.ev[e], g.ev[e])
      /\ \A e \in V \ D : k.ev[e].rf = g.ev[e].rf
      /\ CoListsStores(k, {})
  BY <1>0, <1>1, <1>2, RestrictShape
<1>4. V \subseteq Pos(g)
  BY DEF Keepable
<1>5. IsFiniteSet(V)
  BY <1>0, <1>4, PositionsFinite, FS_Subset
<1>6. h = CompressStampsAfter(k, n)
  BY <1>2
<1>7. PICK L : L = LaterThan(k, n)
  OBVIOUS
<1>8. Compressed(k, h, n, L)
  <2>1. Compressed(k, h, n, LaterThan(k, n))
    BY <1>3, <1>5, <1>6, CompressShape
  <2> QED
    BY <1>7, <2>1
<1>9. \A e \in V : k.ev[e].stamp = g.ev[e].stamp /\ g.ev[e].stamp \in Nat \ {0}
  BY <1>0, <1>3, <1>4 DEF SameButRf, Stamped, Typed
<1>10. StampedUpTo(k, n)
  <2>1. ASSUME NEW m \in 1..n
        PROVE  \E e \in V : k.ev[e].stamp = m
    <3>1. m \in 1..(g.stamp - 1)
      BY <1>0 DEF Typed
    <3>2. PICK e \in Pos(g) : g.ev[e].stamp = m
      BY <1>0, <3>1 DEF Stamped
    <3>3. e \in V
      BY <3>2 DEF ViewFromStamp
    <3> QED
      BY <1>9, <3>2, <3>3
  <2>2. \A e, f \in V : k.ev[e].stamp = k.ev[f].stamp => e = f
    BY <1>0, <1>4, <1>9 DEF Stamped
  <2>3. \A e, f \in V : (e[1] = f[1] /\ e[2] < f[2]) => k.ev[e].stamp < k.ev[f].stamp
    BY <1>0, <1>4, <1>9 DEF Stamped
  <2> QED
    BY <1>3, <1>9, <2>1, <2>2, <2>3 DEF StampedUpTo
<1>11. Stamped(h)
  BY <1>3, <1>5, <1>6, <1>10, CompressStamped
<1>12. /\ Typed(h) /\ Pos(h) = V /\ h.co = k.co
       /\ \A e \in V : /\ SameCore(h.ev[e], k.ev[e]) /\ h.ev[e].rev = k.ev[e].rev
                       /\ h.ev[e].rf = k.ev[e].rf
  BY <1>3, <1>8 DEF Compressed
<1>13. \A e \in V : SameCore(h.ev[e], g.ev[e]) /\ h.ev[e].rev = g.ev[e].rev
  BY <1>3, <1>12 DEF SameButRf, SameCore
<1>14. CoListsStores(h, {})
  <2>1. \A x : StoresTo(h, x) = StoresTo(k, x)
    BY <1>3, <1>12 DEF StoresTo, SameCore
  <2> QED
    BY <1>3, <1>12, <2>1 DEF CoListsStores
<1>15. L = {e \in V : g.ev[e].stamp > n} /\ L \in SUBSET Event
  BY <1>3, <1>7, <1>9 DEF LaterThan, Typed
<1>16. \A e \in L : h.ev[e].stamp > n
  <2>1. L \in SUBSET V
    BY <1>15
  <2>2. IsFiniteSet(L)
    BY <1>5, <2>1, FS_Subset
  <2>3. \A e \in L : NewStamp(L, n, e) \in (n + 1)..(n + Cardinality(L)) /\ Cardinality(L) \in Nat
    BY <1>15, <2>2, NewStamps
  <2> QED
    BY <1>8, <2>3 DEF Compressed
<1>17. \A e \in V \ L : h.ev[e].stamp = g.ev[e].stamp
  BY <1>3, <1>8, <1>9 DEF Compressed
<1>18. Trimmed(g, h, V, n, D)
  <2>1. \A e \in V : IF g.ev[e].stamp <= n THEN h.ev[e].stamp = g.ev[e].stamp
                                           ELSE h.ev[e].stamp > n
    BY <1>9, <1>15, <1>16, <1>17
  <2>2. \A e \in V \ D : h.ev[e].rf = g.ev[e].rf
    BY <1>3, <1>12
  <2> QED
    BY <1>11, <1>12, <1>13, <1>14, <2>1, <2>2 DEF Trimmed
<1>19. ASSUME V \subseteq ViewFromStamp(g, n) PROVE h.stamp = n + 1
  <2>1. L = {}
    BY <1>9, <1>15, <1>19 DEF ViewFromStamp
  <2>2. Cardinality(L) = 0
    BY <2>1, FS_EmptySet
  <2> QED
    BY <1>8, <2>2 DEF Compressed
<1> QED
  BY <1>13, <1>18, <1>19

(* Repairing keeps a cut. *)
LEMMA RepairTrims ==
    ASSUME NEW g, NEW D, Typed(g), RfsGiven(g, {}), NEW V, Keepable(g, V, D), NEW n,
           NEW k, Trimmed(g, k, V, n, D), \A e \in D : e \in Pos(g) => g.ev[e].op = "R",
           NEW h, h = RepairDanglingReads(k)
    PROVE  /\ Trimmed(g, h, V, n, D) /\ h.stamp = k.stamp
           /\ \A e \in V : h.ev[e].rev = k.ev[e].rev
<1>1. /\ Typed(k) /\ Pos(k) = V /\ Stamped(k) /\ CoListsStores(k, {})
      /\ \A e \in V : SameCore(k.ev[e], g.ev[e])
      /\ \A e \in V : IF g.ev[e].stamp <= n THEN k.ev[e].stamp = g.ev[e].stamp
                                            ELSE k.ev[e].stamp > n
      /\ \A e \in V \ D : k.ev[e].rf = g.ev[e].rf
  BY DEF Trimmed
<1>2. RfsGiven(k, D)
  BY TrimmedRfs
<1>3. /\ Typed(h) /\ Pos(h) = Pos(k) /\ h.co = k.co /\ h.stamp = k.stamp
      /\ \A e \in Pos(k) : SameButRf(h.ev[e], k.ev[e])
      /\ \A e \in Pos(k) \ D : h.ev[e] = k.ev[e]
  BY <1>1, <1>2, RepairShape
<1>4. /\ Pos(h) = V
      /\ \A e \in V : /\ SameCore(h.ev[e], k.ev[e]) /\ h.ev[e].stamp = k.ev[e].stamp
                      /\ h.ev[e].rev = k.ev[e].rev
  BY <1>1, <1>3 DEF SameButRf
<1>5. \A e \in V : SameCore(h.ev[e], g.ev[e])
  BY <1>1, <1>4 DEF SameCore
<1>6. Stamped(h)
  BY <1>1, <1>3, <1>4 DEF Stamped
<1>7. CoListsStores(h, {})
  <2>1. \A x : StoresTo(h, x) = StoresTo(k, x)
    BY <1>1, <1>4 DEF StoresTo, SameCore
  <2> QED
    BY <1>1, <1>3, <2>1 DEF CoListsStores
<1>8. \A e \in V \ D : h.ev[e].rf = g.ev[e].rf
  BY <1>1, <1>3
<1> QED
  BY <1>1, <1>3, <1>4, <1>5, <1>6, <1>7, <1>8 DEF Trimmed

(* A cut that keeps only labels of stamp n or less revisitable leaves a    *)
(* graph that is well formed up to the rfs of the reads in D.              *)
LEMMA TrimmedOK ==
    ASSUME NEW Z, NEW g, NEW D, GraphOK(Z, g), NEW V, Keepable(g, V, D),
           NEW n \in Nat, NEW h, Trimmed(g, h, V, n, D),
           \A e \in D : e \in Pos(g) => g.ev[e].op = "R" /\ g.ev[e].stamp = n,
           \A e \in V : h.ev[e].rev => g.ev[e].rev /\ g.ev[e].stamp <= n
    PROVE  GraphBut(Z, h, D)
<1>1. /\ Typed(g) /\ Contiguous(g) /\ Stamped(g) /\ Sized(Z, g)
      /\ RfsGiven(g, {}) /\ ViewsClosed(g) /\ CutsClean(g)
  BY DEF GraphOK, GraphBut
<1>2. /\ V \subseteq Pos(g)
      /\ \A e \in V : \A k \in 1..e[2] : <<e[1], k>> \in V
      /\ \A e \in V : g.ev[e].pre \subseteq V
      /\ \A e \in V \ D : RfStores(g, e) \subseteq V \cup {InitPos}
      /\ \A e \in V \ D : g.ev[e].pre \cap D = {}
  BY DEF Keepable
<1>3. /\ Typed(h) /\ Pos(h) = V /\ Stamped(h) /\ CoListsStores(h, {})
      /\ \A e \in V : /\ h.ev[e].op = g.ev[e].op /\ h.ev[e].loc = g.ev[e].loc
                      /\ h.ev[e].bytes = g.ev[e].bytes /\ h.ev[e].pre = g.ev[e].pre
      /\ \A e \in V \ D : h.ev[e].rf = g.ev[e].rf
  BY DEF Trimmed, SameCore
<1>4. \A e \in V : IF g.ev[e].stamp <= n THEN h.ev[e].stamp = g.ev[e].stamp
                                         ELSE h.ev[e].stamp > n
  BY DEF Trimmed
<1>5. \A e \in V \ D : RfStores(h, e) = RfStores(g, e)
  BY <1>3 DEF RfStores
<1>6. RfsGiven(h, D)
  <2>1. \A e \in D : e \in Pos(g) => g.ev[e].op = "R"
    OBVIOUS
  <2> QED
    BY <1>1, <2>1, TrimmedRfs
<1>7. Contiguous(h) /\ Sized(Z, h)
  BY <1>1, <1>2, <1>3 DEF Contiguous, Sized
<1>8. CoListsStores(h, D)
  <2>1. \A x : StoresTo(h, x) \ {} = StoresTo(h, x) \ D
    BY <1>2, <1>3 DEF StoresTo
  <2> QED
    BY <1>3, <2>1 DEF CoListsStores
<1>9. ViewsClosed(h)
  <2> SUFFICES ASSUME NEW e \in V
               PROVE  /\ e \in h.ev[e].pre
                      /\ h.ev[e].pre \subseteq Pos(h)
                      /\ \A f \in h.ev[e].pre :
                           /\ h.ev[f].pre \subseteq h.ev[e].pre
                           /\ \A k \in 1..f[2] : <<f[1], k>> \in h.ev[e].pre
                           /\ f # e => RfStores(h, f) \subseteq h.ev[e].pre \cup {InitPos}
    BY <1>3 DEF ViewsClosed
  <2>1. h.ev[e].pre = g.ev[e].pre /\ g.ev[e].pre \subseteq V /\ e \in Pos(g)
    BY <1>2, <1>3
  <2>2. \A f \in g.ev[e].pre : h.ev[f].pre = g.ev[f].pre
    BY <1>3, <2>1
  <2>3. ASSUME NEW f \in g.ev[e].pre, f # e
        PROVE  RfStores(h, f) = RfStores(g, f)
    <3>1. CASE e \notin D
      <4>1. f \in V \ D
        BY <1>2, <2>1, <3>1
      <4> QED
        BY <1>5, <4>1
    <3>2. CASE e \in D
      <4>1. f \notin D
        <5>1. f \in V /\ e \in V
          BY <2>1
        <5> QED
          BY <1>1, <1>2, <2>1, <2>3, <3>2, <5>1 DEF Stamped
      <4> QED
        BY <1>5, <2>1, <4>1
    <3> QED
      BY <3>1, <3>2
  <2> QED
    BY <1>1, <1>3, <2>1, <2>2, <2>3 DEF ViewsClosed
<1>10. ASSUME NEW m \in Nat, m <= n, SettledBefore(g, m)
       PROVE  SettledBefore(h, m)
  <2> SUFFICES ASSUME NEW e \in V, h.ev[e].stamp < m,
                      NEW f \in h.ev[e].pre \cup (RfStores(h, e) \ {InitPos})
               PROVE  h.ev[f].stamp < m
    BY <1>3 DEF SettledBefore
  <2>1. g.ev[e].stamp \in Nat /\ h.ev[e].stamp \in Nat
    BY <1>1, <1>2, <1>3 DEF Typed, Label
  <2>2. g.ev[e].stamp = h.ev[e].stamp
    BY <1>4, <1>10, <2>1
  <2>3. e \notin D
    BY <1>2, <1>10, <2>1, <2>2
  <2>4. f \in g.ev[e].pre \cup (RfStores(g, e) \ {InitPos})
    BY <1>3, <1>5, <2>3
  <2>5. f \in V /\ f \in Pos(g)
    BY <1>2, <2>3, <2>4
  <2>6. g.ev[f].stamp < m
    BY <1>2, <1>10, <2>2, <2>4 DEF SettledBefore
  <2>7. g.ev[f].stamp \in Nat
    BY <1>1, <2>5 DEF Typed, Label
  <2> QED
    BY <1>4, <1>10, <2>5, <2>6, <2>7
<1>11. CutsClean(h)
  <2> SUFFICES ASSUME NEW c \in V, h.ev[c].rev
               PROVE  /\ SettledBefore(h, h.ev[c].stamp)
                      /\ \A f \in h.ev[c].pre : h.ev[f].stamp <= h.ev[c].stamp
    BY <1>3 DEF CutsClean
  <2>1. g.ev[c].rev /\ g.ev[c].stamp <= n /\ h.ev[c].stamp = g.ev[c].stamp
    BY <1>4
  <2>2. /\ SettledBefore(g, g.ev[c].stamp) /\ g.ev[c].pre \subseteq V
        /\ \A f \in g.ev[c].pre : g.ev[f].stamp <= g.ev[c].stamp
    BY <1>1, <1>2, <2>1 DEF CutsClean
  <2>3. g.ev[c].stamp \in Nat /\ \A f \in V : g.ev[f].stamp \in Nat
    BY <1>1, <1>2 DEF Typed, Label
  <2>4. SettledBefore(h, h.ev[c].stamp)
    BY <1>10, <2>1, <2>2, <2>3
  <2>5. ASSUME NEW f \in g.ev[c].pre PROVE h.ev[f].stamp <= h.ev[c].stamp
    <3>1. f \in V /\ g.ev[f].stamp <= n
      BY <2>1, <2>2, <2>3
    <3> QED
      BY <1>4, <2>1, <2>2, <3>1
  <2> QED
    BY <1>3, <2>4, <2>5
<1> QED
  BY <1>3, <1>6, <1>7, <1>8, <1>9, <1>11 DEF GraphBut

(* What is stamped up to a label that may be cut off at can be kept alone. *)
LEMMA PastKeepable ==
    ASSUME NEW Z, NEW g, GraphOK(Z, g), NEW c \in Pos(g), g.ev[c].rev,
           NEW n, n = g.ev[c].stamp, NEW D, D = {e \in {c} : g.ev[e].op = "R"}
    PROVE  Keepable(g, ViewFromStamp(g, n), D) /\ n \in Nat \ {0} /\ n < g.stamp
<1>1. /\ Typed(g) /\ Contiguous(g) /\ Stamped(g) /\ RfsGiven(g, {})
      /\ ViewsClosed(g) /\ CutsClean(g)
  BY DEF GraphOK, GraphBut
<1>2. PICK V : V = ViewFromStamp(g, n)
  OBVIOUS
<1>3. \A e : e \in V <=> e \in Pos(g) /\ g.ev[e].stamp <= n
  BY <1>2 DEF ViewFromStamp
<1>4. \A e \in Pos(g) : g.ev[e].stamp \in Nat \ {0} /\ g.ev[e].stamp < g.stamp
  BY <1>1 DEF Stamped, Typed
<1>5. /\ SettledBefore(g, n) /\ \A f \in g.ev[c].pre : g.ev[f].stamp <= n
  BY <1>1 DEF CutsClean
<1>6. \A e \in V : e = c \/ g.ev[e].stamp < n
  BY <1>1, <1>3, <1>4 DEF Stamped
<1>7. \A e \in V : g.ev[e].pre \subseteq Pos(g)
  BY <1>1, <1>3 DEF ViewsClosed
<1>8. \A e \in V : \A k \in 1..e[2] : <<e[1], k>> \in V
  <2> SUFFICES ASSUME NEW e \in V, NEW k \in 1..e[2], k # e[2]
               PROVE  <<e[1], k>> \in V
    <3>1. \A e \in V : e = <<e[1], e[2]>>
      BY <1>1, <1>3 DEF Typed, Event
    <3> QED
      BY <3>1
  <2>1. <<e[1], k>> \in Pos(g) /\ e[2] \in Nat
    BY <1>1, <1>3 DEF Contiguous, Typed, Event
  <2>2. PICK f : f = <<e[1], k>>
    OBVIOUS
  <2>3. f \in Pos(g) /\ f[1] = e[1] /\ f[2] < e[2]
    BY <2>1, <2>2
  <2>4. g.ev[f].stamp < g.ev[e].stamp
    BY <1>1, <1>3, <2>3 DEF Stamped
  <2> QED
    BY <1>3, <1>4, <2>2, <2>3, <2>4
<1>9. \A e \in V : g.ev[e].pre \subseteq V
  <2> SUFFICES ASSUME NEW e \in V, NEW f \in g.ev[e].pre PROVE f \in V
    OBVIOUS
  <2>1. f \in Pos(g)
    BY <1>7
  <2>2. g.ev[f].stamp <= n
    BY <1>3, <1>4, <1>5, <1>6, <2>1 DEF SettledBefore
  <2> QED
    BY <1>3, <2>1, <2>2
<1>10. \A e \in V \ D : RfStores(g, e) \subseteq V \cup {InitPos}
  <2> SUFFICES ASSUME NEW e \in V \ D, NEW f \in RfStores(g, e) \ {InitPos}
               PROVE  f \in V
    OBVIOUS
  <2>1. f \in Pos(g) /\ e \in Pos(g)
    BY <1>1, <1>3, RfStoresAreStores
  <2>2. e # c
    <3>1. CASE e = c
      <4>1. g.ev[c].op = "W"
        BY <1>1, <3>1 DEF Typed, Label
      <4>2. g.ev[e].rf = <<>>
        BY <1>1, <3>1, <4>1 DEF RfsGiven
      <4> QED
        BY <4>2 DEF RfStores
    <3> QED
      BY <3>1
  <2>3. g.ev[f].stamp < n
    BY <1>3, <1>5, <1>6, <2>2 DEF SettledBefore
  <2> QED
    BY <1>3, <1>4, <2>1, <2>3
<1>11. \A e \in V \ D : g.ev[e].pre \cap D = {}
  <2> SUFFICES ASSUME NEW e \in V \ D, c \in g.ev[e].pre, c \in D PROVE FALSE
    OBVIOUS
  <2>1. g.ev[e].stamp < n
    BY <1>6
  <2>2. g.ev[c].stamp < n
    BY <1>3, <1>5, <2>1 DEF SettledBefore
  <2> QED
    BY <1>4, <2>2
<1>12. Keepable(g, V, D)
  BY <1>3, <1>8, <1>9, <1>10, <1>11 DEF Keepable
<1> QED
  BY <1>2, <1>4, <1>12

(* g and h have the same labels up to stamp n, but for their rfs. *)
Agree(g, h, n) ==
    /\ ViewFromStamp(h, n) = ViewFromStamp(g, n)
    /\ \A e \in ViewFromStamp(g, n) : SameButRf(h.ev[e], g.ev[e])

(* restrict(): what is left of a graph that is cut at label c.  If c is a  *)
(* read, then its rf may be lost and is set next.                          *)
LEMMA RestrictedOK ==
    ASSUME NEW Z, NEW g, GraphOK(Z, g), NEW c \in Pos(g), g.ev[c].rev,
           NEW n, n = g.ev[c].stamp, NEW D, D = {e \in {c} : g.ev[e].op = "R"},
           NEW h, h = Restricted(g, n)
    PROVE  /\ GraphBut(Z, h, D) /\ Agree(g, h, n) /\ h.stamp = n + 1
           /\ Unsettled(h, c) /\ c \in Pos(h) /\ Succ(c) \notin Pos(h)
<1>1. PICK V : V = ViewFromStamp(g, n)
  OBVIOUS
<1>2. Keepable(g, V, D) /\ n \in Nat \ {0} /\ n < g.stamp /\ n \in Nat
  BY <1>1, PastKeepable
<1>3. PICK k : k = CompressStampsAfter(RestrictTo(g, V), n)
  OBVIOUS
<1>4. /\ Trimmed(g, k, V, n, D)
      /\ \A e \in V : k.ev[e].rev = g.ev[e].rev
      /\ V \subseteq ViewFromStamp(g, n) => k.stamp = n + 1
  <2>1. ViewFromStamp(g, n) \subseteq V
    BY <1>1
  <2> QED
    BY ONLY GraphOK(Z, g), <1>2, <1>3, <2>1, CutTrims
<1>5. h = RepairDanglingReads(k)
  BY <1>1, <1>3 DEF Restricted
<1>6. Typed(g) /\ RfsGiven(g, {}) /\ Stamped(g)
  BY DEF GraphOK, GraphBut
<1>7. \A e \in D : e \in Pos(g) => g.ev[e].op = "R" /\ g.ev[e].stamp = n
  OBVIOUS
<1>8. /\ Trimmed(g, h, V, n, D) /\ h.stamp = n + 1
      /\ \A e \in V : h.ev[e].rev = g.ev[e].rev
  <2>1. /\ Trimmed(g, h, V, n, D) /\ h.stamp = k.stamp
        /\ \A e \in V : h.ev[e].rev = k.ev[e].rev
    <3>1. \A e \in D : e \in Pos(g) => g.ev[e].op = "R"
      BY <1>7
    <3>2. Trimmed(g, k, V, n, D) /\ Keepable(g, V, D)
      BY <1>2, <1>4
    <3> QED
      BY ONLY <1>5, <1>6, <3>1, <3>2, RepairTrims
  <2> QED
    BY <1>1, <1>4, <2>1
<1>9. \A e : e \in V <=> e \in Pos(g) /\ g.ev[e].stamp <= n
  BY <1>1 DEF ViewFromStamp
<1>10. GraphBut(Z, h, D)
  <2>1. \A e \in V : h.ev[e].rev => g.ev[e].rev /\ g.ev[e].stamp <= n
    BY <1>8, <1>9
  <2> QED
    BY <1>2, <1>7, <1>8, <2>1, TrimmedOK
<1>11. \A e \in V : SameButRf(h.ev[e], g.ev[e])
  BY <1>8, <1>9 DEF Trimmed, SameButRf
<1>12. Pos(h) = V
  BY <1>8 DEF Trimmed
<1>13. Agree(g, h, n)
  <2>1. ViewFromStamp(h, n) = V
    BY <1>9, <1>11, <1>12 DEF ViewFromStamp, SameButRf
  <2> QED
    BY <1>1, <1>11, <2>1 DEF Agree
<1>14. c \in V /\ h.ev[c].stamp = n
  BY <1>2, <1>9, <1>11 DEF SameButRf
<1>15. \A e \in V \ {c} : g.ev[e].stamp < n
  <2>1. \A e, f \in Pos(g) : g.ev[e].stamp = g.ev[f].stamp => e = f
    BY ONLY <1>6 DEF Stamped
  <2>2. \A e \in V : e \in Pos(g) /\ g.ev[e].stamp <= n /\ g.ev[e].stamp \in Nat
    BY ONLY <1>6, <1>9 DEF Stamped
  <2>3. \A e \in V \ {c} : g.ev[e].stamp # g.ev[c].stamp
    BY ONLY c \in Pos(g), <2>1, <2>2
  <2>4. n = g.ev[c].stamp
    BY ZenonT(60)
  <2> QED
    BY ONLY <1>2, <2>2, <2>3, <2>4
<1>16. Unsettled(h, c)
  <2>1. SettledBefore(g, n)
    BY DEF GraphOK, GraphBut, CutsClean
  <2>2. \A e \in V \ {c} : c \notin g.ev[e].pre
    <3> SUFFICES ASSUME NEW e \in V \ {c}, c \in g.ev[e].pre PROVE FALSE
      OBVIOUS
    <3>1. g.ev[c].stamp < n
      BY <1>9, <1>15, <2>1 DEF SettledBefore
    <3> QED
      BY <1>2, <3>1
  <2>3. \A e \in V : h.ev[e].stamp <= n
    BY <1>9, <1>11 DEF SameButRf
  <2> QED
    BY <1>11, <1>12, <1>14, <2>2, <2>3 DEF Unsettled, SameButRf, SameCore
<1>17. Succ(c) \notin V
  <2> SUFFICES ASSUME Succ(c) \in V PROVE FALSE
    OBVIOUS
  <2>1. PICK d : d = Succ(c)
    OBVIOUS
  <2>2. d[1] = c[1] /\ c[2] < d[2] /\ d \in Pos(g) /\ g.ev[d].stamp <= n
    <3>1. c[2] \in Nat
      BY <1>6 DEF Typed, Event
    <3> QED
      BY <1>9, <2>1, <3>1 DEF Succ
  <2>3. g.ev[c].stamp < g.ev[d].stamp /\ g.ev[d].stamp \in Nat
    BY <1>6, <2>2 DEF Stamped, Typed, Label
  <2> QED
    BY <1>2, <2>2, <2>3
<1> QED
  BY <1>8, <1>10, <1>12, <1>13, <1>14, <1>16, <1>17

-----------------------------------------------------------------------------
(* Copies. *)

(* What a backward revisit of r by s leaves can be kept. *)
LEMMA RevisitKeepable ==
    ASSUME NEW Z, NEW g, GraphOK(Z, g), NEW r \in Reads(g), g.ev[r].rev,
           NEW s \in Pos(g), g.ev[s].op = "W", r \notin g.ev[s].pre,
           NEW V, V = ViewFromStamp(g, g.ev[r].stamp) \cup g.ev[s].pre
    PROVE  Keepable(g, V, {r}) /\ Succ(r) \notin V
<1>1. /\ Typed(g) /\ Stamped(g) /\ RfsGiven(g, {}) /\ ViewsClosed(g)
  BY DEF GraphOK, GraphBut
<1>2. r \in Pos(g) /\ g.ev[r].op = "R"
  BY DEF Reads
<1>3. PICK n, U, P : n = g.ev[r].stamp /\ U = ViewFromStamp(g, n) /\ P = g.ev[s].pre
  OBVIOUS
<1>4. PICK D : D = {e \in {r} : g.ev[e].op = "R"}
  OBVIOUS
<1>5. D = {r} /\ V = U \cup P /\ r \notin P
  BY <1>2, <1>3, <1>4
<1>6. Keepable(g, U, D)
  BY <1>2, <1>3, <1>4, PastKeepable
<1>7. /\ P \subseteq Pos(g)
      /\ \A f \in P : /\ g.ev[f].pre \subseteq P
                      /\ \A k \in 1..f[2] : <<f[1], k>> \in P
                      /\ f # s => RfStores(g, f) \subseteq P \cup {InitPos}
  BY <1>1, <1>3 DEF ViewsClosed
<1>8. RfStores(g, s) = {}
  BY <1>1 DEF RfsGiven, RfStores
<1>9. Keepable(g, V, {r})
  BY <1>5, <1>6, <1>7, <1>8 DEF Keepable
<1>10. Succ(r) \notin U
  <2>1. Succ(r)[1] = r[1] /\ r[2] < Succ(r)[2]
    <3>1. r[2] \in Nat
      BY <1>1, <1>2 DEF Typed, Event
    <3> QED
      BY <3>1 DEF Succ
  <2>2. ASSUME Succ(r) \in U PROVE FALSE
    <3>1. Succ(r) \in Pos(g) /\ g.ev[Succ(r)].stamp <= n
      BY <1>3, <2>2 DEF ViewFromStamp
    <3>2. n < g.ev[Succ(r)].stamp
      BY <1>1, <1>2, <1>3, <2>1, <3>1 DEF Stamped
    <3>3. n \in Nat /\ g.ev[Succ(r)].stamp \in Nat
      BY <1>1, <1>2, <1>3, <3>1 DEF Typed, Label
    <3> QED
      BY <3>1, <3>2, <3>3
  <2> QED
    BY <2>2
<1>11. Succ(r) \notin P
  <2> SUFFICES ASSUME Succ(r) \in P PROVE FALSE
    OBVIOUS
  <2>1. r = <<Succ(r)[1], r[2]>> /\ r[2] \in 1..Succ(r)[2]
    BY <1>1, <1>2 DEF Succ, Typed, Event
  <2> QED
    BY <1>5, <1>7, <2>1
<1> QED
  BY <1>5, <1>9, <1>10, <1>11

Fixed(lab) == [lab EXCEPT !.rev = FALSE]
FixPrefix(g, P) ==
    [g EXCEPT !.ev = [e \in Pos(g) |-> IF e \in P THEN Fixed(g.ev[e]) ELSE g.ev[e]]]

(* setRevisitable(false) changes nothing else of a label. *)
LEMMA FixedShape ==
    ASSUME NEW lab \in Label, NEW l, l = Fixed(lab)
    PROVE  /\ l \in Label /\ SameCore(l, lab) /\ l.stamp = lab.stamp /\ l.rf = lab.rf
           /\ l.rev = FALSE
BY DEF Label, Fixed, SameCore

(* setRevisitStatus(false) for the prefix of the revisiting store. *)
LEMMA FixTrims ==
    ASSUME NEW g, NEW D, NEW V, NEW n, NEW k, Trimmed(g, k, V, n, D), NEW P,
           NEW h, h = FixPrefix(k, P)
    PROVE  /\ Trimmed(g, h, V, n, D)
           /\ \A e \in V \cap P : ~h.ev[e].rev
           /\ \A e \in V \ P : h.ev[e].rev = k.ev[e].rev
<1>1. /\ Typed(k) /\ Pos(k) = V /\ Stamped(k) /\ CoListsStores(k, {})
      /\ \A e \in V : SameCore(k.ev[e], g.ev[e])
      /\ \A e \in V : IF g.ev[e].stamp <= n THEN k.ev[e].stamp = g.ev[e].stamp
                                            ELSE k.ev[e].stamp > n
      /\ \A e \in V \ D : k.ev[e].rf = g.ev[e].rf
  BY DEF Trimmed
<1>2. PICK ev : ev = [e \in Pos(k) |-> IF e \in P THEN Fixed(k.ev[e]) ELSE k.ev[e]]
  OBVIOUS
<1>3. h = [k EXCEPT !.ev = ev]
  BY <1>2 DEF FixPrefix
<1>4. PICK m : m = [ev |-> ev, co |-> k.co, stamp |-> k.stamp]
  OBVIOUS
<1>5. h = m
  BY <1>1, <1>3, <1>4 DEF Typed
<1>6. /\ m.ev = ev /\ m.co = k.co /\ m.stamp = k.stamp
      /\ m = [ev |-> m.ev, co |-> m.co, stamp |-> m.stamp]
  BY ONLY <1>4
<1>7. /\ DOMAIN ev = V /\ ev = [e \in V |-> ev[e]]
      /\ \A e \in V \cap P : ev[e] = Fixed(k.ev[e])
      /\ \A e \in V \ P : ev[e] = k.ev[e]
  BY <1>1, <1>2
<1>8. \A e \in V : k.ev[e] \in Label
  BY <1>1 DEF Typed
<1>9. \A e \in V \cap P : /\ ev[e] \in Label /\ SameCore(ev[e], k.ev[e]) /\ ev[e].rev = FALSE
                          /\ ev[e].stamp = k.ev[e].stamp /\ ev[e].rf = k.ev[e].rf
  <2> SUFFICES ASSUME NEW e \in V \cap P
               PROVE  /\ ev[e] \in Label /\ SameCore(ev[e], k.ev[e]) /\ ev[e].rev = FALSE
                      /\ ev[e].stamp = k.ev[e].stamp /\ ev[e].rf = k.ev[e].rf
    OBVIOUS
  <2>1. k.ev[e] \in Label /\ ev[e] = Fixed(k.ev[e])
    BY <1>7, <1>8
  <2> QED
    BY ONLY <2>1, FixedShape
<1>10. \A e \in V : SameCore(ev[e], k.ev[e]) /\ ev[e].stamp = k.ev[e].stamp /\ ev[e].rf = k.ev[e].rf
  BY <1>7, <1>9 DEF SameCore
<1>11. Pos(m) = V /\ m.ev \in [Pos(m) -> Label]
  BY <1>6, <1>7, <1>8, <1>9 DEF Pos
<1>12. Typed(m)
  <2>1. k.co \in [Word -> Seq(Event)] /\ V \subseteq Event /\ k.stamp \in Nat \ {0}
    BY <1>1 DEF Typed
  <2> QED
    BY ONLY <1>6, <1>11, <2>1 DEF Typed
<1>13. Stamped(m)
  BY <1>1, <1>6, <1>10, <1>11 DEF Stamped
<1>14. CoListsStores(m, {})
  <2>1. \A x : StoresTo(m, x) = StoresTo(k, x)
    BY <1>1, <1>6, <1>10, <1>11 DEF StoresTo, SameCore
  <2> QED
    BY <1>1, <1>6, <2>1 DEF CoListsStores
<1>15. \A e \in V : SameCore(m.ev[e], g.ev[e])
  BY <1>1, <1>6, <1>10 DEF SameCore
<1>16. Trimmed(g, m, V, n, D)
  BY <1>1, <1>6, <1>10, <1>11, <1>12, <1>13, <1>14, <1>15, SMTT(30) DEF Trimmed
<1> QED
  BY <1>5, <1>6, <1>7, <1>9, <1>16

(* copyGraph() for the revisit of read r by store s *)
CopiedGraph(g, r, s, V) ==
    RepairDanglingReads(FixPrefix(CompressStampsAfter(RestrictTo(g, V), g.ev[r].stamp),
                                  PrefixView(g, s)))

(* The copy that a backward revisit makes is well formed up to the rf of   *)
(* the read it revisits, which may take any value.                         *)
LEMMA CopiedOK ==
    ASSUME NEW Z, NEW g, GraphOK(Z, g), NEW r \in Reads(g), g.ev[r].rev,
           NEW s \in Pos(g), g.ev[s].op = "W", r \notin g.ev[s].pre,
           g.ev[s].loc = g.ev[r].loc,
           NEW V, V = ViewFromStamp(g, g.ev[r].stamp) \cup g.ev[s].pre,
           NEW h, h = CopiedGraph(g, r, s, V)
    PROVE  /\ GraphBut(Z, h, {r}) /\ Unsettled(h, r) /\ r \in Reads(h) /\ Succ(r) \notin Pos(h)
           /\ s \in StoresTo(h, h.ev[r].loc) /\ h.ev[r].bytes = g.ev[r].bytes
<1>1. /\ Typed(g) /\ Stamped(g) /\ RfsGiven(g, {}) /\ ViewsClosed(g)
  BY DEF GraphOK, GraphBut
<1>2. r \in Pos(g) /\ g.ev[r].op = "R"
  BY DEF Reads
<1>3. PICK n, P, D : n = g.ev[r].stamp /\ P = g.ev[s].pre /\ D = {r}
  OBVIOUS
<1>4. Keepable(g, V, D) /\ Succ(r) \notin V /\ V \subseteq Pos(g)
  BY <1>3, RevisitKeepable DEF Keepable
<1>5. n \in Nat /\ n < g.stamp
  BY <1>1, <1>2, <1>3 DEF Stamped, Typed, Label
<1>6. \A e : e \in V <=> (e \in Pos(g) /\ g.ev[e].stamp <= n) \/ e \in P
  BY <1>3 DEF ViewFromStamp
<1>7. PICK j : j = CompressStampsAfter(RestrictTo(g, V), n)
  OBVIOUS
<1>8. Trimmed(g, j, V, n, D) /\ \A e \in V : j.ev[e].rev = g.ev[e].rev
  <2>1. ViewFromStamp(g, n) \subseteq V
    BY <1>6 DEF ViewFromStamp
  <2>2. Keepable(g, V, D)
    BY <1>4
  <2>3. /\ Trimmed(g, j, V, n, D)
        /\ \A e \in V : j.ev[e].rev = g.ev[e].rev
        /\ V \subseteq ViewFromStamp(g, n) => j.stamp = n + 1
    BY ONLY GraphOK(Z, g), <2>2, <1>5, <1>7, <2>1, CutTrims
  <2> QED
    BY <2>3
<1>9. PICK k : k = FixPrefix(j, P)
  OBVIOUS
<1>10. /\ Trimmed(g, k, V, n, D)
       /\ \A e \in V \cap P : ~k.ev[e].rev
       /\ \A e \in V \ P : k.ev[e].rev = j.ev[e].rev
  <2>1. Trimmed(g, j, V, n, D)
    BY <1>8
  <2> QED
    BY ONLY <2>1, <1>9, FixTrims
<1>11. h = RepairDanglingReads(k)
  BY <1>3, <1>7, <1>9 DEF CopiedGraph, PrefixView
<1>12. \A e \in D : e \in Pos(g) => g.ev[e].op = "R" /\ g.ev[e].stamp = n
  BY <1>2, <1>3
<1>13. /\ Trimmed(g, h, V, n, D)
       /\ \A e \in V : h.ev[e].rev = k.ev[e].rev
  <2>1. \A e \in D : e \in Pos(g) => g.ev[e].op = "R"
    BY <1>12
  <2>2. Trimmed(g, k, V, n, D) /\ Keepable(g, V, D) /\ Typed(g) /\ RfsGiven(g, {})
    BY <1>1, <1>4, <1>10
  <2> QED
    BY ONLY <1>11, <2>1, <2>2, RepairTrims
<1>14. \A e \in V : h.ev[e].rev => g.ev[e].rev /\ g.ev[e].stamp <= n
  BY <1>6, <1>8, <1>10, <1>13
<1>15. GraphBut(Z, h, D)
  <2>1. Trimmed(g, h, V, n, D) /\ Keepable(g, V, D) /\ n \in Nat
    BY <1>4, <1>5, <1>13
  <2> QED
    BY ONLY GraphOK(Z, g), <2>1, <1>12, <1>14, TrimmedOK
<1>16. /\ Pos(h) = V /\ r \in V /\ h.ev[r].stamp = n
       /\ \A e \in V : SameCore(h.ev[e], g.ev[e])
       /\ \A e \in V : g.ev[e].stamp <= n => h.ev[e].stamp = g.ev[e].stamp
  <2>1. r \in V /\ g.ev[r].stamp <= n
    BY <1>2, <1>3, <1>5, <1>6
  <2>2. /\ Pos(h) = V
        /\ \A e \in V : SameCore(h.ev[e], g.ev[e])
        /\ \A e \in V : g.ev[e].stamp <= n => h.ev[e].stamp = g.ev[e].stamp
    BY <1>13 DEF Trimmed
  <2> QED
    BY <1>3, <2>1, <2>2
<1>17. Unsettled(h, r)
  <2>1. \A e \in V \ {r} : r \notin h.ev[e].pre
    BY <1>3, <1>4, <1>16 DEF Keepable, SameCore
  <2>2. \A c \in V : h.ev[c].rev => h.ev[c].stamp <= n
    BY <1>14, <1>16
  <2> QED
    BY <1>16, <2>1, <2>2 DEF Unsettled
<1>18. s \in V
  BY <1>1, <1>3, <1>6, SMTT(30) DEF ViewsClosed
<1>19. /\ h.ev[r].op = "R" /\ h.ev[r].loc = g.ev[r].loc /\ h.ev[r].bytes = g.ev[r].bytes
       /\ h.ev[s].op = "W" /\ h.ev[s].loc = g.ev[s].loc
  BY <1>2, <1>16, <1>18 DEF SameCore
<1> QED
  BY <1>3, <1>4, <1>15, <1>16, <1>17, <1>18, <1>19 DEF Reads, StoresTo

-----------------------------------------------------------------------------
(* Work items. *)

(* A work item depends on the labels up to its stamp only. *)
LEMMA ItemKept ==
    ASSUME NEW Z, NEW g, GraphOK(Z, g), NEW h, Typed(h), NEW n \in Nat, Agree(g, h, n),
           NEW q, ItemOK(g, q), q.stamp <= n
    PROVE  ItemOK(h, q)
<1>1. \A e \in Pos(g) : g.ev[e].stamp \in Nat
  BY DEF GraphOK, GraphBut, Typed, Label
<1>2. PICK U : U = ViewFromStamp(g, n)
  OBVIOUS
<1>3. \A e : e \in U <=> e \in Pos(g) /\ g.ev[e].stamp <= n
  BY <1>2 DEF ViewFromStamp
<1>4. \A e : e \in U <=> e \in Pos(h) /\ h.ev[e].stamp <= n
  BY <1>2 DEF ViewFromStamp, Agree
<1>5. \A e \in U : /\ h.ev[e].op = g.ev[e].op /\ h.ev[e].loc = g.ev[e].loc
                   /\ h.ev[e].bytes = g.ev[e].bytes /\ h.ev[e].pre = g.ev[e].pre
                   /\ h.ev[e].stamp = g.ev[e].stamp /\ h.ev[e].rev = g.ev[e].rev
  BY <1>2 DEF Agree, SameButRf, SameCore
<1>6. PICK o : o = Owner(q)
  OBVIOUS
<1>7. o \in Pos(g) /\ g.ev[o].stamp = q.stamp /\ g.ev[o].rev /\ o \in U /\ q.stamp \in Nat
  BY <1>1, <1>3, <1>6 DEF ItemOK
<1>8. o \in Pos(h) /\ h.ev[o].stamp = q.stamp /\ h.ev[o].rev
  BY <1>4, <1>5, <1>7
<1>9. CASE q.kind = "read" /\ ReadItemOK(g, q)
  <2>1. o = q.pos
    BY <1>6, <1>9 DEF Owner
  <2>2. PICK w \in StoresTo(g, g.ev[q.pos].loc) \cup {InitPos} :
           q.rfs = << <<w, g.ev[q.pos].bytes>> >> /\ Stamp(g, w) < q.stamp
    BY <1>9 DEF ReadItemOK
  <2>3. g.ev[q.pos].op = "R"
    BY <1>9 DEF ReadItemOK
  <2>4. CASE w = InitPos
    <3>1. Stamp(h, w) < q.stamp
      BY <2>2, <2>4 DEF Stamp
    <3> QED
      BY <1>5, <1>6, <1>7, <1>8, <1>9, <2>1, <2>2, <2>3, <2>4, <3>1 DEF ItemOK, ReadItemOK
  <2>5. CASE w # InitPos
    <3>1. w \in U
      BY <1>1, <1>3, <1>7, <2>2, <2>5 DEF Stamp, StoresTo
    <3>2. Stamp(h, w) < q.stamp /\ w \in StoresTo(h, h.ev[q.pos].loc)
      BY <1>4, <1>5, <1>7, <2>1, <2>2, <2>5, <3>1 DEF Stamp, StoresTo
    <3> QED
      BY <1>5, <1>6, <1>7, <1>8, <1>9, <2>1, <2>2, <2>3, <3>2 DEF ItemOK, ReadItemOK
  <2> QED
    BY <2>4, <2>5
<1>10. CASE q.kind = "back" /\ BackItemOK(g, q)
  <2>1. o = q.rev
    BY <1>6, <1>10 DEF Owner
  <2>2. PICK r, s : r = q.pos /\ s = q.rev
    OBVIOUS
  <2>3. /\ g.ev[s].op = "W"
        /\ r \in Pos(g) /\ g.ev[r].op = "R" /\ g.ev[r].rev
        /\ g.ev[r].loc = g.ev[s].loc
        /\ g.ev[r].stamp < g.ev[s].stamp
        /\ r \notin g.ev[s].pre
        /\ q.rfs = << <<s, g.ev[r].bytes>> >>
        /\ q.view = ViewFromStamp(g, g.ev[r].stamp) \cup g.ev[s].pre
    BY <1>10, <2>2 DEF BackItemOK
  <2>4. s \in U /\ r \in U
    BY <1>1, <1>3, <1>7, <2>1, <2>2, <2>3
  <2>5. ViewFromStamp(g, g.ev[r].stamp) = ViewFromStamp(h, h.ev[r].stamp)
    <3>1. g.ev[r].stamp \in Nat /\ g.ev[r].stamp <= n /\ h.ev[r].stamp = g.ev[r].stamp
      BY <1>1, <1>3, <1>5, <2>4
    <3>2. ASSUME NEW e \in Pos(g), g.ev[e].stamp <= g.ev[r].stamp
          PROVE  e \in Pos(h) /\ h.ev[e].stamp <= h.ev[r].stamp
      <4>1. e \in U
        BY <1>1, <1>3, <3>1, <3>2
      <4> QED
        BY <1>4, <1>5, <3>1, <3>2, <4>1
    <3>3. ASSUME NEW e \in Pos(h), h.ev[e].stamp <= h.ev[r].stamp
          PROVE  e \in Pos(g) /\ g.ev[e].stamp <= g.ev[r].stamp
      <4>0. h.ev[e].stamp \in Nat
        BY <3>3 DEF Typed, Label
      <4>1. e \in U
        BY <1>4, <3>1, <3>3, <4>0
      <4> QED
        BY <1>3, <1>5, <3>1, <3>3, <4>1
    <3> QED
      BY <3>2, <3>3 DEF ViewFromStamp
  <2>6. BackItemOK(h, q)
    BY <1>4, <1>5, <2>2, <2>3, <2>4, <2>5 DEF BackItemOK
  <2> QED
    BY <1>6, <1>8, <1>10, <2>6 DEF ItemOK
<1>11. CASE q.kind = "mo" /\ PlaceItemOK(g, q)
  <2>1. o = q.pos
    BY <1>6, <1>11 DEF Owner
  <2>2. g.ev[q.pos].op = "W" /\ q.succ \in Pos(g) /\ g.ev[q.succ].stamp <= q.stamp
    BY <1>11 DEF PlaceItemOK
  <2>3. q.succ \in U
    BY <1>1, <1>3, <1>7, <2>2
  <2>4. PlaceItemOK(h, q)
    BY <1>4, <1>5, <1>7, <2>1, <2>2, <2>3 DEF PlaceItemOK
  <2> QED
    BY <1>6, <1>8, <1>11, <2>4 DEF ItemOK
<1> QED
  BY <1>9, <1>10, <1>11 DEF ItemOK
=============================================================================
