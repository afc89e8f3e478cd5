-------------------------- MODULE ExplorationProofs --------------------------
(***************************************************************************)
(* The exploration keeps its graphs and its work items well formed, for    *)
(* every number of threads and words and every program whose accesses to a *)
(* word all have one size.                                                 *)
(***************************************************************************)
EXTENDS CutProofs

-----------------------------------------------------------------------------
(* The reads-from choices of a read. *)

(* Every store gives all of the bytes that read r asks for. *)
WholeStores(g, r, stores) ==
    /\ stores \in Seq(Source) /\ stores # <<>>
    /\ g.ev[r].bytes # {}
    /\ \A k \in DOMAIN stores : stores[k] = InitPos \/ g.ev[stores[k]].bytes = g.ev[r].bytes

RfBytes(g, r, stores, k) ==
    IF stores[k] = InitPos THEN g.ev[r].bytes
    ELSE g.ev[stores[k]].bytes \cap g.ev[r].bytes

RfUsed(g, r, stores, U, k) ==
    RfBytes(g, r, stores, k) \ UNION {RfBytes(g, r, stores, j) : j \in {j \in U : j > k}}

RfSeen(g, r, stores, U, k) ==
    \E w \in Range(CoSucc(g, stores[k], Part(g.ev[r], RfUsed(g, r, stores, U, k)))) :
        IsWriteRfBefore(g, w, r, Part(g.ev[r], RfUsed(g, r, stores, U, k)))

RfChoices(g, r, stores, mustUse) ==
    {U \in SUBSET (DOMAIN stores) :
        /\ UNION {RfBytes(g, r, stores, k) : k \in U} = g.ev[r].bytes
        /\ \A k \in U : RfUsed(g, r, stores, U, k) # {} /\ ~RfSeen(g, r, stores, U, k)
        /\ mustUse \subseteq {stores[k] : k \in U}}

OlderChoice(C) ==
    {p \in C \X C : p[1] # p[2] /\ Max((p[1] \cup p[2]) \ (p[1] \cap p[2])) \in p[2]}

RfsOf(g, r, stores, U) ==
    LET ks == Sorted(U, {p \in U \X U : p[1] > p[2]})
    IN  [n \in DOMAIN ks |-> <<stores[ks[n]], RfUsed(g, r, stores, U, ks[n])>>]

(* RfOptions in terms of the parts above. *)
LEMMA RfOptionsParts ==
    ASSUME NEW g, NEW r, NEW stores, NEW mustUse, NEW C, C = RfChoices(g, r, stores, mustUse),
           NEW ordered, ordered = Sorted(C, OlderChoice(C))
    PROVE  RfOptions(g, r, stores, mustUse) =
             [n \in DOMAIN ordered |-> RfsOf(g, r, stores, ordered[n])]
<1>1. RfOptions(g, r, stores, mustUse) =
        [n \in DOMAIN Sorted(RfChoices(g, r, stores, mustUse), OlderChoice(RfChoices(g, r, stores, mustUse))) |->
           RfsOf(g, r, stores, Sorted(RfChoices(g, r, stores, mustUse),
                                      OlderChoice(RfChoices(g, r, stores, mustUse)))[n])]
  BY Zenon DEF RfOptions, RfChoices, OlderChoice, RfsOf, RfSeen, RfUsed, RfBytes
<1> QED
  BY <1>1

(* When all stores are whole, a choice is a single store. *)
LEMMA ChoicesAreSingle ==
    ASSUME NEW g, NEW r, NEW stores, WholeStores(g, r, stores), NEW mustUse,
           NEW U \in RfChoices(g, r, stores, mustUse)
    PROVE  \E k \in DOMAIN stores : U = {k} /\ mustUse \subseteq {stores[k]}
<1>1. DOMAIN stores \subseteq Nat
  BY DEF WholeStores
<1>2. \A k \in DOMAIN stores : RfBytes(g, r, stores, k) = g.ev[r].bytes
  BY DEF RfBytes, WholeStores
<1>3. /\ U \subseteq DOMAIN stores
      /\ UNION {RfBytes(g, r, stores, k) : k \in U} = g.ev[r].bytes
      /\ \A k \in U : RfUsed(g, r, stores, U, k) # {}
      /\ mustUse \subseteq {stores[k] : k \in U}
  BY DEF RfChoices
<1>4. PICK k \in U : TRUE
  BY <1>3 DEF WholeStores
<1>5. ASSUME NEW i \in U, NEW j \in U, i < j PROVE FALSE
  <2>1. RfUsed(g, r, stores, U, i) = {}
    BY <1>1, <1>2, <1>3, <1>5 DEF RfUsed
  <2> QED
    BY <1>3, <2>1
<1>6. U = {k}
  BY <1>1, <1>3, <1>4, <1>5
<1> QED
  BY <1>3, <1>6

(* A single whole store gives all of the bytes. *)
LEMMA SingleUsed ==
    ASSUME NEW g, NEW r, NEW stores, WholeStores(g, r, stores), NEW k \in DOMAIN stores
    PROVE  RfUsed(g, r, stores, {k}, k) = g.ev[r].bytes
<1>1. k \in Nat
  BY DEF WholeStores
<1>2. RfBytes(g, r, stores, k) = g.ev[r].bytes
  BY DEF RfBytes, WholeStores
<1>3. {j \in {k} : j > k} = {}
  BY <1>1
<1> QED
  BY <1>2, <1>3 DEF RfUsed

(* The reads-from of a choice of one store. *)
LEMMA SingleRfs ==
    ASSUME NEW g, NEW r, NEW stores, WholeStores(g, r, stores), NEW k \in DOMAIN stores
    PROVE  RfsOf(g, r, stores, {k}) = << <<stores[k], g.ev[r].bytes>> >>
<1>1. k \in Nat
  BY DEF WholeStores
<1>2. PICK U : U = {k}
  OBVIOUS
<1>3. PICK R : R = {p \in U \X U : p[1] > p[2]}
  OBVIOUS
<1>4. TotalOrder(U, R)
  BY <1>1, <1>2, <1>3 DEF TotalOrder
<1>5. IsFiniteSet(U) /\ Cardinality(U) = 1
  BY <1>2, FS_Singleton
<1>6. PICK ks : ks = Sorted(U, R)
  OBVIOUS
<1>7. Enumerates(ks, U) /\ DOMAIN ks = 1..1
  BY <1>4, <1>5, <1>6, SortedEnumerates
<1>8. ks[1] = k
  BY <1>2, <1>7, EnumeratesElements
<1>9. RfsOf(g, r, stores, U) = [n \in DOMAIN ks |-> <<stores[ks[n]], RfUsed(g, r, stores, U, ks[n])>>]
  BY <1>3, <1>6 DEF RfsOf
<1>10. PICK p : p = <<stores[k], g.ev[r].bytes>>
  OBVIOUS
<1>11. \A n \in 1..1 : <<stores[ks[n]], RfUsed(g, r, stores, U, ks[n])>> = p
  <2>1. \A n \in 1..1 : n = 1
    OBVIOUS
  <2> QED
    BY <1>2, <1>8, <1>10, <2>1, SingleUsed
<1>12. RfsOf(g, r, stores, U) = [n \in 1..1 |-> p]
  BY <1>7, <1>9, <1>11
<1>13. [n \in 1..1 |-> p] = <<p>>
  OBVIOUS
<1> QED
  BY <1>2, <1>10, <1>12, <1>13

(* The choices are finitely many, and ordered by their store. *)
LEMMA ChoicesOrdered ==
    ASSUME NEW g, NEW r, NEW stores, WholeStores(g, r, stores), NEW mustUse,
           NEW C, C = RfChoices(g, r, stores, mustUse)
    PROVE  IsFiniteSet(C) /\ TotalOrder(C, OlderChoice(C))
<1>1. DOMAIN stores \subseteq Nat /\ DOMAIN stores = 1..Len(stores) /\ Len(stores) \in Nat
  BY DEF WholeStores
<1>2. IsFiniteSet(C)
  <2>1. IsFiniteSet(DOMAIN stores)
    BY <1>1, FS_Interval
  <2>2. IsFiniteSet(SUBSET (DOMAIN stores))
    BY <2>1, FS_SUBSET
  <2>3. C \in SUBSET (SUBSET (DOMAIN stores))
    BY DEF RfChoices
  <2> QED
    BY <2>2, <2>3, FS_Subset
<1>3. \A U \in C : \E k \in Nat : U = {k}
  BY <1>1, ChoicesAreSingle
<1>4. ASSUME NEW j \in Nat, NEW k \in Nat, {j} \in C, {k} \in C
      PROVE  <<{j}, {k}>> \in OlderChoice(C) <=> j < k
  <2>1. CASE j = k
    BY <2>1 DEF OlderChoice
  <2>2. CASE j # k
    <3>1. ({j} \cup {k}) \ ({j} \cap {k}) = {j, k}
      BY <2>2
    <3>2. PICK m : m = Max({j, k})
      OBVIOUS
    <3>3. \E x \in {j, k} : \A y \in {j, k} : x >= y
      OBVIOUS
    <3>4. m \in {j, k} /\ \A y \in {j, k} : m >= y
      BY <3>2, <3>3, Zenon DEF Max
    <3>5. m \in {k} <=> j < k
      BY <2>2, <3>4
    <3>6. {j} # {k}
      BY <2>2
    <3> QED
      BY <1>4, <3>1, <3>2, <3>5, <3>6 DEF OlderChoice
  <2> QED
    BY <2>1, <2>2
<1>5. PICK R : R = OlderChoice(C)
  OBVIOUS
<1>6. \A U \in C : <<U, U>> \notin R
  BY <1>5 DEF OlderChoice
<1>7. ASSUME NEW U \in C, NEW V \in C, U # V PROVE <<U, V>> \in R \/ <<V, U>> \in R
  <2>1. PICK j, k \in Nat : U = {j} /\ V = {k}
    BY <1>3
  <2>2. j < k \/ k < j
    BY <1>7, <2>1
  <2> QED
    BY <1>4, <1>5, <2>1, <2>2
<1>8. ASSUME NEW U \in C, NEW V \in C, NEW W \in C, <<U, V>> \in R, <<V, W>> \in R
      PROVE  <<U, W>> \in R
  <2>1. PICK i, j, k \in Nat : U = {i} /\ V = {j} /\ W = {k}
    BY <1>3
  <2>2. i < j /\ j < k
    BY <1>4, <1>5, <1>8, <2>1
  <2>3. i < k
    BY <2>2
  <2> QED
    BY <1>4, <1>5, <2>1, <2>3
<1> QED
  BY <1>2, <1>5, <1>6, <1>7, <1>8 DEF TotalOrder

(* What enumerateRfOptions() returns: one whole store at a time. *)
LEMMA RfOptionsWhole ==
    ASSUME NEW g, NEW r, NEW stores, WholeStores(g, r, stores), NEW mustUse,
           NEW opts, opts = RfOptions(g, r, stores, mustUse)
    PROVE  /\ opts \in Seq(Range(opts))
           /\ \A n \in DOMAIN opts : \E k \in DOMAIN stores :
                opts[n] = << <<stores[k], g.ev[r].bytes>> >> /\ mustUse \subseteq {stores[k]}
           /\ RfChoices(g, r, stores, mustUse) # {} => Len(opts) > 0
<1>1. PICK C : C = RfChoices(g, r, stores, mustUse)
  OBVIOUS
<1>2. PICK R : R = OlderChoice(C)
  OBVIOUS
<1>3. IsFiniteSet(C) /\ TotalOrder(C, R)
  BY <1>1, <1>2, ChoicesOrdered
<1>4. PICK ordered : ordered = Sorted(C, R)
  OBVIOUS
<1>5. Enumerates(ordered, C) /\ DOMAIN ordered = 1..Cardinality(C)
  BY <1>3, <1>4, SortedEnumerates
<1>6. opts = [n \in DOMAIN ordered |-> RfsOf(g, r, stores, ordered[n])]
  BY <1>1, <1>2, <1>4, RfOptionsParts
<1>7. Cardinality(C) \in Nat
  BY <1>3, FS_CardinalityType
<1>8. DOMAIN opts = 1..Cardinality(C)
  BY <1>5, <1>6
<1>9. ASSUME NEW n \in DOMAIN opts
      PROVE  \E k \in DOMAIN stores :
               opts[n] = << <<stores[k], g.ev[r].bytes>> >> /\ mustUse \subseteq {stores[k]}
  <2>1. ordered[n] \in C /\ opts[n] = RfsOf(g, r, stores, ordered[n])
    <3>1. n \in DOMAIN ordered
      BY <1>5, <1>8
    <3>2. ordered[n] \in C
      BY <1>5, <3>1, EnumeratesElements
    <3> QED
      BY <1>6, <3>1, <3>2
  <2>2. PICK k \in DOMAIN stores : ordered[n] = {k} /\ mustUse \subseteq {stores[k]}
    BY <1>1, <2>1, ChoicesAreSingle
  <2>3. RfsOf(g, r, stores, {k}) = << <<stores[k], g.ev[r].bytes>> >>
    BY SingleRfs
  <2> QED
    BY <2>1, <2>2, <2>3
<1>10. opts \in Seq(Range(opts)) /\ Len(opts) = Cardinality(C)
  <2>1. opts = [n \in 1..Cardinality(C) |-> opts[n]]
    BY <1>5, <1>6
  <2>2. \A n \in 1..Cardinality(C) : opts[n] \in Range(opts)
    BY <1>8 DEF Range
  <2> HIDE DEF Range
  <2> QED
    BY ONLY <1>7, <2>1, <2>2
<1>11. ASSUME C # {} PROVE Cardinality(C) > 0
  <2>1. Cardinality(C) # 0
    BY <1>3, <1>11, FS_EmptySet
  <2> QED
    BY <1>7, <2>1
<1> QED
  BY <1>1, <1>9, <1>10, <1>11

(* The stores that overlap an access depend on its word and bytes only. *)
LEMMA CoOfPart ==
    ASSUME NEW g, NEW a, NEW b, a.loc = b.loc, a.bytes = b.bytes
    PROVE  Co(g, a) = Co(g, b)
<1>1. \A e : Overlaps(e, a) <=> Overlaps(e, b)
  BY DEF Overlaps
<1>2. {k \in DOMAIN g.co[a.loc] : Overlaps(g.ev[g.co[a.loc][k]], a)}
        = {k \in DOMAIN g.co[b.loc] : Overlaps(g.ev[g.co[b.loc][k]], b)}
  BY <1>1
<1> QED
  BY <1>2 DEF Co

(* The initializer is not a label of a thread. *)
LEMMA InitIsNoEvent == InitPos \notin Event
BY DEF InitPos, Event, Thread

(* The stores a read may read from, when all accesses have one size. *)
LEMMA CoherentStoresWhole ==
    ASSUME NEW Z, NEW g, NEW D, GraphBut(Z, g, D), NEW r \in Pos(g),
           NEW a, a.loc = g.ev[r].loc, a.bytes = g.ev[r].bytes,
           NEW stores, stores = CoherentStores(g, a)
    PROVE  /\ WholeStores(g, r, stores)
           /\ \A k \in DOMAIN stores : stores[k] \in (StoresTo(g, a.loc) \ D) \cup {InitPos}
<1>1. Typed(g) /\ CoListsStores(g, D) /\ Sized(Z, g)
  BY DEF GraphBut
<1>2. a.loc \in Word /\ g.ev[r].bytes # {}
  BY <1>1 DEF Typed, Label
<1>3. PICK s : s = Co(g, a)
  OBVIOUS
<1>4. Enumerates(s, {e \in StoresTo(g, a.loc) \ D : Overlaps(g.ev[e], a)}) /\ s \in Seq(Event)
  BY <1>1, <1>2, <1>3, CoElements
<1>5. \A k \in DOMAIN s : s[k] \in StoresTo(g, a.loc) \ D
  BY <1>4, EnumeratesElements
<1>6. stores = <<InitPos>> \o s
  BY <1>3 DEF CoherentStores
<1>7. s \in Seq(Source) /\ InitPos \in Source
  <2>1. \A k \in 1..Len(s) : s[k] \in Source
    BY <1>4 DEF Source
  <2> QED
    BY <1>4, <2>1, SeqOver DEF Source
<1>8. /\ stores \in Seq(Source) /\ Len(stores) = 1 + Len(s) /\ Len(s) \in Nat
      /\ stores[1] = InitPos /\ \A k \in 1..Len(s) : stores[k + 1] = s[k]
  BY ONLY <1>6, <1>7
<1>9. ASSUME NEW k \in DOMAIN stores
      PROVE  stores[k] \in (StoresTo(g, a.loc) \ D) \cup {InitPos}
  <2>1. CASE k = 1
    BY <1>8, <2>1
  <2>2. CASE k # 1
    <3>1. k - 1 \in 1..Len(s) /\ (k - 1) + 1 = k
      BY <1>8, <2>2
    <3>2. stores[k] = s[k - 1] /\ k - 1 \in DOMAIN s
      BY <1>4, <1>8, <3>1
    <3> QED
      BY <1>5, <3>2
  <2> QED
    BY <2>1, <2>2
<1>10. \A e \in StoresTo(g, a.loc) : g.ev[e].bytes = g.ev[r].bytes
  BY <1>1 DEF Sized, StoresTo
<1>11. stores # <<>>
  BY ONLY <1>8
<1>12. WholeStores(g, r, stores)
  BY <1>2, <1>8, <1>9, <1>10, <1>11 DEF WholeStores
<1> QED
  BY <1>9, <1>12

(* The coherence-latest store is always a choice. *)
LEMMA LatestIsChoice ==
    ASSUME NEW Z, NEW g, NEW D, GraphBut(Z, g, D), NEW r \in Pos(g),
           NEW a, a.loc = g.ev[r].loc, a.bytes = g.ev[r].bytes,
           NEW stores, stores = CoherentStores(g, a)
    PROVE  RfChoices(g, r, stores, {}) # {}
<1>1. Typed(g) /\ CoListsStores(g, D)
  BY DEF GraphBut
<1>2. WholeStores(g, r, stores)
  BY CoherentStoresWhole
<1>3. PICK N : N = Len(stores)
  OBVIOUS
<1>4. N \in DOMAIN stores /\ N \in Nat \ {0}
  BY <1>2, <1>3 DEF WholeStores
<1>5. PICK b : b = Part(g.ev[r], RfUsed(g, r, stores, {N}, N))
  OBVIOUS
<1>6. b.loc = a.loc /\ b.bytes = a.bytes
  BY <1>2, <1>4, <1>5, SingleUsed DEF Part
<1>7. PICK s : s = Co(g, a)
  OBVIOUS
<1>8. s = Co(g, b)
  BY <1>6, <1>7, CoOfPart
<1>9. a.loc \in Word
  BY <1>1 DEF Typed, Label
<1>10. Enumerates(s, {e \in StoresTo(g, a.loc) \ D : Overlaps(g.ev[e], a)}) /\ s \in Seq(Event)
  BY <1>1, <1>7, <1>9, CoElements
<1>11. stores = <<InitPos>> \o s
  BY <1>7 DEF CoherentStores
<1>12. s \in Seq(Source) /\ InitPos \in Source
  <2>1. \A k \in 1..Len(s) : s[k] \in Source
    BY <1>10 DEF Source
  <2> QED
    BY <1>10, <2>1, SeqOver DEF Source
<1>13. /\ N = 1 + Len(s) /\ Len(s) \in Nat
       /\ stores[1] = InitPos /\ \A k \in 1..Len(s) : stores[k + 1] = s[k]
  BY ONLY <1>3, <1>11, <1>12
<1>14. Range(CoSucc(g, stores[N], b)) = {}
  <2>1. CASE Len(s) = 0
    <3>1. stores[N] = InitPos /\ s = <<>>
      BY <1>10, <1>13, <2>1
    <3>2. CoSucc(g, stores[N], b) = <<>>
      BY <1>8, <3>1 DEF CoSucc
    <3> QED
      BY <3>2 DEF Range
  <2>2. CASE Len(s) > 0
    <3>1. PICK m : m = Len(s)
      OBVIOUS
    <3>2. m \in 1..m /\ stores[N] = s[m] /\ s[m] \in Event /\ m \in Nat
      BY <1>10, <1>13, <2>2, <3>1
    <3>3. stores[N] # InitPos
      BY <3>2, InitIsNoEvent
    <3>4. PICK I : I = {i \in 1..Len(s) : s[i] = stores[N]}
      OBVIOUS
    <3>5. I = {m}
      BY <1>10, <3>1, <3>2, <3>4, EnumeratesElements
    <3>6. \E i \in I : \A j \in I : i =< j
      BY <3>2, <3>5
    <3>7. Min(I) = m
      <4>1. Min(I) \in I
        BY <3>6, Zenon DEF Min
      <4> QED
        BY <3>5, <4>1
    <3>8. SelectInSeq(s, LAMBDA e : e = stores[N]) = m
      BY <3>4, <3>5, <3>7 DEF SelectInSeq
    <3>9. CoSucc(g, stores[N], b) = SubSeq(s, m + 1, m)
      BY <1>8, <3>1, <3>3, <3>8 DEF CoSucc
    <3>10. PICK u : u = SubSeq(s, m + 1, m)
      OBVIOUS
    <3>11. u \in Seq(Event) /\ Len(u) = 0
      BY ONLY <1>10, <3>1, <3>2, <3>10
    <3>12. DOMAIN u = {}
      BY <3>11
    <3> QED
      BY <3>9, <3>10, <3>12 DEF Range
  <2> QED
    BY <1>13, <2>1, <2>2
<1>15. ~RfSeen(g, r, stores, {N}, N)
  BY <1>5, <1>14 DEF RfSeen
<1>16. RfUsed(g, r, stores, {N}, N) = g.ev[r].bytes /\ g.ev[r].bytes # {}
  <2>1. RfUsed(g, r, stores, {N}, N) = g.ev[r].bytes
    BY <1>2, <1>4, SingleUsed
  <2> QED
    BY <1>2, <2>1 DEF WholeStores
<1>17. RfBytes(g, r, stores, N) = g.ev[r].bytes
  BY <1>2, <1>4 DEF RfBytes, WholeStores
<1>18. {N} \in RfChoices(g, r, stores, {})
  BY <1>4, <1>15, <1>16, <1>17 DEF RfChoices
<1> QED
  BY <1>18

-----------------------------------------------------------------------------
(* Queues. *)

IsQueue(g, q) == q \in Seq(Range(q)) /\ QueueOK(g, q)

(* A sequence is one over its own elements. *)
LEMMA SeqOverRange ==
    ASSUME NEW S, NEW s, s \in Seq(S)
    PROVE  s \in Seq(Range(s))
<1>1. \A k \in 1..Len(s) : s[k] \in Range(s)
  BY DEF Range
<1> QED
  BY <1>1

(* The elements of u are elements of s or of t. *)
MadeOf(u, s, t) ==
    \A k \in DOMAIN u : \/ \E j \in DOMAIN s : u[k] = s[j]
                        \/ \E j \in DOMAIN t : u[k] = t[j]

(* The elements of a concatenation come from one of its parts. *)
LEMMA ConcatElements ==
    ASSUME NEW S, NEW T, NEW s, s \in Seq(S), NEW t, t \in Seq(T), NEW u, u = s \o t
    PROVE  u \in Seq(S \cup T) /\ MadeOf(u, s, t)
<1>1. s \in Seq(S \cup T) /\ t \in Seq(S \cup T) /\ Len(s) \in Nat /\ Len(t) \in Nat
  OBVIOUS
<1>2. u \in Seq(S \cup T) /\ Len(u) = Len(s) + Len(t)
  BY <1>1
<1>3. /\ \A k \in 1..Len(s) : u[k] = s[k]
      /\ \A k \in 1..Len(t) : u[Len(s) + k] = t[k]
  BY <1>1
<1>4. ASSUME NEW k \in DOMAIN u, k \notin 1..Len(s)
      PROVE  \E j \in DOMAIN t : u[k] = t[j]
  <2>1. k - Len(s) \in 1..Len(t) /\ Len(s) + (k - Len(s)) = k
    BY <1>1, <1>2, <1>4
  <2> QED
    BY <1>1, <1>3, <2>1
<1> QED
  BY <1>1, <1>2, <1>3, <1>4 DEF MadeOf

(* Adding items to a queue. *)
LEMMA QueueConcat ==
    ASSUME NEW g, NEW p, IsQueue(g, p), NEW q, IsQueue(g, q), NEW u, u = p \o q
    PROVE  IsQueue(g, u)
<1>1. p \in Seq(Range(p)) /\ q \in Seq(Range(q))
  BY DEF IsQueue
<1>2. PICK S, T : S = Range(p) /\ T = Range(q)
  OBVIOUS
<1>3. p \in Seq(S) /\ q \in Seq(T)
  BY <1>1, <1>2
<1>4. u \in Seq(S \cup T) /\ MadeOf(u, p, q)
  BY ONLY <1>3, u = p \o q, ConcatElements
<1>5. u \in Seq(Range(u))
  BY <1>4, SeqOverRange
<1>6. QueueOK(g, u)
  BY <1>4 DEF QueueOK, IsQueue, MadeOf
<1> QED
  BY <1>5, <1>6 DEF IsQueue

(* A set of items added in any order. *)
LEMMA QueueOfSet ==
    ASSUME NEW g, NEW S, IsFiniteSet(S), \A q \in S : ItemOK(g, q), NEW u, u = SetToSeq(S)
    PROVE  IsQueue(g, u)
<1>1. Enumerates(u, S)
  BY EnumeratesSetToSeq
<1>2. u \in Seq(S) /\ \A k \in DOMAIN u : u[k] \in S
  BY <1>1, EnumeratesElements
<1>3. u \in Seq(Range(u))
  BY <1>2, SeqOverRange
<1> QED
  BY <1>2, <1>3 DEF IsQueue, QueueOK

(* The items of a queue whose labels are left alone stay in order. *)
LEMMA QueueKept ==
    ASSUME NEW Z, NEW g, GraphOK(Z, g), NEW h, Typed(h), NEW n \in Nat, Agree(g, h, n),
           NEW q, IsQueue(g, q), \A k \in DOMAIN q : q[k].stamp <= n
    PROVE  IsQueue(h, q)
<1>1. \A k \in DOMAIN q : ItemOK(h, q[k])
  BY ItemKept DEF IsQueue, QueueOK
<1> QED
  BY <1>1 DEF IsQueue, QueueOK

(* All the items of a queue are stamped by labels of the graph. *)
LEMMA ItemStamps ==
    ASSUME NEW Z, NEW g, GraphOK(Z, g), NEW q, ItemOK(g, q)
    PROVE  q.stamp \in Nat \ {0} /\ q.stamp <= g.stamp - 1
<1>1. \A e \in Pos(g) : g.ev[e].stamp \in 1..(g.stamp - 1)
  BY DEF GraphOK, GraphBut, Stamped
<1>2. q.stamp \in 1..(g.stamp - 1) /\ g.stamp \in Nat
  BY <1>1 DEF ItemOK, GraphOK, GraphBut, Typed
<1> QED
  BY <1>2

-----------------------------------------------------------------------------
(* The work items that a store gives rise to. *)

(* Store s has just been added to graph g, or is the last label left of it.*)
IsLatest(g, s) ==
    /\ s \in Pos(g) /\ g.ev[s].op = "W" /\ g.ev[s].rev
    /\ g.ev[s].stamp = g.stamp - 1

BackItem(g, s, r) ==
    [kind |-> "back", stamp |-> g.ev[s].stamp, pos |-> r, rev |-> s,
     rfs |-> << <<s, g.ev[r].bytes>> >>,
     view |-> ViewFromStamp(g, g.ev[r].stamp) \cup g.ev[s].pre]

(* Accesses of one size keep no other store. *)
LEMMA KeepsNothing ==
    ASSUME NEW Z, NEW g, GraphOK(Z, g), NEW r \in Pos(g), NEW s
    PROVE  KeepSets(g, r, s) = {{}}
<1>1. Typed(g) /\ CoListsStores(g, {}) /\ Sized(Z, g)
  BY DEF GraphOK, GraphBut
<1>2. g.ev[r].loc \in Word
  BY <1>1 DEF Typed, Label
<1>3. Range(Co(g, g.ev[r])) \subseteq StoresTo(g, g.ev[r].loc)
  <2>1. Enumerates(Co(g, g.ev[r]), {e \in StoresTo(g, g.ev[r].loc) \ {} : Overlaps(g.ev[e], g.ev[r])})
    BY <1>1, <1>2, CoElements
  <2> QED
    BY <2>1 DEF Enumerates
<1>4. \A w \in Range(Co(g, g.ev[r])) : SameAccess(g.ev[w], g.ev[r])
  BY <1>1, <1>3 DEF StoresTo, Sized, SameAccess
<1> QED
  BY <1>4 DEF KeepSets

(* The backward revisit of r by s, if there is one, reads s alone. *)
LEMMA BackItemsAre ==
    ASSUME NEW Z, NEW g, GraphOK(Z, g), NEW r \in Pos(g), NEW s \in Pos(g),
           NEW q \in BackItems(g, s, r, {})
    PROVE  q = BackItem(g, s, r)
<1>1. PICK stores, M : stores = CoherentStores(g, g.ev[r]) /\ M = {} \cup {s}
  OBVIOUS
<1>2. PICK opts : opts = RfOptions(g, r, stores, M)
  OBVIOUS
<1>3. PICK view : view = RevisitView(g, r, s, {})
  OBVIOUS
<1>4. PICK rfs \in Range(opts) :
         q = [kind |-> "back", stamp |-> g.ev[s].stamp, pos |-> r, rev |-> s,
              rfs |-> rfs, view |-> view]
  BY <1>1, <1>2, <1>3 DEF BackItems
<1>5. view = ViewFromStamp(g, g.ev[r].stamp) \cup g.ev[s].pre
  <2>1. UNION {PrefixView(g, w) : w \in {} \cup {s}} = PrefixView(g, s)
    OBVIOUS
  <2> QED
    BY <1>3, <2>1 DEF RevisitView, PrefixView
<1>6. WholeStores(g, r, stores)
  <2>1. GraphBut(Z, g, {})
    BY DEF GraphOK
  <2> QED
    BY <1>1, <2>1, CoherentStoresWhole
<1>7. \A n \in DOMAIN opts : \E k \in DOMAIN stores :
         opts[n] = << <<stores[k], g.ev[r].bytes>> >> /\ M \subseteq {stores[k]}
  BY <1>2, <1>6, RfOptionsWhole
<1>8. rfs = << <<s, g.ev[r].bytes>> >>
  <2>1. PICK n \in DOMAIN opts : rfs = opts[n]
    BY <1>4 DEF Range
  <2>2. PICK k \in DOMAIN stores :
           opts[n] = << <<stores[k], g.ev[r].bytes>> >> /\ M \subseteq {stores[k]}
    BY <1>7
  <2>3. stores[k] = s
    BY <1>1, <2>2
  <2> QED
    BY <2>1, <2>2, <2>3
<1> QED
  BY <1>4, <1>5, <1>8 DEF BackItem

(* The items that calcRevisits() adds for the latest store are good for    *)
(* the graph.                                                              *)
LEMMA BackItemIsOK ==
    ASSUME NEW Z, NEW g, GraphOK(Z, g), NEW s, IsLatest(g, s), NEW r \in Revisitable(g, s),
           NEW q, q = BackItem(g, s, r)
    PROVE  ItemOK(g, q)
<1>1. /\ r \in Pos(g) /\ g.ev[r].op = "R" /\ g.ev[r].rev /\ g.ev[r].loc = g.ev[s].loc
      /\ r \notin g.ev[s].pre
  BY DEF Revisitable, Reads, Overlaps, PrefixView
<1>2. s \in Pos(g) /\ g.ev[s].op = "W" /\ g.ev[s].rev /\ g.ev[s].stamp = g.stamp - 1
  BY DEF IsLatest
<1>3. Stamped(g) /\ Typed(g)
  BY DEF GraphOK, GraphBut
<1>4. g.ev[r].stamp < g.ev[s].stamp
  <2>1. g.ev[r].stamp # g.ev[s].stamp
    BY <1>1, <1>2, <1>3 DEF Stamped
  <2>2. g.ev[r].stamp \in 1..(g.stamp - 1) /\ g.stamp \in Nat
    BY <1>1, <1>3 DEF Stamped, Typed
  <2> QED
    BY <1>2, <2>1, <2>2
<1>5. /\ q.kind = "back" /\ q.stamp = g.ev[s].stamp /\ q.pos = r /\ q.rev = s
      /\ q.rfs = << <<s, g.ev[r].bytes>> >>
      /\ q.view = ViewFromStamp(g, g.ev[r].stamp) \cup g.ev[s].pre
  BY DEF BackItem
<1>6. Owner(q) = s
  BY <1>5 DEF Owner
<1>7. BackItemOK(g, q)
  BY <1>1, <1>2, <1>4, <1>5 DEF BackItemOK
<1> QED
  BY <1>2, <1>5, <1>6, <1>7 DEF ItemOK

(* The images of finitely many positions are finitely many. *)
LEMMA BackwardItemsOK ==
    ASSUME NEW Z, NEW g, GraphOK(Z, g), NEW s, IsLatest(g, s)
    PROVE  IsFiniteSet(BackwardItems(g, s)) /\ \A q \in BackwardItems(g, s) : ItemOK(g, q)
<1>1. s \in Pos(g)
  BY DEF IsLatest
<1>2. ASSUME NEW q \in BackwardItems(g, s)
      PROVE  \E r \in Revisitable(g, s) : r \in Pos(g) /\ q = BackItem(g, s, r)
  <2>1. PICK r \in {l \in Revisitable(g, s) : L2R(l, s)} :
              q \in UNION {BackItems(g, s, r, keep) : keep \in KeepSets(g, r, s)}
    BY <1>2 DEF BackwardItems
  <2>2. r \in Pos(g) /\ r \in Revisitable(g, s)
    BY <2>1 DEF Revisitable, Reads
  <2>3. PICK keep \in KeepSets(g, r, s) : q \in BackItems(g, s, r, keep)
    BY <2>1
  <2>4. keep = {}
    BY <2>2, <2>3, KeepsNothing
  <2>5. q \in BackItems(g, s, r, {})
    BY <2>3, <2>4
  <2> QED
    BY <1>1, <2>2, <2>5, BackItemsAre
<1>3. \A q \in BackwardItems(g, s) : ItemOK(g, q)
  BY <1>2, BackItemIsOK
<1>4. IsFiniteSet(BackwardItems(g, s))
  <2>1. PICK f : f = [r \in Pos(g) |-> BackItem(g, s, r)]
    OBVIOUS
  <2>2. PICK T : T = {f[r] : r \in Pos(g)}
    OBVIOUS
  <2>3. f \in Surjection(Pos(g), T)
    BY <2>1, <2>2 DEF Surjection
  <2>4. IsFiniteSet(Pos(g))
    BY PositionsFinite DEF GraphOK, GraphBut
  <2>5. IsFiniteSet(T)
    BY <2>3, <2>4, FS_Surjection
  <2>6. BackwardItems(g, s) \in SUBSET T
    BY <1>2, <2>1, <2>2
  <2> QED
    BY <2>5, <2>6, FS_Subset
<1> QED
  BY <1>3, <1>4

(* calcRevisits() adds items that can be taken. *)
LEMMA CalcRevisitsOK ==
    ASSUME NEW Z, NEW g, GraphOK(Z, g), NEW s, IsLatest(g, s), NEW q, IsQueue(g, q),
           NEW u, u = CalcRevisits(q, g, s)
    PROVE  IsQueue(g, u)
<1>1. PICK B : B = BackwardItems(g, s)
  OBVIOUS
<1>2. IsFiniteSet(B) /\ \A b \in B : ItemOK(g, b)
  BY <1>1, BackwardItemsOK
<1>3. PICK v : v = SetToSeq(B)
  OBVIOUS
<1>4. IsQueue(g, v)
  BY <1>2, <1>3, QueueOfSet
<1>5. u = q \o v
  BY <1>1, <1>3 DEF CalcRevisits
<1> QED
  BY <1>4, <1>5, QueueConcat

PlaceItem(g, s, w) == [kind |-> "mo", stamp |-> g.ev[s].stamp, pos |-> s, succ |-> w]

(* calcCoOrderings() adds items that can be taken. *)
LEMMA PlacingItemsOK ==
    ASSUME NEW Z, NEW g, NEW s, GraphBut(Z, g, {s}), IsLatest(g, s), NEW h, h.ev = g.ev,
           NEW B, B = PlacingItems(g, s)
    PROVE  IsFiniteSet(B) /\ \A q \in B : ItemOK(h, q)
<1>1. Typed(g) /\ Stamped(g) /\ CoListsStores(g, {s}) /\ Sized(Z, g)
  BY DEF GraphBut
<1>2. s \in Pos(g) /\ g.ev[s].op = "W" /\ g.ev[s].rev /\ g.ev[s].stamp = g.stamp - 1
  BY DEF IsLatest
<1>3. g.ev[s].loc \in Word
  BY <1>1, <1>2 DEF Typed, Label
<1>4. PICK c : c = Co(g, g.ev[s])
  OBVIOUS
<1>5. /\ Enumerates(c, {e \in StoresTo(g, g.ev[s].loc) \ {s} : Overlaps(g.ev[e], g.ev[s])})
      /\ c \in Seq(Event)
  BY <1>1, <1>3, <1>4, CoElements, ZenonT(60)
<1>6. \A k \in DOMAIN c : c[k] \in StoresTo(g, g.ev[s].loc)
  BY <1>5, EnumeratesElements
<1>7. PICK places : places = IF IsRMWStore(g.ev[s]) THEN <<>> ELSE CoherentPlacings(g, s)
  OBVIOUS
<1>8. Range(places) \subseteq StoresTo(g, g.ev[s].loc)
  <2>1. CASE IsRMWStore(g.ev[s])
    <3>1. places = <<>>
      BY <1>7, <2>1
    <3>2. Range(places) = {}
      BY <3>1 DEF Range
    <3> QED
      BY <3>2
  <2>2. CASE ~IsRMWStore(g.ev[s])
    <3>1. PICK I : I = {k \in DOMAIN c : \A j \in k..Len(c) : ~IsWriteRfBefore(g, c[j], s, g.ev[s])}
      OBVIOUS
    <3>2. places = Picked(c, I) /\ I \in SUBSET (DOMAIN c)
      BY <1>4, <1>7, <2>2, <3>1 DEF CoherentPlacings
    <3>3. Range(places) = {c[k] : k \in I}
      BY <1>5, <3>2, PickedProps
    <3> QED
      BY <1>6, <3>2, <3>3
  <2> QED
    BY <2>1, <2>2
<1>9. \A w \in Range(places) : SameAccess(g.ev[w], g.ev[s])
  BY <1>1, <1>2, <1>8 DEF StoresTo, Sized, SameAccess
<1>10. ASSUME NEW q \in B PROVE \E w \in Pos(g) : q = PlaceItem(g, s, w)
  <2>1. \E w \in Range(places) : q = PlaceItem(g, s, w)
    BY <1>7, <1>9, <1>10 DEF PlacingItems, PlaceItem
  <2> QED
    BY <1>8, <2>1 DEF StoresTo
<1>11. ASSUME NEW q \in B PROVE ItemOK(h, q)
  <2>1. PICK w \in Pos(g) : q = PlaceItem(g, s, w)
    BY <1>10, <1>11
  <2>2. q.kind = "mo" /\ q.stamp = g.ev[s].stamp /\ q.pos = s /\ q.succ = w
    BY <2>1 DEF PlaceItem
  <2>3. Owner(q) = s
    BY <2>2 DEF Owner
  <2>4. g.ev[w].stamp <= g.ev[s].stamp
    <3>1. g.ev[w].stamp \in 1..(g.stamp - 1) /\ g.stamp \in Nat
      BY <1>1 DEF Stamped, Typed
    <3> QED
      BY <1>2, <3>1
  <2>5. Pos(h) = Pos(g)
    BY DEF Pos
  <2>6. PlaceItemOK(h, q)
    BY <1>2, <2>2, <2>4, <2>5 DEF PlaceItemOK
  <2> QED
    BY <1>2, <2>2, <2>3, <2>5, <2>6 DEF ItemOK
<1>12. IsFiniteSet(B)
  <2>1. PICK f : f = [w \in Pos(g) |-> PlaceItem(g, s, w)]
    OBVIOUS
  <2>2. PICK T : T = {f[w] : w \in Pos(g)}
    OBVIOUS
  <2>3. f \in Surjection(Pos(g), T)
    BY <2>1, <2>2 DEF Surjection
  <2>4. IsFiniteSet(Pos(g))
    BY <1>1, PositionsFinite
  <2>5. IsFiniteSet(T)
    BY <2>3, <2>4, FS_Surjection
  <2>6. B \in SUBSET T
    BY <1>10, <2>1, <2>2
  <2> QED
    BY <2>5, <2>6, FS_Subset
<1> QED
  BY <1>11, <1>12

-----------------------------------------------------------------------------
(* The labels that threads add. *)

(* An instruction of a uniform program has the width of its word. *)
LEMMA InstructionWidth ==
    ASSUME prog \in Program, Uniform(prog), NEW t \in Thread, NEW k \in DOMAIN prog[t],
           NEW i, i = prog[t][k]
    PROVE  i \in Instruction /\ i.bytes = Width(prog)[i.loc]
<1>1. prog \in [Thread -> Seq(Instruction)]
  BY ProgramAssumption
<1>2. i \in Instruction /\ DOMAIN prog = Thread
  BY <1>1
<1>3. i.loc \in Word /\ i.bytes \in SUBSET Byte
  BY <1>2 DEF Instruction
<1>4. PICK x : x = i.loc
  OBVIOUS
<1>5. PICK a : a = <<t, k>>
  OBVIOUS
<1>6. a \in AccessesTo(prog, x) /\ prog[a[1]][a[2]] = i
  BY <1>2, <1>4, <1>5 DEF AccessesTo
<1>7. \A b \in AccessesTo(prog, x) : prog[b[1]][b[2]].bytes = i.bytes
  BY <1>3, <1>4, <1>6 DEF Uniform, OneSize
<1>8. \E b \in SUBSET Byte : \E c \in AccessesTo(prog, x) : b = prog[c[1]][c[2]].bytes
  BY <1>3, <1>6
<1>9. PICK w : w = CHOOSE b \in SUBSET Byte : \E c \in AccessesTo(prog, x) : b = prog[c[1]][c[2]].bytes
  OBVIOUS
<1>10. \E c \in AccessesTo(prog, x) : w = prog[c[1]][c[2]].bytes
  BY <1>8, <1>9, Zenon
<1>11. w = i.bytes
  BY <1>7, <1>10
<1>12. Width(prog)[x] = w
  BY <1>3, <1>4, <1>9 DEF Width
<1> QED
  BY <1>2, <1>4, <1>11, <1>12

(* The label of an instruction of a program of one size per word. *)
LEMMA InstrLabelFresh ==
    ASSUME NEW Z, NEW i \in Instruction, i.bytes = Z[i.loc], NEW k \in Nat,
           NEW lab, lab = InstrLabel(i, k)
    PROVE  IsFresh(Z, lab)
<1>1. /\ i.op \in {"R", "W", "XCHG", "CAS"} /\ i.loc \in Word /\ i.bytes \in (SUBSET Byte) \ {{}}
      /\ i.val \in Int /\ i.exp \in Int /\ i.sync \in BOOLEAN
  BY DEF Instruction
<1>2. PICK op, rmw, rf : /\ op = IF i.op = "W" THEN "W" ELSE "R"
                         /\ rmw = IF i.op \in {"XCHG", "CAS"} THEN i.op ELSE "none"
                         /\ rf = <<>>
  OBVIOUS
<1>3. op \in {"R", "W"} /\ rmw \in {"none", "XCHG", "CAS"} /\ rf \in Seq(Source \X SUBSET Byte)
  BY <1>1, <1>2
<1>4. lab = [op |-> op, rmw |-> rmw, loc |-> i.loc, bytes |-> i.bytes, val |-> i.val,
             exp |-> i.exp, sync |-> i.sync, pc |-> k, stamp |-> 0, rf |-> rf, max |-> TRUE,
             rev |-> TRUE, pre |-> {}]
  BY <1>2 DEF InstrLabel
<1>5. lab \in Label
  BY <1>1, <1>3, <1>4 DEF Label
<1>6. lab.bytes = i.bytes /\ lab.loc = i.loc /\ lab.rf = rf /\ lab.rev
  BY ONLY <1>4
<1> QED
  BY <1>2, <1>5, <1>6 DEF IsFresh

(* The label of the store of an RMW has the word and size of its read. *)
LEMMA RMWStoreLabelFresh ==
    ASSUME NEW Z, NEW lab \in Label, lab.bytes = Z[lab.loc], NEW l, l = RMWStoreLabel(lab)
    PROVE  IsFresh(Z, l) /\ l.op = "W" /\ l.loc = lab.loc /\ l.bytes = lab.bytes
<1>1. PICK rf : rf = <<>>
  OBVIOUS
<1>2. rf \in Seq(Source \X SUBSET Byte)
  BY <1>1
<1>3. l = [lab EXCEPT !.op = "W", !.rf = rf, !.max = TRUE, !.rev = TRUE]
  BY <1>1 DEF RMWStoreLabel
<1>4. /\ l \in Label /\ l.op = "W" /\ l.loc = lab.loc /\ l.bytes = lab.bytes
      /\ l.rf = rf /\ l.rev
  BY ONLY <1>2, <1>3, lab \in Label DEF Label
<1> QED
  BY <1>1, <1>4 DEF IsFresh

(* What a thread adds next fits into the graph. *)
LEMMA NextLabelFresh ==
    ASSUME prog \in Program, Uniform(prog), NEW g, GraphOK(Width(prog), g),
           NEW t \in Thread, NEW lab \in NextLabels(g, t)
    PROVE  IsFresh(Width(prog), lab)
<1>1. Typed(g) /\ Stamped(g) /\ Contiguous(g) /\ Sized(Width(prog), g)
  BY DEF GraphOK, GraphBut
<1>2. PICK n : n = Size(g, t)
  OBVIOUS
<1>3. n \in Nat /\ \A k \in Nat \ {0} : <<t, k>> \in Pos(g) <=> k <= n
  BY <1>1, <1>2, ThreadPositions
<1>4. n > 0 => <<t, n>> \in Pos(g)
  BY <1>3
<1>5. PICK last : last = g.ev[<<t, n>>]
  OBVIOUS
<1>6. n > 0 => last \in Label /\ last.bytes = Width(prog)[last.loc] /\ last.pc \in Nat
  BY <1>1, <1>4, <1>5 DEF Typed, Sized, Label
<1>7. PICK pc : pc = IF n = 0 THEN 0 ELSE last.pc
  OBVIOUS
<1>8. pc \in Nat
  BY <1>3, <1>6, <1>7
<1>9. NextLabels(g, t) =
        IF n > 0 /\ last.op = "R" /\ Succeeds(g, <<t, n>>)
        THEN {RMWStoreLabel(last)}
        ELSE {InstrLabel(prog[t][k], k) :
                k \in {m \in {pc + 1} : m <= Len(prog[t]) /\ GuardHolds(g, t, prog[t][m])}}
  BY <1>2, <1>5, <1>7 DEF NextLabels
<1>10. CASE n > 0 /\ last.op = "R" /\ Succeeds(g, <<t, n>>)
  <2>1. lab = RMWStoreLabel(last)
    BY <1>9, <1>10
  <2> QED
    BY <1>6, <1>10, <2>1, RMWStoreLabelFresh
<1>11. CASE ~(n > 0 /\ last.op = "R" /\ Succeeds(g, <<t, n>>))
  <2>1. lab = InstrLabel(prog[t][pc + 1], pc + 1) /\ pc + 1 <= Len(prog[t])
    BY <1>9, <1>11
  <2>2. PICK k, i : k = pc + 1 /\ i = prog[t][k]
    OBVIOUS
  <2>3. k \in DOMAIN prog[t] /\ k \in Nat
    <3>1. prog[t] \in Seq(Instruction)
      BY ProgramAssumption
    <3> QED
      BY <1>8, <2>1, <2>2, <3>1
  <2>4. i \in Instruction /\ i.bytes = Width(prog)[i.loc]
    BY <2>2, <2>3, InstructionWidth
  <2>5. lab = InstrLabel(i, k)
    BY <2>1, <2>2
  <2> QED
    BY <2>3, <2>4, <2>5, InstrLabelFresh
<1> QED
  BY <1>10, <1>11

(* The interpreter adds at the end of a thread. *)
LEMMA NextPosition ==
    ASSUME NEW Z, NEW g, GraphOK(Z, g), NEW t \in Thread, NEW e, e = <<t, Size(g, t) + 1>>
    PROVE  IsNext(g, e)
<1>1. Typed(g) /\ Stamped(g) /\ Contiguous(g)
  BY DEF GraphOK, GraphBut
<1>2. PICK n : n = Size(g, t)
  OBVIOUS
<1>3. n \in Nat /\ \A k \in Nat \ {0} : <<t, k>> \in Pos(g) <=> k <= n
  BY <1>1, <1>2, ThreadPositions
<1>4. e = <<t, n + 1>>
  BY <1>2
<1>5. n + 1 \in Nat \ {0} /\ ~(n + 1 <= n)
  BY <1>3
<1>6. e \in Event /\ e \notin Pos(g)
  BY <1>3, <1>4, <1>5 DEF Event
<1>7. e[1] = t /\ e[2] - 1 = n
  BY <1>3, <1>4
<1>8. \A k \in 1..n : <<t, k>> \in Pos(g)
  BY <1>3
<1> QED
  BY <1>6, <1>7, <1>8 DEF IsNext

-----------------------------------------------------------------------------
(* Revisiting a read. *)

LEMMA AgreeAfterRf ==
    ASSUME NEW b, NEW g, NEW n, Agree(b, g, n), NEW r \in Pos(g), NEW h, OnlyRfOf(g, h, r)
    PROVE  Agree(b, h, n)
<1>1. Pos(h) = Pos(g) /\ \A e \in Pos(g) : SameButRf(h.ev[e], g.ev[e])
  BY DEF OnlyRfOf, SameButRf, SameCore
<1>2. ViewFromStamp(h, n) = ViewFromStamp(g, n) /\ ViewFromStamp(g, n) \subseteq Pos(g)
  BY <1>1 DEF ViewFromStamp, SameButRf
<1>3. \A e \in ViewFromStamp(b, n) : SameButRf(h.ev[e], b.ev[e])
  BY <1>1, <1>2 DEF Agree, SameButRf, SameCore
<1> QED
  BY <1>2, <1>3 DEF Agree

(* A label that is stamped after n does not matter up to n. *)
LEMMA AgreeAfterLabel ==
    ASSUME NEW b, NEW g, NEW n \in Nat, Agree(b, g, n), NEW h, NEW e,
           Pos(h) = Pos(g) \cup {e}, \A f \in Pos(g) : h.ev[f] = g.ev[f],
           h.ev[e].stamp \in Nat, n < h.ev[e].stamp
    PROVE  Agree(b, h, n)
<1>1. ViewFromStamp(h, n) = ViewFromStamp(g, n) /\ ViewFromStamp(g, n) \subseteq Pos(g)
  BY DEF ViewFromStamp
<1>2. \A f \in ViewFromStamp(b, n) : SameButRf(h.ev[f], b.ev[f])
  BY <1>1 DEF Agree
<1> QED
  BY <1>1, <1>2 DEF Agree

(* A graph agrees with itself up to any stamp. *)
LEMMA AgreeRefl ==
    ASSUME NEW g, NEW n
    PROVE  Agree(g, g, n)
BY DEF Agree, SameButRf, SameCore

(* Agreement is about labels only. *)
LEMMA AgreeSameLabels ==
    ASSUME NEW b, NEW g, NEW n, Agree(b, g, n), NEW h, h.ev = g.ev
    PROVE  Agree(b, h, n)
<1>0. h.ev = g.ev
  OBVIOUS
<1>1. Pos(h) = Pos(g) /\ ViewFromStamp(h, n) = ViewFromStamp(g, n)
  BY ONLY <1>0, ZenonT(60) DEF ViewFromStamp, Pos
<1> QED
  BY <1>1, SMTT(30) DEF Agree

(* The store of a revisited RMW takes its place in coherence order. *)
CompletedCo(s, A, w) == Picked(s, (DOMAIN s) \ A) \o <<w>> \o Picked(s, A)

Completes(c, h, x, s, w) ==
    \E A \in SUBSET (DOMAIN s) : c = WithCo(h, x, CompletedCo(s, A, w))

(* completeRevisitedRMW() adds the store and gives it some place in        *)
(* coherence.                                                              *)
LEMMA CompleteRMWParts ==
    ASSUME NEW g, NEW r, NEW x, x = g.ev[r].loc, NEW s, s = g.co[x], NEW w, w = Succ(r),
           NEW h, h = AddLabelToGraph(g, w, RMWStoreLabel(g.ev[r])),
           NEW c, c = CompleteRMW(g, r)
    PROVE  Completes(c, h, x, s, w)
BY DEF Completes, CompleteRMW, WithCo, CompletedCo

(* completeRevisitedRMW() keeps the graph well formed. *)
LEMMA CompleteRMWOK ==
    ASSUME NEW Z, NEW g, GraphOK(Z, g), NEW r \in Pos(g), Succ(r) \notin Pos(g),
           NEW c, c = CompleteRMW(g, r)
    PROVE  /\ GraphOK(Z, c) /\ IsLatest(c, Succ(r))
           /\ Pos(c) = Pos(g) \cup {Succ(r)} /\ \A e \in Pos(g) : c.ev[e] = g.ev[e]
           /\ c.ev[Succ(r)].stamp = g.stamp
<1>1. /\ Typed(g) /\ Contiguous(g) /\ CoListsStores(g, {}) /\ Sized(Z, g)
  BY DEF GraphOK, GraphBut
<1>2. PICK x, s, w : x = g.ev[r].loc /\ s = g.co[x] /\ w = Succ(r)
  OBVIOUS
<1>3. PICK lab : lab = RMWStoreLabel(g.ev[r])
  OBVIOUS
<1>4. PICK h : h = AddLabelToGraph(g, w, lab)
  OBVIOUS
<1>5. PICK A \in SUBSET (DOMAIN s) : c = WithCo(h, x, CompletedCo(s, A, w))
  <2>1. x = g.ev[r].loc
    BY <1>2
  <2>2. s = g.co[x]
    BY <1>2
  <2>3. w = Succ(r)
    BY <1>2
  <2>4. h = AddLabelToGraph(g, w, RMWStoreLabel(g.ev[r]))
    BY <1>3, <1>4
  <2>5. c = CompleteRMW(g, r)
    OBVIOUS
  <2>6. Completes(c, h, x, s, w)
    BY ONLY <2>1, <2>2, <2>3, <2>4, <2>5, CompleteRMWParts
  <2> QED
    BY <2>6 DEF Completes
<1>6. IsFresh(Z, lab) /\ lab.op = "W" /\ lab.loc = x
  <2>1. PICK l : l = g.ev[r]
    OBVIOUS
  <2>2. l \in Label
    BY <1>1, <2>1 DEF Typed
  <2>3. l.bytes = Z[l.loc]
    BY <1>1, <2>1 DEF Sized
  <2>4. lab = RMWStoreLabel(l) /\ l.loc = x
    BY <1>2, <1>3, <2>1
  <2>5. IsFresh(Z, lab) /\ lab.op = "W" /\ lab.loc = l.loc /\ lab.bytes = l.bytes
    BY ONLY <2>2, <2>3, <2>4, RMWStoreLabelFresh
  <2> QED
    BY <2>4, <2>5
<1>7. IsNext(g, w)
  <2>1. r \in Event /\ r = <<r[1], r[2]>> /\ r[2] \in Nat \ {0} /\ r[1] \in Thread
    BY <1>1 DEF Typed, Event
  <2>2. w = <<r[1], r[2] + 1>>
    BY <1>2 DEF Succ
  <2>3. w \in Event /\ w[1] = r[1] /\ w[2] - 1 = r[2]
    BY <2>1, <2>2 DEF Event
  <2>4. \A k \in 1..r[2] : <<r[1], k>> \in Pos(g)
    BY <1>1 DEF Contiguous
  <2> QED
    BY <1>2, <2>3, <2>4 DEF IsNext
<1>8. /\ GraphBut(Z, h, {w})
      /\ Pos(h) = Pos(g) \cup {w} /\ h.co = g.co /\ h.stamp = g.stamp + 1
      /\ \A f \in Pos(g) : h.ev[f] = g.ev[f]
      /\ h.ev[w].op = "W" /\ h.ev[w].loc = x /\ h.ev[w].rev /\ h.ev[w].stamp = g.stamp
  <2>1. IsFresh(Z, lab)
    BY <1>6
  <2>2. GraphOK(Z, g)
    OBVIOUS
  <2>3. Added(Z, g, h, w, lab)
    BY ONLY <1>4, <1>7, <2>1, <2>2, AddLabelOK
  <2> QED
    BY <1>6, <2>3 DEF Added
<1>9. x \in Word /\ w \notin Pos(g)
  BY <1>1, <1>2 DEF Typed, Label
<1>10. PICK seq : seq = CompletedCo(s, A, w)
  OBVIOUS
<1>11. PICK D, E : D = {w} /\ E = {}
  OBVIOUS
<1>12. Enumerates(seq, StoresTo(h, x) \ E)
  <2>1. Enumerates(s, StoresTo(g, x))
    <3>1. Enumerates(g.co[x], StoresTo(g, x) \ {})
      BY <1>1, <1>9 DEF CoListsStores
    <3> QED
      BY <1>2, <3>1
  <2>2. w \notin StoresTo(g, x)
    BY <1>9 DEF StoresTo
  <2>3. StoresTo(h, x) \ E = StoresTo(g, x) \cup {w}
    BY <1>8, <1>11 DEF StoresTo
  <2>4. Enumerates(Picked(s, (DOMAIN s) \ A) \o <<w>> \o Picked(s, A), StoresTo(g, x) \cup {w})
    BY <2>1, <2>2, EnumeratesSplit
  <2> QED
    BY <1>10, <2>3, <2>4 DEF CompletedCo
<1>13. GraphBut(Z, c, E) /\ c.ev = h.ev /\ c.stamp = h.stamp
  <2>1. c = WithCo(h, x, seq)
    BY <1>5, <1>10
  <2>2. \A e \in D \cup E : e \in Pos(h) => h.ev[e].op = "W" /\ h.ev[e].loc = x
    BY <1>8, <1>11
  <2>3. GraphBut(Z, h, D) /\ x \in Word
    BY <1>8, <1>9, <1>11
  <2> QED
    BY ONLY <1>12, <2>1, <2>2, <2>3, SetCoOK
<1>14. GraphOK(Z, c) /\ Pos(c) = Pos(h)
  BY <1>11, <1>13 DEF GraphOK, Pos
<1>15. c.stamp - 1 = g.stamp
  BY <1>1, <1>8, <1>13 DEF Typed
<1>16. IsLatest(c, w)
  BY <1>8, <1>13, <1>14, <1>15 DEF IsLatest
<1> QED
  BY <1>2, <1>8, <1>13, <1>14, <1>16

(* revisitReadMIXER() changes the rf and then completes an RMW. *)
WithMax(g, r, m) == [g EXCEPT !.ev[r].max = m]

RevisitResult(top, h, c, q, r) ==
    \/ top.graph = h /\ top.queue = q
    \/ top.graph = c /\ top.queue = CalcRevisits(q, c, Succ(r))

(* revisitRead() sets rf and flag, and completes the RMW if there is one. *)
LEMMA RevisitReadParts ==
    ASSUME NEW g, NEW q, NEW r, NEW rfs, NEW max, NEW k, k = ChangeRf(g, r, rfs),
           NEW h, h = WithMax(k, r, max), NEW c, c = CompleteRMW(h, r),
           NEW top, top = RevisitRead(g, q, r, rfs, max)
    PROVE  RevisitResult(top, h, c, q, r)
BY DEF RevisitResult, RevisitRead, WithMax

(* Setting the rf and the maximality flag of a read. *)
LEMMA RevisitedRf ==
    ASSUME NEW Z, NEW g, NEW r \in Reads(g), GraphBut(Z, g, {r}), Unsettled(g, r),
           NEW w \in StoresTo(g, g.ev[r].loc) \cup {InitPos},
           NEW rfs, rfs = << <<w, g.ev[r].bytes>> >>, NEW max \in BOOLEAN,
           NEW k, k = ChangeRf(g, r, rfs), NEW h, h = WithMax(k, r, max)
    PROVE  GraphOK(Z, h) /\ OnlyRfOf(g, h, r)
<1>1. Typed(g) /\ r \in Pos(g)
  BY DEF GraphBut, Reads
<1>2. rfs \in Seq(Source \X SUBSET Byte)
  <2>1. w \in Source /\ g.ev[r].bytes \in SUBSET Byte
    BY <1>1 DEF Typed, Label, Source, StoresTo
  <2>2. PICK p : p = <<w, g.ev[r].bytes>>
    OBVIOUS
  <2>3. p \in Source \X SUBSET Byte /\ rfs = <<p>>
    BY <2>1, <2>2
  <2> QED
    BY <2>3
<1>3. OnlyRfOf(g, k, r) /\ k.ev[r].rf = rfs
  BY ONLY <1>1, <1>2, ChangeRfShape, k = ChangeRf(g, r, rfs)
<1>4. Typed(k) /\ r \in Pos(k)
  BY <1>1, <1>3 DEF OnlyRfOf
<1>5. OnlyRfOf(k, h, r) /\ h.ev[r].rf = k.ev[r].rf
  <2>1. h = [k EXCEPT !.ev[r].max = max]
    BY DEF WithMax
  <2> QED
    BY <1>4, <2>1, SetMaxShape
<1>6. OnlyRfOf(g, h, r)
  BY ONLY <1>1, <1>3, <1>5, OnlyRfTransitive, SMTT(30)
<1>7. h.ev[r].rf = << <<w, g.ev[r].bytes>> >>
  BY <1>3, <1>5
<1>8. /\ r \in Reads(g) /\ GraphBut(Z, g, {r}) /\ Unsettled(g, r)
      /\ w \in StoresTo(g, g.ev[r].loc) \cup {InitPos}
  OBVIOUS
<1> QED
  BY ONLY <1>6, <1>7, <1>8, SetRfOK

(* A revisited read leaves a graph that is well formed, and a queue whose  *)
(* items, those that are left and the new ones, are about that graph.      *)
LEMMA RevisitReadOK ==
    ASSUME NEW Z, NEW b, GraphOK(Z, b),
           NEW g, NEW r \in Reads(g), GraphBut(Z, g, {r}), Unsettled(g, r), Succ(r) \notin Pos(g),
           NEW w \in StoresTo(g, g.ev[r].loc) \cup {InitPos},
           NEW rfs, rfs = << <<w, g.ev[r].bytes>> >>, NEW max \in BOOLEAN,
           NEW n \in Nat, n < g.stamp, Agree(b, g, n),
           NEW q, IsQueue(b, q), \A k \in DOMAIN q : q[k].stamp <= n,
           NEW top, top = RevisitRead(g, q, r, rfs, max)
    PROVE  GraphOK(Z, top.graph) /\ IsQueue(top.graph, top.queue)
<1>1. PICK k : k = ChangeRf(g, r, rfs)
  OBVIOUS
<1>2. PICK h : h = WithMax(k, r, max)
  OBVIOUS
<1>3. PICK c : c = CompleteRMW(h, r)
  OBVIOUS
<1>4. RevisitResult(top, h, c, q, r)
  BY ONLY <1>1, <1>2, <1>3, RevisitReadParts, top = RevisitRead(g, q, r, rfs, max)
<1>5. /\ r \in Reads(g) /\ GraphBut(Z, g, {r}) /\ Unsettled(g, r)
      /\ w \in StoresTo(g, g.ev[r].loc) \cup {InitPos}
      /\ rfs = << <<w, g.ev[r].bytes>> >> /\ max \in BOOLEAN
  OBVIOUS
<1>6. GraphOK(Z, h) /\ OnlyRfOf(g, h, r)
  BY ONLY <1>1, <1>2, <1>5, RevisitedRf
<1>7. Typed(h) /\ Pos(h) = Pos(g) /\ h.stamp = g.stamp /\ r \in Pos(g) /\ g.stamp \in Nat
  BY <1>6 DEF OnlyRfOf, Reads, Typed
<1>8. Agree(b, h, n)
  <2>1. Agree(b, g, n) /\ r \in Pos(g)
    BY <1>7
  <2> QED
    BY ONLY <1>6, <2>1, AgreeAfterRf
<1>9. GraphOK(Z, b) /\ n \in Nat /\ IsQueue(b, q) /\ \A j \in DOMAIN q : q[j].stamp <= n
  OBVIOUS
<1>10. IsQueue(h, q)
  BY ONLY <1>7, <1>8, <1>9, QueueKept
<1>11. r \in Pos(h) /\ Succ(r) \notin Pos(h)
  BY <1>7
<1>12. /\ GraphOK(Z, c) /\ IsLatest(c, Succ(r))
       /\ Pos(c) = Pos(h) \cup {Succ(r)} /\ \A e \in Pos(h) : c.ev[e] = h.ev[e]
       /\ c.ev[Succ(r)].stamp = h.stamp
  BY ONLY <1>3, <1>6, <1>11, CompleteRMWOK
<1>13. Agree(b, c, n)
  <2>1. PICK e : e = Succ(r)
    OBVIOUS
  <2>2. /\ Pos(c) = Pos(h) \cup {e} /\ \A f \in Pos(h) : c.ev[f] = h.ev[f]
        /\ c.ev[e].stamp \in Nat /\ n < c.ev[e].stamp
    BY <1>7, <1>12, <2>1
  <2> QED
    BY ONLY <1>8, <1>9, <2>2, AgreeAfterLabel
<1>14. IsQueue(c, q)
  <2>1. Typed(c)
    BY <1>12 DEF GraphOK, GraphBut
  <2> QED
    BY ONLY <1>9, <1>13, <2>1, QueueKept
<1>15. PICK u : u = CalcRevisits(q, c, Succ(r))
  OBVIOUS
<1>16. IsQueue(c, u)
  <2>1. PICK s : s = Succ(r)
    OBVIOUS
  <2>2. GraphOK(Z, c) /\ IsLatest(c, s) /\ u = CalcRevisits(q, c, s)
    BY <1>12, <1>15, <2>1
  <2> QED
    BY ONLY <1>14, <2>2, CalcRevisitsOK
<1> QED
  BY <1>4, <1>6, <1>10, <1>12, <1>15, <1>16 DEF RevisitResult

-----------------------------------------------------------------------------
(* The work queue and the execution stack. *)

(* The order in which getNextItem() prefers items. *)
ItemOrder(q) ==
    {p \in (DOMAIN q) \X (DOMAIN q) :
        \/ q[p[1]].stamp < q[p[2]].stamp
        \/ q[p[1]].stamp = q[p[2]].stamp /\ p[1] < p[2]}

(* A queue that is not empty has a last item of the highest stamp. *)
LEMMA LatestItem ==
    ASSUME NEW q, q \in Seq(Range(q)), q # <<>>, \A k \in DOMAIN q : q[k].stamp \in Nat
    PROVE  \E k \in DOMAIN q : \A j \in DOMAIN q :
             \/ q[j].stamp < q[k].stamp
             \/ q[j].stamp = q[k].stamp /\ j <= k
<1>1. PICK S, R : S = DOMAIN q /\ R = ItemOrder(q)
  OBVIOUS
<1>2. PICK N \in Nat : S = 1..N /\ N > 0
  BY <1>1
<1>3. IsFiniteSet(S)
  BY <1>2, FS_Interval
<1>4. \A i, j \in S : <<i, j>> \in R <=>
        \/ q[i].stamp < q[j].stamp
        \/ q[i].stamp = q[j].stamp /\ i < j
  BY <1>1 DEF ItemOrder
<1>5. \A i \in S : i \in Nat /\ q[i].stamp \in Nat
  BY <1>1, <1>2
<1>6. TotalOrder(S, R)
  <2>1. \A x \in S : <<x, x>> \notin R
    BY <1>4, <1>5
  <2>2. \A x, y \in S : x # y => <<x, y>> \in R \/ <<y, x>> \in R
    BY <1>4, <1>5
  <2>3. ASSUME NEW x \in S, NEW y \in S, NEW z \in S, <<x, y>> \in R, <<y, z>> \in R
        PROVE  <<x, z>> \in R
    <3>1. PICK a \in Nat, b \in Nat, c \in Nat :
            a = q[x].stamp /\ b = q[y].stamp /\ c = q[z].stamp
      BY <1>5
    <3>2. a < b \/ (a = b /\ x < y)
      BY <1>4, <2>3, <3>1
    <3>3. b < c \/ (b = c /\ y < z)
      BY <1>4, <2>3, <3>1
    <3>4. x \in Nat /\ y \in Nat /\ z \in Nat
      BY <1>5
    <3>5. a < c \/ (a = c /\ x < z)
      BY ONLY <3>2, <3>3, <3>4, a \in Nat, b \in Nat, c \in Nat
    <3> QED
      BY <1>4, <3>1, <3>5
  <2> QED
    BY <2>1, <2>2, <2>3 DEF TotalOrder
<1>7. /\ Cardinality(S) \in Nat
      /\ \A x \in S : Cardinality(Below(S, R, x)) \in 0..(Cardinality(S) - 1)
      /\ \A n \in 0..(Cardinality(S) - 1) : \E x \in S : Cardinality(Below(S, R, x)) = n
  BY <1>3, <1>6, RanksNumber
<1>8. Cardinality(S) - 1 \in 0..(Cardinality(S) - 1)
  <2>1. Cardinality(S) = N
    BY <1>2, FS_Interval
  <2> QED
    BY <1>2, <2>1
<1>9. PICK k \in S : Cardinality(Below(S, R, k)) = Cardinality(S) - 1
  BY <1>7, <1>8
<1>10. ASSUME NEW j \in S
       PROVE  <<k, j>> \notin R
  <2>1. SUFFICES ASSUME <<k, j>> \in R PROVE FALSE
    OBVIOUS
  <2>2. Cardinality(Below(S, R, k)) < Cardinality(Below(S, R, j))
    BY <1>3, <1>6, <2>1, RankGrows
  <2> QED
    BY <1>7, <1>9, <2>2
<1>11. \A j \in S : \/ q[j].stamp < q[k].stamp
                    \/ q[j].stamp = q[k].stamp /\ j <= k
  <2>1. SUFFICES ASSUME NEW j \in S
                 PROVE  \/ q[j].stamp < q[k].stamp
                        \/ q[j].stamp = q[k].stamp /\ j <= k
    OBVIOUS
  <2>2. PICK a \in Nat, b \in Nat : a = q[j].stamp /\ b = q[k].stamp
    BY <1>5
  <2>3. ~(b < a \/ (b = a /\ k < j))
    BY <1>4, <1>10, <2>2
  <2>4. j \in Nat /\ k \in Nat
    BY <1>5
  <2>5. a < b \/ (a = b /\ j <= k)
    BY ONLY <2>3, <2>4, a \in Nat, b \in Nat
  <2> QED
    BY <2>2, <2>5
<1> QED
  BY <1>1, <1>11

(* Taking an item out of a queue. *)
LEMMA Removed ==
    ASSUME NEW s, s \in Seq(Range(s)), NEW k \in DOMAIN s, NEW u, u = RemoveAt(s, k)
    PROVE  u \in Seq(Range(s)) /\ \A j \in DOMAIN u : \E i \in DOMAIN s : u[j] = s[i]
<1>1. PICK T : T = Range(s)
  OBVIOUS
<1>2. s \in Seq(T) /\ Len(s) \in Nat /\ DOMAIN s = 1..Len(s) /\ k \in 1..Len(s)
  BY <1>1
<1>3. PICK a, b : a = SubSeq(s, 1, k - 1) /\ b = SubSeq(s, k + 1, Len(s))
  OBVIOUS
<1>4. u = a \o b
  BY <1>3 DEF RemoveAt
<1>5. a \in Seq(T) /\ b \in Seq(T)
  BY <1>2, <1>3
<1>6. u \in Seq(T)
  BY <1>4, <1>5
<1>7. \A j \in DOMAIN u : u[j] \in T
  BY <1>6
<1>8. \A x \in T : \E i \in DOMAIN s : x = s[i]
  BY <1>1 DEF Range
<1> QED
  BY <1>1, <1>6, <1>7, <1>8

(* getNextItem(): an item of the highest stamp is taken out. *)
LEMMA NextItem ==
    ASSUME NEW Z, NEW g, GraphOK(Z, g), IsQueue(g, Queue), Queue # <<>>,
           NEW i, i = Item, NEW u, u = RestOfQueue
    PROVE  /\ ItemOK(g, i) /\ IsQueue(g, u)
           /\ \A k \in DOMAIN u : u[k].stamp <= i.stamp
<1>1. PICK q : q = Queue
  OBVIOUS
<1>2. q \in Seq(Range(q)) /\ q # <<>> /\ \A k \in DOMAIN q : ItemOK(g, q[k])
  BY <1>1 DEF IsQueue, QueueOK
<1>3. \A k \in DOMAIN q : q[k].stamp \in Nat
  <2>1. SUFFICES ASSUME NEW k \in DOMAIN q PROVE q[k].stamp \in Nat
    OBVIOUS
  <2>2. PICK p : p = q[k]
    OBVIOUS
  <2>3. ItemOK(g, p) /\ GraphOK(Z, g)
    BY <1>2, <2>2
  <2>4. p.stamp \in Nat \ {0}
    BY ONLY <2>3, ItemStamps
  <2> QED
    BY <2>2, <2>4
<1>4. \E k \in DOMAIN q : \A j \in DOMAIN q :
             \/ q[j].stamp < q[k].stamp
             \/ q[j].stamp = q[k].stamp /\ j <= k
  BY ONLY <1>2, <1>3, LatestItem
<1>5. PICK n : n = NextIndex
  OBVIOUS
<1>6. n \in DOMAIN q /\ \A j \in DOMAIN q : \/ q[j].stamp < q[n].stamp
                                            \/ q[j].stamp = q[n].stamp /\ j <= n
  BY ONLY <1>1, <1>4, <1>5 DEF NextIndex
<1>7. \A j \in DOMAIN q : q[j].stamp <= q[n].stamp
  BY <1>3, <1>6
<1>8. i = q[n]
  BY <1>1, <1>5 DEF Item
<1>9. u = RemoveAt(q, n)
  BY <1>1, <1>5 DEF RestOfQueue
<1>10. u \in Seq(Range(q)) /\ \A j \in DOMAIN u : \E m \in DOMAIN q : u[j] = q[m]
  <2>1. q \in Seq(Range(q)) /\ n \in DOMAIN q
    BY <1>2, <1>6
  <2> QED
    BY ONLY <1>9, <2>1, Removed
<1>11. IsQueue(g, u)
  <2>1. u \in Seq(Range(u))
    BY <1>10, SeqOverRange
  <2> QED
    BY <1>2, <1>10, <2>1 DEF IsQueue, QueueOK
<1> QED
  BY <1>2, <1>6, <1>7, <1>8, <1>10, <1>11

FrameOK(Z, f) == GraphOK(Z, f.graph) /\ IsQueue(f.graph, f.queue)

StackOK(Z, s) ==
    /\ s \in Seq(Range(s)) /\ s # <<>>
    /\ \A k \in DOMAIN s : FrameOK(Z, s[k])

TasksOK(Z, s) == s \in Seq(Range(s)) /\ \A k \in DOMAIN s : GraphOK(Z, s[k])

(* The execution on top of the stack. *)
LEMMA TopOK ==
    ASSUME NEW Z, StackOK(Z, stack)
    PROVE  GraphOK(Z, G) /\ IsQueue(G, Queue)
<1>1. Len(stack) \in DOMAIN stack
  BY DEF StackOK
<1> QED
  BY <1>1 DEF StackOK, FrameOK, G, Queue, Last

(* Replacing the last element of a sequence. *)
LEMMA Updated ==
    ASSUME NEW s, s \in Seq(Range(s)), s # <<>>, NEW f, NEW u, u = [s EXCEPT ![Len(s)] = f]
    PROVE  /\ u \in Seq(Range(u)) /\ u # <<>> /\ DOMAIN u = DOMAIN s
           /\ \A k \in DOMAIN u : u[k] = f \/ u[k] = s[k]
<1>1. PICK T : T = Range(s)
  OBVIOUS
<1>2. s \in Seq(T) /\ s # <<>>
  BY <1>1
<1>3. u \in Seq(T \cup {f}) /\ u # <<>>  /\ DOMAIN u = DOMAIN s
  BY <1>2
<1>4. u \in Seq(Range(u))
  BY <1>3, SeqOverRange
<1> QED
  BY <1>3, <1>4

(* Replacing the execution on top of the stack. *)
LEMMA SetTopOK ==
    ASSUME NEW Z, StackOK(Z, stack), NEW g, GraphOK(Z, g), NEW q, IsQueue(g, q),
           NEW s, s = SetTop(g, q)
    PROVE  StackOK(Z, s)
<1>1. PICK f : f = [graph |-> g, queue |-> q]
  OBVIOUS
<1>2. FrameOK(Z, f)
  BY <1>1 DEF FrameOK
<1>3. s = [stack EXCEPT ![Len(stack)] = f]
  BY <1>1 DEF SetTop
<1>4. stack \in Seq(Range(stack)) /\ stack # <<>>
  BY DEF StackOK
<1>5. /\ s \in Seq(Range(s)) /\ s # <<>> /\ DOMAIN s = DOMAIN stack
      /\ \A k \in DOMAIN s : s[k] = f \/ s[k] = stack[k]
  BY ONLY <1>3, <1>4, Updated
<1> QED
  BY <1>2, <1>5 DEF StackOK

(* The elements of a sequence with one more at the end. *)
LEMMA Appended ==
    ASSUME NEW s, s \in Seq(Range(s)), NEW f, NEW u, u = Append(s, f)
    PROVE  /\ u \in Seq(Range(u)) /\ u # <<>>
           /\ \A k \in DOMAIN u : u[k] = f \/ (k \in DOMAIN s /\ u[k] = s[k])
<1>1. PICK T : T = Range(s)
  OBVIOUS
<1>2. s \in Seq(T)
  BY <1>1
<1>3. u \in Seq(T \cup {f}) /\ u # <<>>
  <2>1. s \in Seq(T \cup {f})
    BY <1>2, SeqOver
  <2> QED
    BY <2>1
<1>4. u \in Seq(Range(u))
  BY <1>3, SeqOverRange
<1>5. \A k \in DOMAIN u : u[k] = f \/ (k \in DOMAIN s /\ u[k] = s[k])
  BY <1>2
<1> QED
  BY <1>3, <1>4, <1>5

(* pushExecution() with a good graph and queue. *)
LEMMA PushOK ==
    ASSUME NEW Z, NEW s, StackOK(Z, s), NEW g, GraphOK(Z, g), NEW q, IsQueue(g, q),
           NEW u, u = Append(s, [graph |-> g, queue |-> q])
    PROVE  StackOK(Z, u)
<1>1. PICK f : f = [graph |-> g, queue |-> q]
  OBVIOUS
<1>2. FrameOK(Z, f)
  BY <1>1 DEF FrameOK
<1>3. u = Append(s, f) /\ s \in Seq(Range(s))
  BY <1>1 DEF StackOK
<1>4. /\ u \in Seq(Range(u)) /\ u # <<>>
      /\ \A k \in DOMAIN u : u[k] = f \/ (k \in DOMAIN s /\ u[k] = s[k])
  BY ONLY <1>3, Appended, ZenonT(60)
<1> QED
  BY <1>2, <1>4 DEF StackOK

(* The elements of a sequence without its last. *)
LEMMA Fronted ==
    ASSUME NEW s, s \in Seq(Range(s)), s # <<>>, NEW u, u = Front(s)
    PROVE  /\ u \in Seq(Range(u)) /\ (Len(s) > 1 => u # <<>>)
           /\ \A k \in DOMAIN u : k \in DOMAIN s /\ u[k] = s[k]
           /\ Last(s) = s[Len(s)] /\ Len(s) \in DOMAIN s
<1>1. PICK T : T = Range(s)
  OBVIOUS
<1>2. s \in Seq(T) /\ Len(s) \in Nat \ {0} /\ DOMAIN s = 1..Len(s)
  BY <1>1
<1>3. u = SubSeq(s, 1, Len(s) - 1)
  BY DEF Front
<1>4. u \in Seq(T) /\ Len(u) = Len(s) - 1 /\ \A k \in 1..(Len(s) - 1) : u[k] = s[k]
  BY <1>2, <1>3
<1>5. u \in Seq(Range(u))
  BY <1>4, SeqOverRange
<1>6. Len(s) > 1 => u # <<>>
  BY <1>2, <1>4
<1>7. \A k \in DOMAIN u : k \in DOMAIN s /\ u[k] = s[k]
  BY <1>2, <1>4
<1> QED
  BY <1>2, <1>5, <1>6, <1>7 DEF Last

(* popExecution() leaves good executions. *)
LEMMA PopOK ==
    ASSUME NEW Z, NEW s, StackOK(Z, s), Len(s) > 1, NEW u, u = Front(s)
    PROVE  StackOK(Z, u)
<1>1. s \in Seq(Range(s)) /\ s # <<>> /\ u = Front(s)
  BY DEF StackOK
<1>2. /\ u \in Seq(Range(u)) /\ (Len(s) > 1 => u # <<>>)
      /\ \A k \in DOMAIN u : k \in DOMAIN s /\ u[k] = s[k]
  BY ONLY <1>1, Fronted
<1> QED
  BY <1>2 DEF StackOK

(* Handing a good graph to the pool. *)
LEMMA TaskAdded ==
    ASSUME NEW Z, NEW s, TasksOK(Z, s), NEW g, GraphOK(Z, g), NEW u, u = Append(s, g)
    PROVE  TasksOK(Z, u)
<1>1. s \in Seq(Range(s)) /\ u = Append(s, g)
  BY DEF TasksOK
<1>2. /\ u \in Seq(Range(u))
      /\ \A k \in DOMAIN u : u[k] = g \/ (k \in DOMAIN s /\ u[k] = s[k])
  BY ONLY <1>1, Appended, ZenonT(60)
<1> QED
  BY <1>2 DEF TasksOK

(* Taking a task from the pool. *)
LEMMA TaskTaken ==
    ASSUME NEW Z, NEW s, TasksOK(Z, s), s # <<>>, NEW u, u = Front(s)
    PROVE  TasksOK(Z, u) /\ GraphOK(Z, Last(s))
<1>1. s \in Seq(Range(s)) /\ s # <<>> /\ u = Front(s)
  BY DEF TasksOK
<1>2. /\ u \in Seq(Range(u))
      /\ \A k \in DOMAIN u : k \in DOMAIN s /\ u[k] = s[k]
      /\ Last(s) = s[Len(s)] /\ Len(s) \in DOMAIN s
  BY ONLY <1>1, Fronted
<1> QED
  BY <1>2 DEF TasksOK

(* A fresh execution has nothing to revisit. *)
LEMMA EmptyQueue ==
    ASSUME NEW g
    PROVE  IsQueue(g, <<>>)
BY DEF IsQueue, QueueOK

(* A driver that starts from a task has one execution. *)
LEMMA SingleFrame ==
    ASSUME NEW Z, NEW g, GraphOK(Z, g), NEW s, s = <<[graph |-> g, queue |-> <<>>]>>
    PROVE  StackOK(Z, s)
<1>1. PICK f : f = [graph |-> g, queue |-> <<>>]
  OBVIOUS
<1>2. FrameOK(Z, f)
  BY <1>1, EmptyQueue DEF FrameOK
<1>3. s = <<f>>
  BY <1>1
<1>4. s \in Seq({f}) /\ s # <<>> /\ \A k \in DOMAIN s : s[k] = f
  BY <1>3
<1>5. s \in Seq(Range(s))
  BY <1>4, SeqOverRange
<1> QED
  BY <1>2, <1>4, <1>5 DEF StackOK

-----------------------------------------------------------------------------
(* The handlers. *)

(* The items of a graph stay good when a label is added. *)
LEMMA QueueAfterLabel ==
    ASSUME NEW Z, NEW g, GraphOK(Z, g), NEW h, NEW e, NEW lab, Added(Z, g, h, e, lab),
           NEW q, IsQueue(g, q)
    PROVE  \E n \in Nat : Agree(g, h, n) /\ \A k \in DOMAIN q : q[k].stamp <= n
<1>1. g.stamp \in Nat \ {0}
  BY DEF GraphOK, GraphBut, Typed
<1>2. PICK n \in Nat : n = g.stamp - 1
  BY <1>1
<1>3. Agree(g, g, n)
  BY AgreeRefl
<1>4. /\ Pos(h) = Pos(g) \cup {e} /\ \A f \in Pos(g) : h.ev[f] = g.ev[f]
      /\ h.ev[e].stamp \in Nat /\ n < h.ev[e].stamp
  BY <1>1, <1>2 DEF Added
<1>5. Agree(g, h, n)
  BY ONLY <1>3, <1>4, AgreeAfterLabel, n \in Nat
<1>6. ASSUME NEW k \in DOMAIN q
      PROVE  q[k].stamp <= n
  <2>1. PICK p : p = q[k]
    OBVIOUS
  <2>2. GraphOK(Z, g) /\ ItemOK(g, p)
    BY <2>1 DEF IsQueue, QueueOK
  <2>3. p.stamp <= g.stamp - 1
    BY ONLY <2>2, ItemStamps
  <2> QED
    BY <1>2, <2>1, <2>3
<1> QED
  BY <1>5, <1>6

(* Nothing depends on the label that was just added, and it has the        *)
(* highest stamp.                                                          *)
LEMMA NewIsUnsettled ==
    ASSUME NEW Z, NEW g, GraphOK(Z, g), NEW h, NEW e, NEW lab, Added(Z, g, h, e, lab)
    PROVE  /\ Unsettled(h, e)
           /\ \A f \in Pos(g) : h.ev[f].stamp \in Nat /\ h.ev[f].stamp < h.ev[e].stamp
<1>1. /\ Pos(h) = Pos(g) \cup {e} /\ \A f \in Pos(g) : h.ev[f] = g.ev[f]
      /\ h.ev[e].stamp = g.stamp /\ \A f \in Pos(g) : e \notin g.ev[f].pre
  BY DEF Added
<1>2. g.stamp \in Nat \ {0} /\ \A f \in Pos(g) : g.ev[f].stamp \in 1..(g.stamp - 1)
  BY DEF GraphOK, GraphBut, Typed, Stamped
<1>3. \A f \in Pos(g) : h.ev[f].stamp \in Nat /\ h.ev[f].stamp < h.ev[e].stamp
  BY <1>1, <1>2
<1>4. \A f \in Pos(h) \ {e} : e \notin h.ev[f].pre
  BY <1>1
<1>5. \A f \in Pos(h) : h.ev[f].stamp <= h.ev[e].stamp
  BY <1>1, <1>2, <1>3
<1> QED
  BY <1>3, <1>4, <1>5 DEF Unsettled

(* The store of the coherence-latest option, and of the others. *)
OptionFor(g, r, o) ==
    \E w \in StoresTo(g, g.ev[r].loc) \cup {InitPos} : o = << <<w, g.ev[r].bytes>> >>

(* There is at least one reads-from for a new read, and each is one store  *)
(* of its word.                                                            *)
LEMMA OptionsFor ==
    ASSUME NEW Z, NEW g, NEW r \in Reads(g), GraphBut(Z, g, {r}),
           NEW lab, lab.loc = g.ev[r].loc, lab.bytes = g.ev[r].bytes,
           NEW opts, opts = RfOptions(g, r, CoherentStores(g, lab), {})
    PROVE  /\ opts \in Seq(Range(opts)) /\ Len(opts) > 0
           /\ \A n \in DOMAIN opts : OptionFor(g, r, opts[n])
<1>1. PICK stores : stores = CoherentStores(g, lab)
  OBVIOUS
<1>2. PICK D, U : D = {r} /\ U = {}
  OBVIOUS
<1>3. GraphBut(Z, g, D) /\ r \in Pos(g) /\ lab.loc = g.ev[r].loc /\ lab.bytes = g.ev[r].bytes
  BY <1>2 DEF Reads
<1>4. /\ WholeStores(g, r, stores)
      /\ \A k \in DOMAIN stores : stores[k] \in (StoresTo(g, lab.loc) \ D) \cup {InitPos}
  BY ONLY <1>1, <1>3, CoherentStoresWhole
<1>5. RfChoices(g, r, stores, U) # {}
  <2>1. RfChoices(g, r, stores, {}) # {}
    BY ONLY <1>1, <1>3, LatestIsChoice
  <2> QED
    BY <1>2, <2>1
<1>6. opts = RfOptions(g, r, stores, U)
  BY <1>1, <1>2
<1>7. /\ opts \in Seq(Range(opts))
      /\ \A n \in DOMAIN opts : \E k \in DOMAIN stores :
           opts[n] = << <<stores[k], g.ev[r].bytes>> >> /\ U \subseteq {stores[k]}
      /\ RfChoices(g, r, stores, U) # {} => Len(opts) > 0
  BY ONLY <1>4, <1>6, RfOptionsWhole
<1>8. ASSUME NEW n \in DOMAIN opts
      PROVE  OptionFor(g, r, opts[n])
  <2>1. PICK k \in DOMAIN stores : opts[n] = << <<stores[k], g.ev[r].bytes>> >>
    BY <1>7
  <2>2. stores[k] \in StoresTo(g, g.ev[r].loc) \cup {InitPos}
    BY <1>3, <1>4
  <2> QED
    BY <2>1, <2>2 DEF OptionFor
<1> QED
  BY <1>5, <1>7, <1>8

ReadItem(g, r, rfs) == [kind |-> "read", stamp |-> g.ev[r].stamp, pos |-> r, rfs |-> rfs]

(* A forward revisit of a new read is good for the graph, whichever rf the *)
(* read got.                                                               *)
LEMMA ReadItemIsOK ==
    ASSUME NEW g, NEW r \in Reads(g), g.ev[r].rev,
           \A f \in Pos(g) \ {r} : g.ev[f].stamp \in Nat /\ g.ev[f].stamp < g.ev[r].stamp,
           g.ev[r].stamp \in Nat \ {0}, NEW o, OptionFor(g, r, o), NEW k, OnlyRfOf(g, k, r),
           NEW q, q = ReadItem(g, r, o)
    PROVE  ItemOK(k, q)
<1>1. /\ q.kind = "read" /\ q.stamp = g.ev[r].stamp /\ q.pos = r /\ q.rfs = o
      /\ Owner(q) = r
  BY DEF ReadItem, Owner
<1>2. /\ Pos(k) = Pos(g) /\ r \in Pos(g) /\ g.ev[r].op = "R"
      /\ k.ev[r].op = "R" /\ k.ev[r].loc = g.ev[r].loc /\ k.ev[r].bytes = g.ev[r].bytes
      /\ k.ev[r].stamp = g.ev[r].stamp /\ k.ev[r].rev
      /\ \A e \in Pos(g) \ {r} : k.ev[e] = g.ev[e]
  BY DEF OnlyRfOf, SameCore, Reads
<1>3. PICK w \in StoresTo(g, g.ev[r].loc) \cup {InitPos} : o = << <<w, g.ev[r].bytes>> >>
  BY DEF OptionFor
<1>4. w \in StoresTo(k, k.ev[r].loc) \cup {InitPos}
  BY <1>2, <1>3 DEF StoresTo
<1>5. Stamp(k, w) < q.stamp
  <2>1. CASE w = InitPos
    BY <1>1, <2>1 DEF Stamp
  <2>2. CASE w # InitPos
    <3>1. w \in Pos(g) \ {r}
      BY <1>2, <1>3, <2>2 DEF StoresTo
    <3> QED
      BY <1>1, <1>2, <2>2, <3>1 DEF Stamp
  <2> QED
    BY <2>1, <2>2
<1>6. ReadItemOK(k, q)
  BY <1>1, <1>2, <1>3, <1>4, <1>5 DEF ReadItemOK
<1> QED
  BY <1>1, <1>2, <1>6 DEF ItemOK

OtherItems(g, r, opts) == [n \in 1..(Len(opts) - 1) |-> ReadItem(g, r, opts[n])]

(* All the other reads-from of a new read are queued as good items. *)
LEMMA OtherItemsOK ==
    ASSUME NEW g, NEW r \in Reads(g), g.ev[r].rev,
           \A f \in Pos(g) \ {r} : g.ev[f].stamp \in Nat /\ g.ev[f].stamp < g.ev[r].stamp,
           g.ev[r].stamp \in Nat \ {0},
           NEW opts, opts \in Seq(Range(opts)), Len(opts) > 0,
           \A n \in DOMAIN opts : OptionFor(g, r, opts[n]), NEW k, OnlyRfOf(g, k, r),
           NEW u, u = OtherItems(g, r, opts)
    PROVE  IsQueue(k, u)
<1>1. PICK N \in Nat : N = Len(opts) - 1 /\ \A n \in 1..N : n \in DOMAIN opts
  <2>1. PICK L \in Nat : L = Len(opts) /\ L > 0 /\ DOMAIN opts = 1..L
    OBVIOUS
  <2>2. L - 1 \in Nat /\ \A n \in 1..(L - 1) : n \in 1..L
    BY <2>1
  <2> QED
    BY <2>1, <2>2
<1>2. u = [n \in 1..N |-> ReadItem(g, r, opts[n])]
  BY <1>1 DEF OtherItems
<1>3. DOMAIN u = 1..N /\ \A n \in 1..N : u[n] = ReadItem(g, r, opts[n])
  BY <1>2
<1>4. u \in Seq(Range(u))
  <2>1. PICK T : T = {ReadItem(g, r, opts[n]) : n \in 1..N}
    OBVIOUS
  <2>2. \A n \in 1..N : ReadItem(g, r, opts[n]) \in T
    BY <2>1
  <2>3. u \in [1..N -> T]
    BY <1>2, <2>2
  <2>4. u \in Seq(T)
    BY <2>3
  <2> QED
    BY <2>4, SeqOverRange
<1>5. ASSUME NEW n \in DOMAIN u
      PROVE  ItemOK(k, u[n])
  <2>1. PICK o, q : o = opts[n] /\ q = ReadItem(g, r, o)
    OBVIOUS
  <2>2. OptionFor(g, r, o) /\ u[n] = q
    BY <1>1, <1>3, <2>1
  <2>3. /\ r \in Reads(g) /\ g.ev[r].rev
        /\ \A f \in Pos(g) \ {r} : g.ev[f].stamp \in Nat /\ g.ev[f].stamp < g.ev[r].stamp
        /\ g.ev[r].stamp \in Nat \ {0} /\ OnlyRfOf(g, k, r)
    OBVIOUS
  <2>4. ItemOK(k, q)
    BY ONLY <2>1, <2>2, <2>3, ReadItemIsOK
  <2> QED
    BY <2>2, <2>4
<1> QED
  BY <1>4, <1>5 DEF IsQueue, QueueOK

(* What handleLoad() does after it has added the label: the new graph and  *)
(* the new queue.                                                          *)
LoadStep(lab, h, r, q, k, u) ==
    LET opts == RfOptions(h, r, CoherentStores(h, lab), {})
    IN  /\ lab.op = "R"
        /\ k = ChangeRf(h, r, Last(opts))
        /\ u = q \o OtherItems(h, r, opts)

(* handleLoad(): the graph with the new read and the queue with its other  *)
(* reads-from.                                                             *)
LEMMA LoadOK ==
    ASSUME NEW Z, NEW g, GraphOK(Z, g), NEW q, IsQueue(g, q), NEW r, IsNext(g, r),
           NEW lab, IsFresh(Z, lab), NEW h, h = AddLabelToGraph(g, r, lab),
           NEW k, NEW u, LoadStep(lab, h, r, q, k, u)
    PROVE  GraphOK(Z, k) /\ IsQueue(k, u)
<1>0. PICK opts : /\ opts = RfOptions(h, r, CoherentStores(h, lab), {})
                  /\ lab.op = "R"
                  /\ k = ChangeRf(h, r, Last(opts))
                  /\ u = q \o OtherItems(h, r, opts)
  BY DEF LoadStep
<1>1. Added(Z, g, h, r, lab)
  <2>1. GraphOK(Z, g) /\ IsNext(g, r) /\ IsFresh(Z, lab) /\ h = AddLabelToGraph(g, r, lab)
    OBVIOUS
  <2> QED
    BY ONLY <2>1, AddLabelOK
<1>2. /\ GraphBut(Z, h, {r}) /\ r \in Reads(h) /\ h.ev[r].rev
      /\ lab.loc = h.ev[r].loc /\ lab.bytes = h.ev[r].bytes
      /\ Pos(h) \ {r} \subseteq Pos(g) /\ Typed(h) /\ r \in Pos(h)
  BY <1>0, <1>1 DEF Added, Reads, GraphBut
<1>3. /\ Unsettled(h, r)
      /\ \A f \in Pos(g) : h.ev[f].stamp \in Nat /\ h.ev[f].stamp < h.ev[r].stamp
  <2>1. GraphOK(Z, g)
    OBVIOUS
  <2> QED
    BY ONLY <1>1, <2>1, NewIsUnsettled
<1>4. h.ev[r].stamp \in Nat \ {0}
  BY <1>1 DEF Added, GraphOK, GraphBut, Typed
<1>5. /\ opts \in Seq(Range(opts)) /\ Len(opts) > 0
      /\ \A n \in DOMAIN opts : OptionFor(h, r, opts[n])
  <2>1. opts = RfOptions(h, r, CoherentStores(h, lab), {})
    BY <1>0
  <2> QED
    BY ONLY <1>2, <2>1, OptionsFor
<1>6. PICK o : o = Last(opts)
  OBVIOUS
<1>7. OptionFor(h, r, o)
  <2>1. Len(opts) \in DOMAIN opts
    BY <1>5
  <2> QED
    BY <1>5, <1>6, <2>1 DEF Last
<1>8. PICK w \in StoresTo(h, h.ev[r].loc) \cup {InitPos} : o = << <<w, h.ev[r].bytes>> >>
  BY <1>7 DEF OptionFor
<1>9. o \in Seq(Source \X SUBSET Byte)
  <2>1. w \in Source /\ h.ev[r].bytes \in SUBSET Byte
    BY <1>2, <1>8 DEF Typed, Label, Source, StoresTo
  <2>2. PICK p : p = <<w, h.ev[r].bytes>>
    OBVIOUS
  <2>3. p \in Source \X SUBSET Byte /\ o = <<p>>
    BY <1>8, <2>1, <2>2
  <2> QED
    BY ONLY <2>3
<1>10. OnlyRfOf(h, k, r) /\ k.ev[r].rf = o
  <2>1. k = ChangeRf(h, r, o)
    BY <1>0, <1>6
  <2> QED
    BY ONLY <1>2, <1>9, <2>1, ChangeRfShape
<1>11. GraphOK(Z, k)
  <2>1. k.ev[r].rf = << <<w, h.ev[r].bytes>> >> /\ w \in StoresTo(h, h.ev[r].loc) \cup {InitPos}
    BY <1>8, <1>10
  <2> QED
    BY ONLY <1>2, <1>3, <1>10, <2>1, SetRfOK
<1>12. IsQueue(k, q)
  <2>1. PICK n \in Nat : Agree(g, h, n) /\ \A j \in DOMAIN q : q[j].stamp <= n
    <3>1. GraphOK(Z, g) /\ IsQueue(g, q)
      OBVIOUS
    <3> QED
      BY ONLY <1>1, <3>1, QueueAfterLabel
  <2>2. Agree(g, k, n)
    BY ONLY <1>2, <1>10, <2>1, AgreeAfterRf
  <2>3. Typed(k) /\ GraphOK(Z, g) /\ IsQueue(g, q) /\ n \in Nat
    BY <1>10 DEF OnlyRfOf
  <2> QED
    BY ONLY <2>1, <2>2, <2>3, QueueKept
<1>13. PICK v : v = OtherItems(h, r, opts)
  OBVIOUS
<1>14. IsQueue(k, v)
  <2>1. \A f \in Pos(h) \ {r} : h.ev[f].stamp \in Nat /\ h.ev[f].stamp < h.ev[r].stamp
    BY <1>2, <1>3
  <2>2. r \in Reads(h) /\ h.ev[r].rev /\ OnlyRfOf(h, k, r)
    BY <1>2, <1>10
  <2> QED
    BY ONLY <1>4, <1>5, <1>13, <2>1, <2>2, OtherItemsOK
<1>15. IsQueue(k, u)
  <2>1. u = q \o v
    BY <1>0, <1>13
  <2> QED
    BY ONLY <1>12, <1>14, <2>1, QueueConcat
<1> QED
  BY <1>11, <1>15

(* handleStore() *)
LEMMA StoreOK ==
    ASSUME NEW Z, NEW g, GraphOK(Z, g), NEW q, IsQueue(g, q), NEW w, IsNext(g, w),
           NEW lab, IsFresh(Z, lab), lab.op = "W",
           NEW k, k = AddLabelToGraph(g, w, lab), NEW succs,
           NEW h, h = AddStoreToCO(k, w, succs),
           NEW u, u = CalcRevisits(q \o SetToSeq(PlacingItems(k, w)), h, w)
    PROVE  GraphOK(Z, h) /\ IsQueue(h, u)
<1>1. Added(Z, g, k, w, lab)
  <2>1. GraphOK(Z, g) /\ IsNext(g, w) /\ IsFresh(Z, lab) /\ k = AddLabelToGraph(g, w, lab)
    OBVIOUS
  <2> QED
    BY ONLY <2>1, AddLabelOK
<1>2. GraphBut(Z, k, {w}) /\ w \in Pos(k) /\ k.ev[w].op = "W" /\ k.ev[w].rev
  BY <1>1 DEF Added
<1>3. GraphOK(Z, h) /\ h.ev = k.ev /\ h.stamp = k.stamp
  <2>1. h = AddStoreToCO(k, w, succs)
    OBVIOUS
  <2> QED
    BY ONLY <1>2, <2>1, AddStoreOK
<1>4. Typed(h)
  BY <1>3 DEF GraphOK, GraphBut
<1>5. IsLatest(k, w) /\ IsLatest(h, w)
  <2>1. k.stamp - 1 = g.stamp /\ k.ev[w].stamp = g.stamp
    BY <1>1 DEF Added, GraphOK, GraphBut, Typed
  <2>2. IsLatest(k, w)
    BY <1>2, <2>1 DEF IsLatest
  <2> QED
    BY <1>3, <2>2 DEF IsLatest, Pos
<1>6. IsQueue(h, q)
  <2>1. PICK n \in Nat : Agree(g, k, n) /\ \A j \in DOMAIN q : q[j].stamp <= n
    <3>1. GraphOK(Z, g) /\ IsQueue(g, q)
      OBVIOUS
    <3> QED
      BY ONLY <1>1, <3>1, QueueAfterLabel
  <2>2. Agree(g, h, n)
    BY ONLY <1>3, <2>1, AgreeSameLabels
  <2>3. GraphOK(Z, g) /\ IsQueue(g, q) /\ n \in Nat
    OBVIOUS
  <2> QED
    BY ONLY <1>4, <2>1, <2>2, <2>3, QueueKept
<1>7. PICK B, v, x : B = PlacingItems(k, w) /\ v = SetToSeq(B) /\ x = q \o v
  OBVIOUS
<1>8. IsFiniteSet(B) /\ \A i \in B : ItemOK(h, i)
  BY ONLY <1>2, <1>3, <1>5, <1>7, PlacingItemsOK
<1>9. IsQueue(h, v)
  BY ONLY <1>7, <1>8, QueueOfSet
<1>10. IsQueue(h, x)
  BY ONLY <1>6, <1>7, <1>9, QueueConcat
<1>11. u = CalcRevisits(x, h, w)
  BY <1>7
<1>12. IsQueue(h, u)
  BY ONLY <1>3, <1>5, <1>10, <1>11, CalcRevisitsOK
<1> QED
  BY <1>3, <1>12

-----------------------------------------------------------------------------
(* Revisits. *)

(* What a cut leaves of a graph and of the queue. *)
CutFor(Z, g, h, c, n) ==
    /\ Agree(g, h, n) /\ h.stamp = n + 1 /\ n \in Nat
    /\ Unsettled(h, c) /\ c \in Pos(h) /\ Succ(c) \notin Pos(h)
    /\ h.ev[c].stamp = n /\ h.ev[c].rev /\ SameCore(h.ev[c], g.ev[c])
    /\ IF g.ev[c].op = "R" THEN GraphBut(Z, h, {c}) ELSE GraphOK(Z, h)

(* restrictGraph() to the stamp of a revisitable label keeps that label as *)
(* the latest one.                                                         *)
LEMMA CutForItem ==
    ASSUME NEW Z, NEW g, GraphOK(Z, g), NEW c \in Pos(g), g.ev[c].rev,
           NEW n, n = g.ev[c].stamp, NEW h, h = Restricted(g, n)
    PROVE  CutFor(Z, g, h, c, n)
<1>1. PICK D : D = {e \in {c} : g.ev[e].op = "R"}
  OBVIOUS
<1>2. /\ GraphOK(Z, g) /\ c \in Pos(g) /\ g.ev[c].rev /\ n = g.ev[c].stamp
      /\ h = Restricted(g, n)
  OBVIOUS
<1>3. /\ GraphBut(Z, h, D) /\ Agree(g, h, n) /\ h.stamp = n + 1
      /\ Unsettled(h, c) /\ c \in Pos(h) /\ Succ(c) \notin Pos(h)
  BY ONLY <1>1, <1>2, RestrictedOK
<1>4. n \in Nat
  BY DEF GraphOK, GraphBut, Typed, Label
<1>5. c \in ViewFromStamp(g, n)
  BY <1>4 DEF ViewFromStamp
<1>6. h.ev[c].stamp = n /\ h.ev[c].rev /\ SameCore(h.ev[c], g.ev[c])
  BY <1>3, <1>5 DEF Agree, SameButRf
<1>7. IF g.ev[c].op = "R" THEN GraphBut(Z, h, {c}) ELSE GraphOK(Z, h)
  <2>1. CASE g.ev[c].op = "R"
    <3>1. D = {c}
      BY <1>1, <2>1
    <3> QED
      BY <1>3, <2>1, <3>1
  <2>2. CASE g.ev[c].op # "R"
    <3>1. D = {}
      BY <1>1, <2>2
    <3> QED
      BY <1>3, <2>2, <3>1 DEF GraphOK
  <2> QED
    BY <2>1, <2>2
<1> QED
  BY <1>3, <1>4, <1>6, <1>7 DEF CutFor

(* The forward revisit of a read. *)
LEMMA ForwardReadOK ==
    ASSUME NEW Z, NEW g, GraphOK(Z, g), NEW i, ItemOK(g, i), i.kind = "read",
           NEW q, IsQueue(g, q), \A k \in DOMAIN q : q[k].stamp <= i.stamp,
           NEW h, h = Restricted(g, i.stamp),
           NEW top, top = RevisitRead(h, q, i.pos, i.rfs, FALSE)
    PROVE  GraphOK(Z, top.graph) /\ IsQueue(top.graph, top.queue)
<1>1. PICK r, n, rfs, max : r = i.pos /\ n = i.stamp /\ rfs = i.rfs /\ max = FALSE
  OBVIOUS
<1>2. /\ r \in Pos(g) /\ g.ev[r].rev /\ n = g.ev[r].stamp /\ ReadItemOK(g, i)
  BY <1>1 DEF ItemOK, Owner
<1>3. CutFor(Z, g, h, r, n)
  <2>1. h = Restricted(g, n) /\ GraphOK(Z, g)
    BY <1>1
  <2> QED
    BY ONLY <1>2, <2>1, CutForItem
<1>4. g.ev[r].op = "R"
  BY <1>1, <1>2 DEF ReadItemOK
<1>5. PICK w \in StoresTo(g, g.ev[r].loc) \cup {InitPos} :
        rfs = << <<w, g.ev[r].bytes>> >> /\ Stamp(g, w) < n
  BY <1>1, <1>2 DEF ReadItemOK
<1>6. w \in StoresTo(h, h.ev[r].loc) \cup {InitPos}
  <2>1. CASE w = InitPos
    BY <2>1
  <2>2. CASE w # InitPos
    <3>1. w \in Pos(g) /\ g.ev[w].op = "W" /\ g.ev[w].loc = g.ev[r].loc
      BY <1>5, <2>2 DEF StoresTo
    <3>2. g.ev[w].stamp \in Nat /\ n \in Nat /\ g.ev[w].stamp < n
      BY <1>3, <1>5, <2>2, <3>1 DEF Stamp, CutFor, GraphOK, GraphBut, Typed, Label
    <3>3. w \in ViewFromStamp(g, n)
      BY <3>1, <3>2 DEF ViewFromStamp
    <3>4. w \in Pos(h) /\ SameCore(h.ev[w], g.ev[w])
      BY <1>3, <3>3 DEF CutFor, Agree, SameButRf, ViewFromStamp
    <3> QED
      BY <1>3, <3>1, <3>4 DEF StoresTo, SameCore, CutFor
  <2> QED
    BY <2>1, <2>2
<1>7. rfs = << <<w, h.ev[r].bytes>> >>
  BY <1>3, <1>5 DEF CutFor, SameCore
<1>8. /\ r \in Reads(h) /\ GraphBut(Z, h, {r}) /\ Unsettled(h, r) /\ Succ(r) \notin Pos(h)
      /\ n \in Nat /\ n < h.stamp /\ Agree(g, h, n)
  BY <1>3, <1>4 DEF CutFor, Reads, SameCore
<1>9. /\ GraphOK(Z, g) /\ IsQueue(g, q) /\ \A k \in DOMAIN q : q[k].stamp <= n
      /\ max \in BOOLEAN /\ top = RevisitRead(h, q, r, rfs, max)
  BY <1>1
<1> QED
  BY ONLY <1>6, <1>7, <1>8, <1>9, RevisitReadOK

(* The maximality flag of a label does not matter to the graph. *)
LEMMA SameRfOK ==
    ASSUME NEW Z, NEW g, GraphOK(Z, g), NEW w \in Pos(g), NEW h, OnlyRfOf(g, h, w),
           h.ev[w].rf = g.ev[w].rf
    PROVE  GraphOK(Z, h)
<1>1. /\ Typed(h) /\ Pos(h) = Pos(g) /\ h.co = g.co /\ h.stamp = g.stamp
      /\ \A e \in Pos(g) : SameCore(h.ev[e], g.ev[e]) /\ h.ev[e].stamp = g.ev[e].stamp
      /\ \A e \in Pos(g) : h.ev[e].rev = g.ev[e].rev /\ h.ev[e].rf = g.ev[e].rf
  BY DEF OnlyRfOf, SameCore
<1>2. \A e \in Pos(g) : /\ h.ev[e].op = g.ev[e].op /\ h.ev[e].loc = g.ev[e].loc
                        /\ h.ev[e].bytes = g.ev[e].bytes /\ h.ev[e].pre = g.ev[e].pre
  BY <1>1 DEF SameCore
<1>3. \A x \in Word : StoresTo(h, x) = StoresTo(g, x)
  BY <1>1, <1>2 DEF StoresTo
<1>4. \A e \in Pos(g) : RfStores(h, e) = RfStores(g, e)
  BY <1>1 DEF RfStores
<1>5. Contiguous(h) /\ Stamped(h) /\ Sized(Z, h)
  BY <1>1, <1>2 DEF GraphOK, GraphBut, Contiguous, Stamped, Sized
<1>6. CoListsStores(h, {})
  BY <1>1, <1>3 DEF GraphOK, GraphBut, CoListsStores
<1>7. RfsGiven(h, {})
  <2>1. RfsGiven(g, {}) /\ Typed(g)
    BY DEF GraphOK, GraphBut
  <2>2. \A e \in Pos(h) : h.ev[e].op = "W" => h.ev[e].rf = <<>>
    BY <1>1, <1>2, <2>1 DEF RfsGiven
  <2>3. ASSUME NEW r \in Reads(h) \ {}
        PROVE  ReadsOne(h, r)
    <3>1. r \in Reads(g) \ {} /\ r \in Pos(g)
      BY <1>1, <1>2 DEF Reads
    <3>2. PICK v \in StoresTo(g, g.ev[r].loc) \cup {InitPos} :
            g.ev[r].rf = << <<v, g.ev[r].bytes>> >>
      BY <2>1, <3>1 DEF RfsGiven, ReadsOne
    <3>3. g.ev[r].loc \in Word
      BY <2>1, <3>1 DEF Typed, Label
    <3>4. v \in StoresTo(h, h.ev[r].loc) \cup {InitPos}
      BY <1>2, <1>3, <3>1, <3>2, <3>3
    <3>5. h.ev[r].rf = << <<v, h.ev[r].bytes>> >>
      BY <1>1, <1>2, <3>1, <3>2
    <3> QED
      BY <3>4, <3>5 DEF ReadsOne
  <2> QED
    BY <2>2, <2>3 DEF RfsGiven
<1>8. ViewsClosed(h)
  <2>1. ViewsClosed(g)
    BY DEF GraphOK, GraphBut
  <2> QED
    BY <1>1, <1>2, <1>4, <2>1 DEF ViewsClosed
<1>9. CutsClean(h)
  <2>1. CutsClean(g) /\ ViewsClosed(g) /\ Typed(g) /\ RfsGiven(g, {})
    BY DEF GraphOK, GraphBut
  <2>2. \A e \in Pos(g) : g.ev[e].pre \subseteq Pos(g)
    BY <2>1 DEF ViewsClosed
  <2>3. \A e \in Pos(g) : RfStores(g, e) \ {InitPos} \subseteq Pos(g)
    BY <2>1, RfStoresAreStores
  <2>4. \A n : SettledBefore(g, n) => SettledBefore(h, n)
    BY <1>1, <1>2, <1>4, <2>2, <2>3 DEF SettledBefore
  <2> QED
    BY <1>1, <1>2, <2>1, <2>2, <2>4 DEF CutsClean
<1> QED
  BY <1>1, <1>5, <1>6, <1>7, <1>8, <1>9 DEF GraphOK, GraphBut

(* The maximality flag concerns nothing else. *)
LEMMA WithMaxShape ==
    ASSUME NEW g, Typed(g), NEW r \in Pos(g), NEW m \in BOOLEAN, NEW h, h = WithMax(g, r, m)
    PROVE  OnlyRfOf(g, h, r) /\ h.ev[r].rf = g.ev[r].rf
BY SetMaxShape DEF WithMax

(* revisitWrite(): the store is taken out of coherence order, put in front *)
(* of its new successor and marked as not maximal.                         *)
LEMMA ForwardWriteOK ==
    ASSUME NEW Z, NEW g, GraphOK(Z, g), NEW i, ItemOK(g, i), i.kind = "mo",
           NEW q, IsQueue(g, q), \A k \in DOMAIN q : q[k].stamp <= i.stamp,
           NEW w, w = i.pos, NEW h, h = Restricted(g, i.stamp),
           NEW k, k = RemoveStoreFromCO(h, w), NEW succs,
           NEW l, l = AddStoreToCO(k, w, succs),
           NEW c, c = WithMax(l, w, FALSE), NEW u, u = CalcRevisits(q, c, w)
    PROVE  GraphOK(Z, c) /\ IsQueue(c, u)
<1>1. PICK n : n = i.stamp
  OBVIOUS
<1>2. /\ w \in Pos(g) /\ g.ev[w].rev /\ n = g.ev[w].stamp /\ g.ev[w].op = "W"
  BY <1>1 DEF ItemOK, Owner, PlaceItemOK
<1>3. CutFor(Z, g, h, w, n)
  <2>1. h = Restricted(g, n) /\ GraphOK(Z, g)
    BY <1>1
  <2> QED
    BY ONLY <1>2, <2>1, CutForItem
<1>4. /\ GraphOK(Z, h) /\ Agree(g, h, n) /\ h.stamp = n + 1 /\ n \in Nat
      /\ w \in Pos(h) /\ h.ev[w].stamp = n /\ h.ev[w].rev /\ h.ev[w].op = "W"
  BY <1>2, <1>3 DEF CutFor, SameCore
<1>5. GraphBut(Z, k, {w}) /\ k.ev = h.ev /\ k.stamp = h.stamp
  <2>1. k = RemoveStoreFromCO(h, w)
    OBVIOUS
  <2> QED
    BY ONLY <1>4, <2>1, RemoveStoreOK
<1>6. GraphOK(Z, l) /\ l.ev = k.ev /\ l.stamp = k.stamp
  <2>1. l = AddStoreToCO(k, w, succs)
    OBVIOUS
  <2>2. w \in Pos(k) /\ k.ev[w].op = "W"
    BY <1>4, <1>5 DEF Pos
  <2> QED
    BY ONLY <1>5, <2>1, <2>2, AddStoreOK
<1>7. w \in Pos(l) /\ Typed(l)
  BY <1>4, <1>5, <1>6 DEF Pos, GraphOK, GraphBut
<1>8. OnlyRfOf(l, c, w) /\ c.ev[w].rf = l.ev[w].rf
  <2>1. PICK m \in BOOLEAN : m = FALSE
    OBVIOUS
  <2>2. c = WithMax(l, w, m)
    BY <2>1
  <2> QED
    BY ONLY <1>7, <2>1, <2>2, WithMaxShape
<1>9. GraphOK(Z, c)
  BY ONLY <1>6, <1>7, <1>8, SameRfOK
<1>10. Agree(g, c, n)
  <2>1. l.ev = h.ev
    BY <1>5, <1>6
  <2>2. Agree(g, l, n)
    BY ONLY <1>4, <2>1, AgreeSameLabels
  <2> QED
    BY ONLY <1>7, <1>8, <2>2, AgreeAfterRf
<1>11. IsQueue(c, q)
  <2>1. GraphOK(Z, g) /\ IsQueue(g, q) /\ \A j \in DOMAIN q : q[j].stamp <= n
    BY <1>1
  <2>2. Typed(c) /\ n \in Nat
    BY <1>4, <1>8 DEF OnlyRfOf
  <2> QED
    BY ONLY <1>10, <2>1, <2>2, QueueKept
<1>12. IsLatest(c, w)
  <2>1. l.ev = h.ev /\ l.stamp = n + 1
    BY <1>4, <1>5, <1>6
  <2>2. w \in Pos(c) /\ c.stamp = l.stamp
    BY <1>7, <1>8 DEF OnlyRfOf
  <2>3. c.ev[w].op = l.ev[w].op /\ c.ev[w].stamp = l.ev[w].stamp /\ c.ev[w].rev = l.ev[w].rev
    BY <1>8 DEF OnlyRfOf, SameCore
  <2>4. h.ev[w].op = "W" /\ h.ev[w].stamp = n /\ h.ev[w].rev
    BY <1>4
  <2>5. c.ev[w].op = "W" /\ c.ev[w].stamp = n /\ c.ev[w].rev
    BY ONLY <2>1, <2>3, <2>4
  <2>6. n \in Nat /\ c.stamp = n + 1
    BY <1>4, <2>1, <2>2
  <2>7. c.stamp - 1 = n
    BY ONLY <2>6
  <2> QED
    BY ONLY <2>2, <2>5, <2>7 DEF IsLatest
<1>13. IsQueue(c, u)
  <2>1. u = CalcRevisits(q, c, w)
    BY ZenonT(60)
  <2> QED
    BY ONLY <1>9, <1>11, <1>12, <2>1, CalcRevisitsOK
<1> QED
  BY <1>9, <1>13

(* copyGraph() followed by the revisit of the copy *)
LEMMA RevisitedCopyParts ==
    ASSUME NEW g, NEW i, NEW r, r = i.pos, NEW s, s = i.rev, NEW V, V = i.view,
           NEW rfs, rfs = i.rfs, NEW h, h = CopiedGraph(g, r, s, V),
           NEW top, top = RevisitedCopy(g, i)
    PROVE  \E m \in BOOLEAN : top = RevisitRead(h, <<>>, r, rfs, m)
BY DEF RevisitedCopy, CopiedGraph, FixPrefix, Fixed

(* The graph of a backward revisit: copied up to the view, fixed, its read *)
(* revisited.                                                              *)
LEMMA CopyOK ==
    ASSUME NEW Z, NEW g, GraphOK(Z, g), NEW i, ItemOK(g, i), i.kind = "back",
           NEW top, top = RevisitedCopy(g, i)
    PROVE  GraphOK(Z, top.graph) /\ IsQueue(top.graph, top.queue)
<1>1. PICK r, s, V, rfs : r = i.pos /\ s = i.rev /\ V = i.view /\ rfs = i.rfs
  OBVIOUS
<1>2. PICK h : h = CopiedGraph(g, r, s, V)
  OBVIOUS
<1>3. PICK m \in BOOLEAN : top = RevisitRead(h, <<>>, r, rfs, m)
  <2>1. r = i.pos
    BY <1>1
  <2>2. s = i.rev
    BY <1>1
  <2>3. V = i.view
    BY <1>1
  <2>4. rfs = i.rfs
    BY <1>1
  <2>5. top = RevisitedCopy(g, i)
    OBVIOUS
  <2> QED
    BY ONLY <1>2, <2>1, <2>2, <2>3, <2>4, <2>5, RevisitedCopyParts
<1>4. s \in Pos(g) /\ BackItemOK(g, i)
  BY <1>1 DEF ItemOK, Owner
<1>5. /\ g.ev[s].op = "W" /\ r \in Reads(g) /\ g.ev[r].rev /\ r \notin g.ev[s].pre
      /\ g.ev[s].loc = g.ev[r].loc /\ s \in Pos(g)
  BY <1>1, <1>4 DEF BackItemOK, Reads
<1>6. rfs = << <<s, g.ev[r].bytes>> >>
  BY <1>1, <1>4 DEF BackItemOK
<1>7. V = ViewFromStamp(g, g.ev[r].stamp) \cup g.ev[s].pre
  BY <1>1, <1>4 DEF BackItemOK
<1>8. /\ GraphBut(Z, h, {r}) /\ Unsettled(h, r) /\ r \in Reads(h) /\ Succ(r) \notin Pos(h)
      /\ s \in StoresTo(h, h.ev[r].loc) /\ h.ev[r].bytes = g.ev[r].bytes
  <2>1. GraphOK(Z, g)
    OBVIOUS
  <2> QED
    BY ONLY <1>2, <1>5, <1>7, <2>1, CopiedOK
<1>9. PICK n, q : n = 0 /\ q = <<>>
  OBVIOUS
<1>10. n < h.stamp
  BY <1>8, <1>9 DEF GraphBut, Typed
<1>11. Agree(g, h, n)
  <2>1. ViewFromStamp(g, n) = {}
    BY <1>9 DEF GraphOK, GraphBut, Stamped, Typed, ViewFromStamp
  <2>2. ViewFromStamp(h, n) = {}
    BY <1>8, <1>9 DEF GraphBut, Stamped, Typed, ViewFromStamp
  <2> QED
    BY <2>1, <2>2 DEF Agree
<1>12. IsQueue(g, q) /\ \A k \in DOMAIN q : q[k].stamp <= n
  <2>1. IsQueue(g, q)
    BY <1>9, EmptyQueue
  <2>2. DOMAIN q = {}
    BY <1>9
  <2> QED
    BY <2>1, <2>2
<1>13. /\ GraphOK(Z, g) /\ n \in Nat /\ m \in BOOLEAN
       /\ s \in StoresTo(h, h.ev[r].loc) \cup {InitPos}
       /\ rfs = << <<s, h.ev[r].bytes>> >>
       /\ top = RevisitRead(h, q, r, rfs, m)
  BY <1>3, <1>6, <1>8, <1>9
<1> QED
  BY ONLY <1>8, <1>10, <1>11, <1>12, <1>13, RevisitReadOK

(* backwardRevisit(): the cut graph stays on the stack, below its copy. *)
LEMMA BackwardOK ==
    ASSUME NEW Z, NEW g, GraphOK(Z, g), NEW i, ItemOK(g, i), i.kind = "back",
           NEW q, IsQueue(g, q), \A k \in DOMAIN q : q[k].stamp <= i.stamp,
           NEW h, h = Restricted(g, i.stamp), NEW top, top = RevisitedCopy(h, i)
    PROVE  /\ GraphOK(Z, h) /\ IsQueue(h, q)
           /\ GraphOK(Z, top.graph) /\ IsQueue(top.graph, top.queue)
<1>1. PICK s, n : s = i.rev /\ n = i.stamp
  OBVIOUS
<1>2. s \in Pos(g) /\ g.ev[s].rev /\ n = g.ev[s].stamp /\ g.ev[s].op = "W"
  BY <1>1 DEF ItemOK, Owner, BackItemOK
<1>3. CutFor(Z, g, h, s, n)
  <2>1. h = Restricted(g, n) /\ GraphOK(Z, g)
    BY <1>1
  <2> QED
    BY ONLY <1>2, <2>1, CutForItem
<1>4. GraphOK(Z, h) /\ Agree(g, h, n) /\ n \in Nat
  BY <1>2, <1>3 DEF CutFor
<1>5. Typed(h)
  BY <1>4 DEF GraphOK, GraphBut
<1>6. IsQueue(h, q)
  <2>1. GraphOK(Z, g) /\ IsQueue(g, q) /\ \A j \in DOMAIN q : q[j].stamp <= n
    BY <1>1
  <2> QED
    BY ONLY <1>4, <1>5, <2>1, QueueKept
<1>7. ItemOK(h, i)
  <2>1. i.stamp <= n /\ GraphOK(Z, g) /\ ItemOK(g, i)
    BY <1>1, <1>4
  <2> QED
    BY ONLY <1>4, <1>5, <2>1, ItemKept
<1>8. GraphOK(Z, top.graph) /\ IsQueue(top.graph, top.queue)
  <2>1. i.kind = "back" /\ top = RevisitedCopy(h, i)
    OBVIOUS
  <2> QED
    BY ONLY <1>4, <1>7, <2>1, CopyOK
<1> QED
  BY <1>4, <1>6, <1>8

-----------------------------------------------------------------------------
(* The inductive invariant of the exploration of a program whose accesses  *)
(* to a word have one size: the graphs are well formed, and the items of a *)
(* queue are about the graph they are queued with.                         *)

ExplorationInv ==
    /\ prog \in Program
    /\ phase \in {"run", "revisit", "done"}
    /\ moot \in BOOLEAN
    /\ count \in Nat
    /\ StackOK(Width(prog), stack)
    /\ TasksOK(Width(prog), tasks)

(* The graph with which verification starts. *)
LEMMA EmptyGraphOK ==
    ASSUME NEW Z, NEW g, g = EmptyGraph
    PROVE  GraphOK(Z, g)
<1>1. /\ g = [ev |-> g.ev, co |-> g.co, stamp |-> g.stamp]
      /\ g.ev = <<>> /\ g.stamp = 1 /\ g.co = [x \in Word |-> <<>>]
  BY DEF EmptyGraph
<1>2. Pos(g) = {}
  BY <1>1 DEF Pos
<1>3. g.ev \in [Pos(g) -> Label]
  BY <1>1, <1>2
<1>4. g.co \in [Word -> Seq(Event)]
  BY <1>1
<1>5. Typed(g)
  BY <1>1, <1>2, <1>3, <1>4 DEF Typed
<1>6. Contiguous(g) /\ Sized(Z, g) /\ ViewsClosed(g) /\ CutsClean(g)
  BY <1>2 DEF Contiguous, Sized, ViewsClosed, CutsClean
<1>7. Stamped(g)
  BY <1>1, <1>2 DEF Stamped
<1>8. RfsGiven(g, {})
  BY <1>2 DEF RfsGiven, Reads
<1>9. CoListsStores(g, {})
  <2>1. SUFFICES ASSUME NEW x \in Word PROVE Enumerates(g.co[x], StoresTo(g, x) \ {})
    BY DEF CoListsStores
  <2>2. g.co[x] = <<>> /\ StoresTo(g, x) \ {} = {}
    BY <1>1, <1>2 DEF StoresTo
  <2> QED
    BY <2>2, EnumeratesEmpty
<1> QED
  BY <1>5, <1>6, <1>7, <1>8, <1>9 DEF GraphOK, GraphBut

(* The invariant holds at the start. *)
LEMMA InitInv ==
    ASSUME Init
    PROVE  ExplorationInv
<1>1. /\ prog \in Program /\ phase = "run" /\ moot = FALSE /\ count = 0 /\ tasks = <<>>
      /\ stack = <<[graph |-> EmptyGraph, queue |-> <<>>]>>
  BY DEF Init
<1>2. PICK Z, g : Z = Width(prog) /\ g = EmptyGraph
  OBVIOUS
<1>3. GraphOK(Z, g)
  BY <1>2, EmptyGraphOK
<1>4. StackOK(Z, stack)
  <2>1. stack = <<[graph |-> g, queue |-> <<>>]>>
    BY <1>1, <1>2
  <2> QED
    BY <1>3, <2>1, SingleFrame
<1>5. TasksOK(Z, tasks)
  BY <1>1 DEF TasksOK
<1> QED
  BY <1>1, <1>2, <1>4, <1>5 DEF ExplorationInv

(* What a step has to leave behind. *)
LEMMA InvNext ==
    ASSUME prog \in Program, prog' = prog, phase' \in {"run", "revisit", "done"},
           moot' \in BOOLEAN, count' \in Nat,
           StackOK(Width(prog), stack'), TasksOK(Width(prog), tasks')
    PROVE  ExplorationInv'
BY DEF ExplorationInv

(* A step of the interpreter that adds a read. *)
LEMMA HandleLoadInv ==
    ASSUME ExplorationInv, Uniform(prog), NEW t \in Thread, HandleLoad(t)
    PROVE  ExplorationInv'
<1>1. PICK Z, g, q : Z = Width(prog) /\ g = G /\ q = Queue
  OBVIOUS
<1>2. StackOK(Z, stack) /\ GraphOK(Z, g) /\ IsQueue(g, q) /\ prog \in Program
  BY <1>1, TopOK DEF ExplorationInv
<1>3. PICK r : r = <<t, Size(g, t) + 1>>
  OBVIOUS
<1>4. PICK lab \in NextLabels(g, t) :
        LET h == AddLabelToGraph(g, r, lab)
            opts == RfOptions(h, r, CoherentStores(h, lab), {})
        IN  /\ lab.op = "R"
            /\ stack' = SetTop(ChangeRf(h, r, Last(opts)), q \o OtherItems(h, r, opts))
  BY <1>1, <1>3, ZenonT(60) DEF HandleLoad, OtherItems, ReadItem
<1>5. PICK h : h = AddLabelToGraph(g, r, lab)
  OBVIOUS
<1>6. PICK opts : opts = RfOptions(h, r, CoherentStores(h, lab), {})
  OBVIOUS
<1>7. PICK k, u : k = ChangeRf(h, r, Last(opts)) /\ u = q \o OtherItems(h, r, opts)
  OBVIOUS
<1>8. stack' = SetTop(k, u) /\ LoadStep(lab, h, r, q, k, u)
  BY <1>4, <1>5, <1>6, <1>7 DEF LoadStep
<1>9. IsNext(g, r)
  BY <1>2, <1>3, NextPosition
<1>10. IsFresh(Z, lab)
  <2>1. GraphOK(Width(prog), g) /\ prog \in Program
    BY <1>1, <1>2
  <2> QED
    BY <1>1, <2>1, NextLabelFresh
<1>11. GraphOK(Z, k) /\ IsQueue(k, u)
  <2>1. GraphOK(Z, g) /\ IsQueue(g, q) /\ LoadStep(lab, h, r, q, k, u)
    BY <1>2, <1>8
  <2> QED
    BY ONLY <1>5, <1>9, <1>10, <2>1, LoadOK
<1>12. StackOK(Width(prog), stack')
  <2>1. StackOK(Z, stack')
    BY <1>2, <1>8, <1>11, SetTopOK
  <2> QED
    BY <1>1, <2>1
<1>13. UNCHANGED <<prog, phase, moot, tasks, explored, count>>
  BY DEF HandleLoad
<1> QED
  BY <1>12, <1>13, InvNext DEF ExplorationInv

(* A step of the interpreter that adds a store. *)
LEMMA HandleStoreInv ==
    ASSUME ExplorationInv, Uniform(prog), NEW t \in Thread, HandleStore(t)
    PROVE  ExplorationInv'
<1>1. PICK Z, g, q : Z = Width(prog) /\ g = G /\ q = Queue
  OBVIOUS
<1>2. StackOK(Z, stack) /\ GraphOK(Z, g) /\ IsQueue(g, q) /\ prog \in Program
  BY <1>1, TopOK DEF ExplorationInv
<1>3. PICK w : w = <<t, Size(g, t) + 1>>
  OBVIOUS
<1>4. PICK lab \in NextLabels(g, t) :
        LET k == AddLabelToGraph(g, w, lab)
            h == AddStoreToCO(k, w, IF IsRMWStore(lab) THEN RMWSuccessors(k, w) ELSE <<>>)
        IN  /\ lab.op = "W"
            /\ stack' = SetTop(h, CalcRevisits(q \o SetToSeq(PlacingItems(k, w)), h, w))
            /\ moot' = ViolatesAtomicity(h, w)
  BY <1>1, <1>3 DEF HandleStore
<1>5. PICK k : k = AddLabelToGraph(g, w, lab)
  OBVIOUS
<1>6. PICK succs : succs = IF IsRMWStore(lab) THEN RMWSuccessors(k, w) ELSE <<>>
  OBVIOUS
<1>7. PICK h : h = AddStoreToCO(k, w, succs)
  OBVIOUS
<1>8. PICK u : u = CalcRevisits(q \o SetToSeq(PlacingItems(k, w)), h, w)
  OBVIOUS
<1>9. stack' = SetTop(h, u) /\ lab.op = "W" /\ moot' = ViolatesAtomicity(h, w)
  BY <1>4, <1>5, <1>6, <1>7, <1>8
<1>10. IsNext(g, w)
  BY <1>2, <1>3, NextPosition
<1>11. IsFresh(Z, lab)
  <2>1. GraphOK(Width(prog), g) /\ prog \in Program
    BY <1>1, <1>2
  <2> QED
    BY <1>1, <2>1, NextLabelFresh
<1>12. GraphOK(Z, h) /\ IsQueue(h, u)
  BY ONLY <1>2, <1>5, <1>7, <1>8, <1>9, <1>10, <1>11, StoreOK
<1>13. StackOK(Width(prog), stack')
  <2>1. StackOK(Z, stack')
    BY <1>2, <1>9, <1>12, SetTopOK
  <2> QED
    BY <1>1, <2>1
<1>14. UNCHANGED <<prog, phase, tasks, explored, count>>
  BY DEF HandleStore
<1>15. moot' \in BOOLEAN
  BY <1>9 DEF ViolatesAtomicity
<1> QED
  BY <1>13, <1>14, <1>15, InvNext DEF ExplorationInv

(* The end of an execution, moot or counted. *)
LEMMA EndExecutionInv ==
    ASSUME ExplorationInv, EndExecution
    PROVE  ExplorationInv'
<1>1. prog' = prog /\ stack' = stack /\ tasks' = tasks /\ phase' = "revisit" /\ moot' = FALSE
  BY DEF EndExecution
<1>2. count' \in Nat
  BY DEF EndExecution, ExplorationInv
<1> QED
  BY <1>1, <1>2, InvNext DEF ExplorationInv

(* The item that a revisit takes, and the queue it leaves. *)
Taken(Z, g, i, q) ==
    /\ GraphOK(Z, g) /\ ItemOK(g, i) /\ IsQueue(g, q)
    /\ \A k \in DOMAIN q : q[k].stamp <= i.stamp

(* getNextItem(): the item is good for its graph, and what stays queued is *)
(* no later.                                                               *)
LEMMA TakeItem ==
    ASSUME NEW Z, StackOK(Z, stack), Queue # <<>>,
           NEW g, g = G, NEW i, i = Item, NEW q, q = RestOfQueue
    PROVE  Taken(Z, g, i, q)
<1>1. GraphOK(Z, g) /\ IsQueue(g, Queue)
  BY TopOK
<1>2. /\ ItemOK(g, i) /\ IsQueue(g, q)
      /\ \A k \in DOMAIN q : q[k].stamp <= i.stamp
  BY <1>1, NextItem
<1> QED
  BY <1>1, <1>2 DEF Taken

(* revisitRead() on the execution at hand. *)
LEMMA ForwardRevisitReadInv ==
    ASSUME ExplorationInv, ForwardRevisitRead
    PROVE  ExplorationInv'
<1>1. PICK Z, g, i, q : Z = Width(prog) /\ g = G /\ i = Item /\ q = RestOfQueue
  OBVIOUS
<1>2. Queue # <<>> /\ i.kind = "read"
  BY <1>1 DEF ForwardRevisitRead
<1>3. StackOK(Z, stack) /\ Taken(Z, g, i, q)
  BY <1>1, <1>2, TakeItem DEF ExplorationInv
<1>4. PICK h : h = Restricted(g, i.stamp)
  OBVIOUS
<1>5. PICK top : top = RevisitRead(h, q, i.pos, i.rfs, FALSE)
  OBVIOUS
<1>6. stack' = SetTop(top.graph, top.queue) /\ Continue(top.ok)
  BY <1>1, <1>4, <1>5 DEF ForwardRevisitRead
<1>7. GraphOK(Z, top.graph) /\ IsQueue(top.graph, top.queue)
  <2>1. /\ GraphOK(Z, g) /\ ItemOK(g, i) /\ IsQueue(g, q) /\ i.kind = "read"
        /\ \A k \in DOMAIN q : q[k].stamp <= i.stamp
    BY <1>2, <1>3 DEF Taken
  <2> QED
    BY ONLY <1>4, <1>5, <2>1, ForwardReadOK
<1>8. StackOK(Width(prog), stack')
  <2>1. StackOK(Z, stack')
    BY <1>3, <1>6, <1>7, SetTopOK
  <2> QED
    BY <1>1, <2>1
<1>9. UNCHANGED <<prog, moot, tasks, explored, count>> /\ phase' \in {"run", "revisit", "done"}
  BY <1>6 DEF ForwardRevisitRead, Continue
<1> QED
  BY <1>8, <1>9, InvNext DEF ExplorationInv

(* revisitWrite() on the execution at hand. *)
LEMMA ForwardRevisitWriteInv ==
    ASSUME ExplorationInv, ForwardRevisitWrite
    PROVE  ExplorationInv'
<1>1. PICK Z, g, i, q : Z = Width(prog) /\ g = G /\ i = Item /\ q = RestOfQueue
  OBVIOUS
<1>2. Queue # <<>> /\ i.kind \in {"mo", "moSeq"}
  BY <1>1 DEF ForwardRevisitWrite
<1>3. StackOK(Z, stack) /\ Taken(Z, g, i, q)
  BY <1>1, <1>2, TakeItem DEF ExplorationInv
<1>4. i.kind = "mo"
  BY <1>2, <1>3 DEF Taken, ItemOK
<1>5. PICK w, h : w = i.pos /\ h = Restricted(g, i.stamp)
  OBVIOUS
<1>6. PICK k, succs : k = RemoveStoreFromCO(h, w) /\ succs = <<i.succ>>
  OBVIOUS
<1>7. PICK l : l = AddStoreToCO(k, w, succs)
  OBVIOUS
<1>8. PICK c : c = WithMax(l, w, FALSE)
  OBVIOUS
<1>9. PICK u : u = CalcRevisits(q, c, w)
  OBVIOUS
<1>10. stack' = SetTop(c, u) /\ Continue(~ViolatesAtomicity(c, w))
  BY <1>1, <1>4, <1>5, <1>6, <1>7, <1>8, <1>9 DEF ForwardRevisitWrite, WithMax
<1>11. GraphOK(Z, c) /\ IsQueue(c, u)
  <2>1. /\ GraphOK(Z, g) /\ ItemOK(g, i) /\ IsQueue(g, q) /\ i.kind = "mo"
        /\ \A j \in DOMAIN q : q[j].stamp <= i.stamp
    BY <1>3, <1>4 DEF Taken
  <2>2. w = i.pos
    BY <1>5
  <2>3. h = Restricted(g, i.stamp)
    BY <1>5
  <2>4. k = RemoveStoreFromCO(h, w)
    BY <1>6
  <2> QED
    BY ONLY <1>7, <1>8, <1>9, <2>1, <2>2, <2>3, <2>4, ForwardWriteOK, ZenonT(60)
<1>12. StackOK(Width(prog), stack')
  <2>1. StackOK(Z, stack')
    BY <1>3, <1>10, <1>11, SetTopOK
  <2> QED
    BY <1>1, <2>1
<1>13. UNCHANGED <<prog, moot, tasks, explored, count>> /\ phase' \in {"run", "revisit", "done"}
  BY <1>10 DEF ForwardRevisitWrite, Continue
<1> QED
  BY <1>12, <1>13, InvNext DEF ExplorationInv

(* What BackwardRevisit and SubmitRevisit have in common. *)
LEMMA BackwardStackOK ==
    ASSUME NEW Z, StackOK(Z, stack), Queue # <<>>, Item.kind = "back",
           NEW h, h = Restricted(G, Item.stamp), NEW top, top = RevisitedCopy(h, Item),
           NEW s, s = Append(SetTop(h, RestOfQueue), [graph |-> top.graph, queue |-> top.queue])
    PROVE  StackOK(Z, s) /\ GraphOK(Z, top.graph)
<1>1. PICK g, i, q : g = G /\ i = Item /\ q = RestOfQueue
  OBVIOUS
<1>2. Taken(Z, g, i, q)
  BY <1>1, TakeItem
<1>3. /\ GraphOK(Z, h) /\ IsQueue(h, q)
      /\ GraphOK(Z, top.graph) /\ IsQueue(top.graph, top.queue)
  <2>1. /\ GraphOK(Z, g) /\ ItemOK(g, i) /\ IsQueue(g, q) /\ i.kind = "back"
        /\ \A k \in DOMAIN q : q[k].stamp <= i.stamp
    BY <1>1, <1>2 DEF Taken
  <2>2. h = Restricted(g, i.stamp)
    BY <1>1
  <2>3. top = RevisitedCopy(h, i)
    BY <1>1
  <2> QED
    BY ONLY <2>1, <2>2, <2>3, BackwardOK
<1>4. PICK b : b = SetTop(h, q)
  OBVIOUS
<1>5. StackOK(Z, b)
  BY <1>3, <1>4, SetTopOK
<1>6. PICK x, y : x = top.graph /\ y = top.queue
  OBVIOUS
<1>7. s = Append(b, [graph |-> x, queue |-> y])
  BY <1>1, <1>4, <1>6
<1>8. GraphOK(Z, x) /\ IsQueue(x, y)
  BY <1>3, <1>6
<1>9. StackOK(Z, s)
  BY ONLY <1>5, <1>7, <1>8, PushOK
<1> QED
  BY <1>3, <1>9

(* A backward revisit explored by this driver. *)
LEMMA BackwardRevisitInv ==
    ASSUME ExplorationInv, BackwardRevisit
    PROVE  ExplorationInv'
<1>1. PICK Z, h : Z = Width(prog) /\ h = Restricted(G, Item.stamp)
  OBVIOUS
<1>2. PICK top : top = RevisitedCopy(h, Item)
  OBVIOUS
<1>3. /\ Queue # <<>> /\ Item.kind = "back"
      /\ stack' = Append(SetTop(h, RestOfQueue), [graph |-> top.graph, queue |-> top.queue])
      /\ moot' = ~top.ok /\ phase' = "run"
      /\ UNCHANGED <<prog, tasks, explored, count>>
  BY <1>1, <1>2 DEF BackwardRevisit
<1>4. StackOK(Z, stack)
  BY <1>1 DEF ExplorationInv
<1>5. StackOK(Z, stack')
  BY <1>1, <1>2, <1>3, <1>4, BackwardStackOK
<1>6. StackOK(Width(prog), stack')
  BY <1>1, <1>5
<1> QED
  BY <1>3, <1>6, InvNext DEF ExplorationInv

(* A backward revisit handed to the pool. *)
LEMMA SubmitRevisitInv ==
    ASSUME ExplorationInv, SubmitRevisit
    PROVE  ExplorationInv'
<1>1. PICK Z, h : Z = Width(prog) /\ h = Restricted(G, Item.stamp)
  OBVIOUS
<1>2. PICK top : top = RevisitedCopy(h, Item)
  OBVIOUS
<1>3. /\ Queue # <<>> /\ Item.kind = "back"
      /\ stack' = Append(SetTop(h, RestOfQueue), [graph |-> top.graph, queue |-> top.queue])
      /\ tasks' = Append(tasks, top.graph)
      /\ UNCHANGED <<prog, phase, moot, explored, count>>
  BY <1>1, <1>2 DEF SubmitRevisit
<1>4. StackOK(Z, stack) /\ TasksOK(Z, tasks)
  BY <1>1 DEF ExplorationInv
<1>5. StackOK(Z, stack') /\ GraphOK(Z, top.graph)
  BY <1>1, <1>2, <1>3, <1>4, BackwardStackOK
<1>6. TasksOK(Z, tasks')
  BY <1>3, <1>4, <1>5, TaskAdded
<1>7. StackOK(Width(prog), stack') /\ TasksOK(Width(prog), tasks')
  BY <1>1, <1>5, <1>6
<1> QED
  BY <1>3, <1>7, InvNext DEF ExplorationInv

(* Going back to the execution below. *)
LEMMA PopExecutionInv ==
    ASSUME ExplorationInv, PopExecution
    PROVE  ExplorationInv'
<1>1. /\ Len(stack) > 1 /\ stack' = Front(stack)
      /\ UNCHANGED <<prog, phase, moot, tasks, explored, count>>
  BY DEF PopExecution
<1>2. PICK Z : Z = Width(prog)
  OBVIOUS
<1>3. StackOK(Z, stack)
  BY <1>2 DEF ExplorationInv
<1>4. StackOK(Z, stack')
  BY <1>1, <1>3, PopOK
<1>5. StackOK(Width(prog), stack')
  BY <1>2, <1>4
<1> QED
  BY <1>1, <1>5, InvNext DEF ExplorationInv

(* A driver that takes a graph from the pool. *)
LEMMA InitFromStateInv ==
    ASSUME ExplorationInv, InitFromState
    PROVE  ExplorationInv'
<1>1. /\ tasks # <<>> /\ stack' = <<[graph |-> Last(tasks), queue |-> <<>>]>>
      /\ tasks' = Front(tasks) /\ phase' = "run"
      /\ UNCHANGED <<prog, moot, explored, count>>
  BY DEF InitFromState
<1>2. PICK Z, g : Z = Width(prog) /\ g = Last(tasks)
  OBVIOUS
<1>3. TasksOK(Z, tasks)
  BY <1>2 DEF ExplorationInv
<1>4. TasksOK(Z, tasks') /\ GraphOK(Z, Last(tasks))
  BY <1>1, <1>3, TaskTaken
<1>5. StackOK(Z, stack')
  <2>1. stack' = <<[graph |-> g, queue |-> <<>>]>> /\ GraphOK(Z, g)
    BY <1>1, <1>2, <1>4
  <2> QED
    BY <2>1, SingleFrame
<1>6. StackOK(Width(prog), stack') /\ TasksOK(Width(prog), tasks')
  BY <1>2, <1>4, <1>5
<1> QED
  BY <1>1, <1>6, InvNext DEF ExplorationInv

(* Every step of the exploration keeps the invariant. *)
LEMMA NextInv ==
    ASSUME ExplorationInv, Uniform(prog), [Next]_vars
    PROVE  ExplorationInv'
<1>1. CASE \E t \in Thread : HandleLoad(t) \/ HandleStore(t)
  BY <1>1, HandleLoadInv, HandleStoreInv
<1>2. CASE EndExecution
  BY <1>2, EndExecutionInv
<1>3. CASE ForwardRevisitRead
  BY <1>3, ForwardRevisitReadInv
<1>4. CASE ForwardRevisitWrite
  BY <1>4, ForwardRevisitWriteInv
<1>5. CASE BackwardRevisit
  BY <1>5, BackwardRevisitInv
<1>6. CASE SubmitRevisit
  BY <1>6, SubmitRevisitInv
<1>7. CASE PopExecution
  BY <1>7, PopExecutionInv
<1>8. CASE InitFromState
  BY <1>8, InitFromStateInv
<1>9. CASE EndExploration
  <2>1. UNCHANGED <<prog, stack, moot, tasks, explored, count>> /\ phase' = "done"
    BY <1>9 DEF EndExploration
  <2> QED
    BY <2>1 DEF ExplorationInv
<1>10. CASE UNCHANGED vars
  BY <1>10 DEF ExplorationInv, vars
<1>11. CASE Finished
  BY <1>10, <1>11, SMTT(30) DEF Finished
<1> QED
  BY <1>1, <1>2, <1>3, <1>4, <1>5, <1>6, <1>7, <1>8, <1>9, <1>10, <1>11 DEF Next

(* The program under test does not change. *)
LEMMA ProgramKept ==
    ASSUME [Next]_vars
    PROVE  prog' = prog
BY DEF Next, vars, HandleLoad, HandleStore, EndExecution, ForwardRevisitRead,
       ForwardRevisitWrite, BackwardRevisit, SubmitRevisit, PopExecution, InitFromState,
       EndExploration, Finished

-----------------------------------------------------------------------------
(* What the invariant says of the graphs and of the items. *)

LEMMA FramesOK ==
    ASSUME ExplorationInv, NEW Z, Z = Width(prog)
    PROVE  /\ \A g \in Graphs : GraphOK(Z, g)
           /\ \A f \in Frames : GraphOK(Z, f.graph) /\ IsQueue(f.graph, f.queue)
<1>1. StackOK(Z, stack) /\ TasksOK(Z, tasks)
  BY DEF ExplorationInv
<1>2. \A f \in Frames : GraphOK(Z, f.graph) /\ IsQueue(f.graph, f.queue)
  BY <1>1 DEF Frames, Range, StackOK, FrameOK
<1>3. \A g \in Range(tasks) : GraphOK(Z, g)
  BY <1>1 DEF Range, TasksOK
<1> QED
  BY <1>2, <1>3 DEF Graphs

(* The parts of GraphsWellFormed for one graph. *)
LEMMA GraphPositions ==
    ASSUME NEW Z, NEW g, GraphOK(Z, g)
    PROVE  /\ \A e \in Pos(g) : e[1] \in Thread /\ e[2] \in 1..Size(g, e[1])
           /\ \A x \in Word :
                /\ IsInjective(g.co[x])
                /\ Range(g.co[x]) = {e \in Pos(g) : g.ev[e].op = "W" /\ g.ev[e].loc = x}
<1>1. Typed(g) /\ Stamped(g) /\ Contiguous(g) /\ CoListsStores(g, {})
  BY DEF GraphOK, GraphBut
<1>2. ASSUME NEW e \in Pos(g)
      PROVE  e[1] \in Thread /\ e[2] \in 1..Size(g, e[1])
  <2>1. PICK t \in Thread, k \in Nat \ {0} : e = <<t, k>>
    BY <1>1 DEF Typed, Event
  <2>2. Size(g, t) \in Nat /\ (<<t, k>> \in Pos(g) <=> k <= Size(g, t))
    BY <1>1, ThreadPositions
  <2> QED
    BY <2>1, <2>2
<1>3. ASSUME NEW x \in Word
      PROVE  /\ IsInjective(g.co[x])
             /\ Range(g.co[x]) = {e \in Pos(g) : g.ev[e].op = "W" /\ g.ev[e].loc = x}
  <2>1. Enumerates(g.co[x], StoresTo(g, x) \ {})
    BY <1>1 DEF CoListsStores
  <2> QED
    BY <2>1 DEF Enumerates, StoresTo
<1> QED
  BY <1>2, <1>3

(* Every byte of a read comes from one store of its word in the graph. *)
LEMMA GraphReads ==
    ASSUME NEW Z, NEW g, GraphOK(Z, g), NEW r \in Reads(g), NEW rf, rf = g.ev[r].rf
    PROVE  /\ UNION {p[2] : p \in Range(rf)} = g.ev[r].bytes
           /\ \A i, j \in DOMAIN rf : i # j => rf[i][2] \cap rf[j][2] = {}
           /\ \A p \in Range(rf) : p[1] # InitPos =>
                /\ p[1] \in Pos(g) /\ g.ev[p[1]].op = "W"
                /\ g.ev[p[1]].loc = g.ev[r].loc /\ p[2] \subseteq g.ev[p[1]].bytes
<1>1. RfsGiven(g, {}) /\ Sized(Z, g) /\ r \in Pos(g)
  BY DEF GraphOK, GraphBut, Reads
<1>2. PICK w \in StoresTo(g, g.ev[r].loc) \cup {InitPos} : rf = << <<w, g.ev[r].bytes>> >>
  BY <1>1 DEF RfsGiven, ReadsOne
<1>3. PICK b, q : b = g.ev[r].bytes /\ q = <<w, b>>
  OBVIOUS
<1>4. rf = <<q>> /\ q[1] = w /\ q[2] = b
  BY <1>2, <1>3
<1>5. DOMAIN rf = {1} /\ rf[1] = q
  BY <1>4
<1>6. Range(rf) = {q}
  BY <1>5 DEF Range
<1>7. UNION {p[2] : p \in Range(rf)} = b
  BY <1>4, <1>6
<1>8. w # InitPos => /\ w \in Pos(g) /\ g.ev[w].op = "W"
                     /\ g.ev[w].loc = g.ev[r].loc /\ g.ev[w].bytes = b
  BY <1>1, <1>2, <1>3 DEF StoresTo, Sized
<1>9. \A i, j \in DOMAIN rf : i = j
  BY <1>5
<1>10. \A p \in Range(rf) : p[1] # InitPos =>
                /\ p[1] \in Pos(g) /\ g.ev[p[1]].op = "W"
                /\ g.ev[p[1]].loc = g.ev[r].loc /\ p[2] \subseteq g.ev[p[1]].bytes
  BY <1>4, <1>6, <1>8
<1> QED
  BY <1>3, <1>7, <1>9, <1>10

(* The stamps number the labels, along program order. *)
LEMMA GraphStamps ==
    ASSUME NEW Z, NEW g, GraphOK(Z, g)
    PROVE  /\ {g.ev[e].stamp : e \in Pos(g)} = 1..(g.stamp - 1)
           /\ Cardinality(Pos(g)) = g.stamp - 1
           /\ \A e \in Pos(g) : Succ(e) \in Pos(g) => g.ev[e].stamp < g.ev[Succ(e)].stamp
<1>1. Typed(g) /\ Stamped(g)
  BY DEF GraphOK, GraphBut
<1>2. Cardinality(Pos(g)) = g.stamp - 1
  BY <1>1, PositionsFinite
<1>3. {g.ev[e].stamp : e \in Pos(g)} = 1..(g.stamp - 1)
  BY <1>1 DEF Stamped
<1>4. ASSUME NEW e \in Pos(g), Succ(e) \in Pos(g)
      PROVE  g.ev[e].stamp < g.ev[Succ(e)].stamp
  <2>1. e \in Event
    BY <1>1 DEF Typed
  <2>2. PICK f : f = Succ(e)
    OBVIOUS
  <2>3. e[1] = f[1] /\ e[2] < f[2]
    BY <2>1, <2>2 DEF Succ, Event
  <2>4. f \in Pos(g)
    BY <1>4, <2>2
  <2> QED
    BY <1>1, <2>2, <2>3, <2>4 DEF Stamped
<1> QED
  BY <1>2, <1>3, <1>4

(* The invariant implies what the runs check of graphs. *)
LEMMA InvGraphs ==
    ASSUME ExplorationInv
    PROVE  GraphsWellFormed
<1>1. PICK Z : Z = Width(prog)
  OBVIOUS
<1>2. \A g \in Graphs : GraphOK(Z, g)
  BY <1>1, FramesOK
<1>3. TypeOK
  <2>1. /\ phase \in {"run", "revisit", "done"} /\ moot \in BOOLEAN /\ count \in Nat
        /\ stack # <<>>
    BY DEF ExplorationInv, StackOK
  <2> QED
    BY <1>2, <2>1, GraphPositions DEF TypeOK
<1>4. RfsCoverReads
  BY <1>2, GraphReads DEF RfsCoverReads
<1>5. StampsFollowProgramOrder
  BY <1>2, GraphStamps DEF StampsFollowProgramOrder
<1> QED
  BY <1>3, <1>4, <1>5 DEF GraphsWellFormed

(* QueuedItemsFresh for one item. *)
ItemFresh(g, q) ==
    LET past == ViewFromStamp(g, q.stamp)
    IN  /\ q.pos \in past
        /\ q.kind = "read" => /\ g.ev[q.pos].stamp = q.stamp
                              /\ {p[1] : p \in Range(q.rfs)} \subseteq past \cup {InitPos}
        /\ q.kind = "back" => /\ q.rev \in past /\ g.ev[q.rev].stamp = q.stamp
                              /\ q.view \subseteq past
                              /\ {p[1] : p \in Range(q.rfs)} \subseteq q.view \cup {InitPos}
        /\ q.kind = "mo" => g.ev[q.pos].stamp = q.stamp /\ q.succ \in past
        /\ q.kind = "moSeq" => g.ev[q.pos].stamp = q.stamp
                              /\ Range(q.seq) = past \cap Range(g.co[g.ev[q.pos].loc])

(* The stores of an rf with one part. *)
LEMMA SingleRfStore ==
    ASSUME NEW rfs, NEW w, NEW b, rfs = << <<w, b>> >>
    PROVE  {p[1] : p \in Range(rfs)} = {w}
<1>1. PICK q : q = <<w, b>>
  OBVIOUS
<1>2. rfs = <<q>> /\ q[1] = w
  BY <1>1
<1>3. DOMAIN rfs = {1} /\ rfs[1] = q
  BY <1>2
<1>4. Range(rfs) = {q}
  BY <1>3 DEF Range
<1> QED
  BY <1>2, <1>4

(* A good item names the labels it was made for, and its cut keeps them. *)
LEMMA ItemIsFresh ==
    ASSUME NEW Z, NEW g, GraphOK(Z, g), NEW q, ItemOK(g, q)
    PROVE  ItemFresh(g, q)
<1>1. /\ Typed(g) /\ ViewsClosed(g) /\ CutsClean(g)
      /\ \A e \in Pos(g) : g.ev[e].stamp \in Nat
  BY DEF GraphOK, GraphBut, Typed, Label
<1>2. PICK n, past : n = q.stamp /\ past = ViewFromStamp(g, n)
  OBVIOUS
<1>3. \A e \in Pos(g) : g.ev[e].stamp <= n => e \in past
  BY <1>2 DEF ViewFromStamp
<1>4. Owner(q) \in Pos(g) /\ g.ev[Owner(q)].stamp = n /\ g.ev[Owner(q)].rev /\ n \in Nat
  BY <1>1, <1>2 DEF ItemOK
<1>5. CASE q.kind = "read" /\ ReadItemOK(g, q)
  <2>1. q.pos \in past /\ g.ev[q.pos].stamp = n
    BY <1>3, <1>4, <1>5 DEF Owner
  <2>2. PICK w \in StoresTo(g, g.ev[q.pos].loc) \cup {InitPos} :
          q.rfs = << <<w, g.ev[q.pos].bytes>> >> /\ Stamp(g, w) < n
    BY <1>2, <1>5 DEF ReadItemOK
  <2>3. w \in past \cup {InitPos}
    BY <1>1, <1>3, <1>4, <2>2 DEF StoresTo, Stamp
  <2>4. PICK rfs, b : rfs = q.rfs /\ b = g.ev[q.pos].bytes
    OBVIOUS
  <2>5. {p[1] : p \in Range(rfs)} = {w}
    <3>1. rfs = << <<w, b>> >>
      BY <2>2, <2>4
    <3> QED
      BY ONLY <3>1, SingleRfStore
  <2>6. {p[1] : p \in Range(q.rfs)} \subseteq past \cup {InitPos}
    BY <2>3, <2>4, <2>5
  <2> QED
    BY <1>2, <1>5, <2>1, <2>6 DEF ItemFresh
<1>6. CASE q.kind = "back" /\ BackItemOK(g, q)
  <2>1. PICK r, s, V, rfs, b : /\ r = q.pos /\ s = q.rev /\ V = q.view /\ rfs = q.rfs
                               /\ b = g.ev[r].bytes
    OBVIOUS
  <2>2. s \in Pos(g) /\ g.ev[s].stamp = n /\ g.ev[s].rev
    BY <1>4, <1>6, <2>1 DEF Owner
  <2>3. /\ r \in Pos(g) /\ g.ev[r].stamp < g.ev[s].stamp
        /\ rfs = << <<s, b>> >>
        /\ V = ViewFromStamp(g, g.ev[r].stamp) \cup g.ev[s].pre
    BY <1>6, <2>1 DEF BackItemOK
  <2>4. r \in past /\ s \in past
    BY <1>1, <1>3, <1>4, <2>2, <2>3
  <2>5. V \subseteq past
    <3>1. ViewFromStamp(g, g.ev[r].stamp) \subseteq past
      BY <1>1, <1>3, <1>4, <2>2, <2>3 DEF ViewFromStamp
    <3>2. g.ev[s].pre \subseteq Pos(g) /\ \A f \in g.ev[s].pre : g.ev[f].stamp <= n
      BY <1>1, <2>2 DEF ViewsClosed, CutsClean
    <3> QED
      BY <1>3, <2>3, <3>1, <3>2
  <2>6. {p[1] : p \in Range(rfs)} = {s}
    BY <2>3, SingleRfStore
  <2>7. s \in V
    BY <1>1, <2>2, <2>3 DEF ViewsClosed
  <2> QED
    BY <1>2, <1>6, <2>1, <2>2, <2>4, <2>5, <2>6, <2>7 DEF ItemFresh
<1>7. CASE q.kind = "mo" /\ PlaceItemOK(g, q)
  <2>1. q.pos \in past /\ g.ev[q.pos].stamp = n
    BY <1>3, <1>4, <1>7 DEF Owner
  <2>2. q.succ \in past
    BY <1>2, <1>3, <1>7 DEF PlaceItemOK
  <2> QED
    BY <1>2, <1>7, <2>1, <2>2 DEF ItemFresh
<1> QED
  BY <1>5, <1>6, <1>7 DEF ItemOK

(* The invariant implies what the runs check of queued items. *)
LEMMA InvItems ==
    ASSUME ExplorationInv
    PROVE  QueuedItemsFresh
<1>1. PICK Z : Z = Width(prog)
  OBVIOUS
<1>2. ASSUME NEW f \in Frames, NEW q \in Range(f.queue)
      PROVE  ItemFresh(f.graph, q)
  <2>1. PICK g : g = f.graph
    OBVIOUS
  <2>2. GraphOK(Z, g) /\ IsQueue(g, f.queue)
    BY <1>1, <2>1, FramesOK
  <2>3. ItemOK(g, q)
    BY <2>2 DEF IsQueue, QueueOK, Range
  <2>4. ItemFresh(g, q)
    BY ONLY <2>2, <2>3, ItemIsFresh
  <2> QED
    BY <2>1, <2>4
<1> QED
  BY <1>2 DEF ItemFresh, QueuedItemsFresh

-----------------------------------------------------------------------------
(* The theorems. *)

(* The inductive invariant: while a program is explored whose accesses to  *)
(* a word have one size, every graph on the execution stack and every      *)
(* graph handed to the pool is well formed, with closed prefix views and   *)
(* with cuts that lose nothing a kept label depends on, and every work     *)
(* item refers to labels that its own cut keeps.                           *)
THEOREM ExplorationInvariant == Spec => [](Uniform(prog) => ExplorationInv)
<1>1. Init => (Uniform(prog) => ExplorationInv)
  BY InitInv
<1>2. (Uniform(prog) => ExplorationInv) /\ [Next]_vars => (Uniform(prog) => ExplorationInv)'
  <2>1. SUFFICES ASSUME Uniform(prog) => ExplorationInv, [Next]_vars, Uniform(prog)'
                 PROVE  ExplorationInv'
    OBVIOUS
  <2>2. Uniform(prog)
    BY <2>1, ProgramKept
  <2> QED
    BY <2>1, <2>2, NextInv
<1> QED
  BY <1>1, <1>2, PTL DEF Spec

(* Whatever addLabelToGraph(), restrictGraph(), copyGraph(),               *)
(* compressStampsAfter(), repairDanglingReads() and the revisits do, the   *)
(* threads of every graph are numbered without gaps, coherence lists every *)
(* store once, every read takes each of its bytes from one store of the    *)
(* graph and the stamps number the labels along program order: for any     *)
(* number of threads, words and instructions, as long as the accesses to a *)
(* word have one size.                                                     *)
THEOREM GraphsStayWellFormed == Spec => [](Uniform(prog) => GraphsWellFormed)
<1>1. (Uniform(prog) => ExplorationInv) => (Uniform(prog) => GraphsWellFormed)
  BY InvGraphs
<1> QED
  BY <1>1, ExplorationInvariant, PTL

(* For the same programs, a work item that getNextItem() returns, however  *)
(* late, still names the labels it was made for, and everything it refers  *)
(* to survives the cut that restrictGraph() makes for it.                  *)
THEOREM ItemsStayFresh == Spec => [](Uniform(prog) => QueuedItemsFresh)
<1>1. (Uniform(prog) => ExplorationInv) => (Uniform(prog) => QueuedItemsFresh)
  BY InvItems
<1> QED
  BY <1>1, ExplorationInvariant, PTL
=============================================================================
