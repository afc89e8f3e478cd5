--------------------------- MODULE ExecutionGraph ---------------------------
(***************************************************************************)
(* Execution graphs: ExecutionGraph.{hpp,cpp} and the labels they hold.    *)
(*                                                                         *)
(* A graph is a record of                                                  *)
(*   ev     the labels, by position <<thread, index>>                      *)
(*   co     for every word (an 8-byte bucket) the list of its stores       *)
(*   stamp  the stamp the next label gets (timestamp)                      *)
(* Only memory accesses are labels here.  An access covers some bytes of a *)
(* word; two bytes are enough for accesses to nest, overlap or be apart.   *)
(* The rfs of a read are a sequence of pairs <<store, bytes>>, because     *)
(* with mixed-size accesses a read may take its bytes from several stores. *)
(* The lists of readers are derived from the rfs.                          *)
(***************************************************************************)
EXTENDS Integers, FiniteSets, SequencesExt

CONSTANTS
    NumThreads,     \* the threads the main thread creates
    Word            \* the words of memory

Byte == {0, 1}

(* Event::getInit() *)
InitPos == <<0, 0>>

Prev(e) == <<e[1], e[2] - 1>>
Succ(e) == <<e[1], e[2] + 1>>

(* EventL2RCompare *)
L2R(e, f) == e[1] < f[1] \/ (e[1] = f[1] /\ e[2] < f[2])

EmptyGraph == [ev |-> <<>>, co |-> [x \in Word |-> <<>>], stamp |-> 1]

Pos(g) == DOMAIN g.ev
Reads(g) == {e \in Pos(g) : g.ev[e].op = "R"}
Size(g, t) == Cardinality({e \in Pos(g) : e[1] = t})

(* AAccess::overlaps() *)
Overlaps(a, b) == a.loc = b.loc /\ a.bytes \cap b.bytes # {}
SameAccess(a, b) == a.loc = b.loc /\ a.bytes = b.bytes

(* The part of access a that is given by bytes. *)
Part(a, bytes) == [loc |-> a.loc, bytes |-> bytes]

Stamp(g, e) == IF e = InitPos THEN 0 ELSE g.ev[e].stamp

(* The elements of a finite set S in the order of the relation R. *)
Nth(S, R, n) == CHOOSE x \in S : Cardinality({y \in S : <<y, x>> \in R}) = n - 1
Sorted(S, R) == [n \in 1..Cardinality(S) |-> Nth(S, R, n)]

(* The elements of sequence s at the indices in I. *)
Picked(s, I) ==
    LET ks == Sorted(I, {p \in I \X I : p[1] < p[2]})
    IN  [n \in DOMAIN ks |-> s[ks[n]]]

RfStores(g, r) == {g.ev[r].rf[k][1] : k \in DOMAIN g.ev[r].rf}
Readers(g, w) == {r \in Reads(g) : w \in RfStores(g, r)}

-----------------------------------------------------------------------------
(* Coherence. *)

(* co_begin(a) .. co_end(a) *)
Co(g, a) ==
    LET s == g.co[a.loc]
    IN  Picked(s, {k \in DOMAIN s : Overlaps(g.ev[s[k]], a)})

(* co_succ_begin(w, a) .., where w is the initializer or overlaps a *)
CoSucc(g, w, a) ==
    LET s == Co(g, a)
    IN  IF w = InitPos THEN s
        ELSE SubSeq(s, SelectInSeq(s, LAMBDA e : e = w) + 1, Len(s))

(* isCoMaximal(a, e) *)
IsCoMaximal(g, a, e) ==
    LET s == Co(g, a)
    IN  IF e = InitPos THEN s = <<>> ELSE s # <<>> /\ Last(s) = e

(* addStoreToCO(w, it) with it in front of succ, or at the end *)
AddStoreToCO(g, w, succs) ==
    LET s == g.co[g.ev[w].loc]
        k == SelectInSeq(s, LAMBDA e : succs # <<>> /\ e = Head(succs))
    IN  [g EXCEPT !.co[g.ev[w].loc] =
            IF k = 0 THEN Append(s, w) ELSE InsertAt(s, k, w)]

RemoveStoreFromCO(g, w) ==
    [g EXCEPT !.co[g.ev[w].loc] = Picked(@, {k \in DOMAIN @ : @[k] # w})]

-----------------------------------------------------------------------------
(* Read-modify-writes. *)

IsRMWStore(lab) == lab.op = "W" /\ lab.rmw # "none"

IsRMWLoad(g, r) ==
    /\ g.ev[r].op = "R" /\ g.ev[r].rmw # "none"
    /\ Succ(r) \in Pos(g) /\ IsRMWStore(g.ev[Succ(r)])

(* The value of a read, byte by byte; memory is initially 0. *)
ReadValue(g, r) ==
    [b \in g.ev[r].bytes |->
        LET k == SelectInSeq(g.ev[r].rf, LAMBDA p : b \in p[2])
            w == g.ev[r].rf[k][1]
        IN  IF w = InitPos THEN 0 ELSE g.ev[w].val]

(* A read of an RMW instruction that is followed by its store. *)
Succeeds(g, r) ==
    \/ g.ev[r].rmw = "XCHG"
    \/ g.ev[r].rmw = "CAS" /\ \A b \in g.ev[r].bytes : ReadValue(g, r)[b] = g.ev[r].exp

(* getPendingRMW(): the RMWs that read what store s's own load reads. *)
PendingRMWs(g, s) ==
    IF ~IsRMWStore(g.ev[s]) THEN {}
    ELSE {r \in Reads(g) \ {Prev(s)} :
            /\ IsRMWLoad(g, r)
            /\ g.ev[r].loc = g.ev[s].loc
            /\ \E k \in DOMAIN g.ev[r].rf, m \in DOMAIN g.ev[Prev(s)].rf :
                 /\ g.ev[r].rf[k][1] = g.ev[Prev(s)].rf[m][1]
                 /\ g.ev[r].rf[k][2] \cap g.ev[Prev(s)].rf[m][2] # {}}

ViolatesAtomicity(g, s) == PendingRMWs(g, s) # {}

-----------------------------------------------------------------------------
(* Changes to the graph. *)

(* addLabelToGraph() *)
AddLabel(g, e, lab) ==
    [g EXCEPT !.ev = [f \in Pos(g) \cup {e} |->
                        IF f = e THEN [lab EXCEPT !.stamp = g.stamp] ELSE g.ev[f]],
              !.stamp = @ + 1]

ChangeRf(g, r, rfs) == [g EXCEPT !.ev[r].rf = rfs]

(* getViewFromStamp(): labels are stamped in program order. *)
ViewFromStamp(g, s) == {e \in Pos(g) : g.ev[e].stamp <= s}

(* What cutToStamp() and copyGraphUpTo() leave of a graph: the labels in   *)
(* the view, without the rfs and the coherence of the other ones.          *)
RestrictTo(g, view) ==
    [g EXCEPT
        !.ev = [e \in Pos(g) \cap view |->
                  [g.ev[e] EXCEPT !.rf =
                     Picked(@, {k \in DOMAIN @ : @[k][1] \in view \cup {InitPos}})]],
        !.co = [x \in Word |-> Picked(@[x], {k \in DOMAIN @[x] : @[x][k] \in view})]]

(* Fault: the labels keep their stamps. *)
FaultCompressStampsAfter(g, s) == [g EXCEPT !.stamp = Cardinality(Pos(g)) + 1]

(* compressStampsAfter(): new stamps in the order of labels(), that is     *)
(* thread after thread, and not in the order of the old stamps.            *)
CompressStampsAfter(g, s) ==
    LET later == {e \in Pos(g) : g.ev[e].stamp > s}
    IN  [g EXCEPT
            !.ev = [e \in Pos(g) |->
                      IF e \in later
                      THEN [g.ev[e] EXCEPT !.stamp =
                              s + Cardinality({f \in later : f = e \/ L2R(f, e)})]
                      ELSE g.ev[e]],
            !.stamp = s + 1 + Cardinality(later)]

(* repairDanglingReads(): a read at the end of its thread that lost all of *)
(* its rfs reads from the co-latest overlapping store.                     *)
RepairDanglingReads(g) ==
    LET dangling == {r \in Reads(g) : g.ev[r].rf = <<>> /\ Succ(r) \notin Pos(g)}
        latest(r) == LET s == Co(g, g.ev[r])
                     IN  IF s = <<>> THEN InitPos ELSE Last(s)
    IN  [g EXCEPT !.ev =
           [e \in Pos(g) |->
              IF e \in dangling
              THEN [g.ev[e] EXCEPT !.rf = <<<<latest(e), g.ev[e].bytes>>>>, !.max = TRUE]
              ELSE g.ev[e]]]
=============================================================================
