---------------------------- MODULE Exploration ----------------------------
(***************************************************************************)
(* The exploration of one driver: GenMCDriver::explore(), the handlers of  *)
(* loads and stores, and forward and backward revisits, as RustMC runs     *)
(* them: with --mixer, under the release-acquire model, threads scheduled  *)
(* from left to right.                                                     *)
(***************************************************************************)
EXTENDS RADriver

CONSTANTS
    Program,        \* the programs to explore
    Pooled          \* the programs that are explored with a thread pool

VARIABLES
    prog,       \* the program under verification
    stack,      \* execStack: graphs and their work queues
    phase,      \* "run", "revisit" or "done"
    moot,       \* isMoot()
    tasks,      \* the pool's queue: graphs handed over and not explored yet
    explored,   \* history: the executions that were counted
    count       \* result.explored

vars == <<prog, stack, phase, moot, tasks, explored, count>>

Thread == 1..NumThreads

(* What an access of a program is made of; guard holds at most one value.  *)
Instruction ==
    [op : {"R", "W", "XCHG", "CAS"}, loc : Word, bytes : (SUBSET Byte) \ {{}},
     val : Int, exp : Int, sync : BOOLEAN, guard : SUBSET Int]

ASSUME ProgramAssumption == \A p \in Program : p \in [Thread -> Seq(Instruction)]

(* The graph and the work queue of the execution on top of the stack. *)
G == Last(stack).graph
Queue == Last(stack).queue

SetTop(g, q) == [stack EXCEPT ![Len(stack)] = [graph |-> g, queue |-> q]]

-----------------------------------------------------------------------------
(* The interpreter: what a thread does next. *)

InstrLabel(i, k) ==
    [op |-> IF i.op = "W" THEN "W" ELSE "R",
     rmw |-> IF i.op \in {"XCHG", "CAS"} THEN i.op ELSE "none",
     loc |-> i.loc, bytes |-> i.bytes, val |-> i.val, exp |-> i.exp,
     sync |-> i.sync, pc |-> k, stamp |-> 0, rf |-> <<>>, max |-> TRUE,
     rev |-> TRUE, pre |-> {}]

RMWStoreLabel(lab) == [lab EXCEPT !.op = "W", !.rf = <<>>, !.max = TRUE, !.rev = TRUE]

(* A guarded instruction runs if the thread has last read its guard. *)
GuardHolds(g, t, i) ==
    \A v \in i.guard :
        LET r == Max({k \in 1..Size(g, t) : g.ev[<<t, k>>].op = "R"})
        IN  \A b \in g.ev[<<t, r>>].bytes : ReadValue(g, <<t, r>>)[b] = v

(* The label that thread t adds next: none if it has finished. *)
NextLabels(g, t) ==
    LET n == Size(g, t)
        last == g.ev[<<t, n>>]
        pc == IF n = 0 THEN 0 ELSE last.pc
    IN  IF n > 0 /\ last.op = "R" /\ Succeeds(g, <<t, n>>)
        THEN {RMWStoreLabel(last)}
        ELSE {InstrLabel(prog[t][k], k) :
                k \in {m \in {pc + 1} : m <= Len(prog[t]) /\ GuardHolds(g, t, prog[t][m])}}

(* Fault: the threads take turns. *)
FaultScheduled(g, t) ==
    /\ NextLabels(g, t) # {}
    /\ \A u \in Thread \ {t} :
         \/ NextLabels(g, u) = {}
         \/ Size(g, t) < Size(g, u)
         \/ Size(g, t) = Size(g, u) /\ t < u

(* scheduleNextLTR(); a thread never gets enabled by another one, so that  *)
(* this is also where scheduleAtomicity() leads.                           *)
Scheduled(g, t) ==
    /\ NextLabels(g, t) # {}
    /\ \A u \in 1..(t - 1) : NextLabels(g, u) = {}

-----------------------------------------------------------------------------
(* The reads-from choices of a read. *)

(* enumerateRfOptions(): a choice is the set of stores that are used, each *)
(* for the bytes that no store used after it provides.  Choices in which   *)
(* a byte's store is older than one the read has seen are left out.  The   *)
(* coherence-maximal choice comes last.                                    *)
RfOptions(g, r, stores, mustUse) ==
    LET a == g.ev[r]
        bytes(k) == IF stores[k] = InitPos THEN a.bytes
                    ELSE g.ev[stores[k]].bytes \cap a.bytes
        used(U, k) == bytes(k) \ UNION {bytes(j) : j \in {j \in U : j > k}}
        seen(U, k) ==
            LET p == Part(a, used(U, k))
            IN  \E w \in Range(CoSucc(g, stores[k], p)) : IsWriteRfBefore(g, w, r, p)
        options == {U \in SUBSET (DOMAIN stores) :
                      /\ UNION {bytes(k) : k \in U} = a.bytes
                      /\ \A k \in U : used(U, k) # {} /\ ~seen(U, k)
                      /\ mustUse \subseteq {stores[k] : k \in U}}
        older == {p \in options \X options :
                    /\ p[1] # p[2]
                    /\ Max((p[1] \cup p[2]) \ (p[1] \cap p[2])) \in p[2]}
        rfs(U) == LET ks == Sorted(U, {p \in U \X U : p[1] > p[2]})
                  IN  [n \in DOMAIN ks |-> <<stores[ks[n]], used(U, ks[n])>>]
        ordered == Sorted(options, older)
    IN  [n \in DOMAIN ordered |-> rfs(ordered[n])]

-----------------------------------------------------------------------------
(* Backward revisits. *)

(* getRevisitableApproximation(): the reads that store s may revisit *)
Revisitable(g, s) ==
    LET pending == PendingRMWs(g, s)
    IN  {r \in Reads(g) \ PrefixView(g, s) :
            /\ Overlaps(g.ev[r], g.ev[s])
            /\ g.ev[r].rev /\ g.ev[r].max
            /\ \A p \in pending : g.ev[r].stamp <= g.ev[p].stamp}

(* enumerateKeepCandidates(): the later stores to the read's bytes that do *)
(* not depend on s and are to the left of it ...                           *)
KeepCandidates(g, r, s) ==
    LET preds == ViewFromStamp(g, g.ev[r].stamp) \cup PrefixView(g, s)
    IN  {w \in Range(Co(g, g.ev[r])) \ preds : L2R(w, s)}

(* Fault: nothing is kept, as for accesses of one size. *)
FaultKeepSets(g, r, s) == {{}}

(* ... of which any set may be kept, where keeping a store keeps what is   *)
(* po-before it.                                                           *)
KeepSets(g, r, s) ==
    LET co == Co(g, g.ev[r])
        at(w) == SelectInSeq(co, LAMBDA e : e = w)
    IN  IF \A w \in Range(co) : SameAccess(g.ev[w], g.ev[r]) THEN {{}}
        ELSE {K \in SUBSET KeepCandidates(g, r, s) :
                ~\E v, w \in K : at(v) < at(w) /\ v[1] = w[1] /\ v[2] < w[2]}

(* getRevisitView(): what a backward revisit leaves of the graph *)
RevisitView(g, r, s, keep) ==
    ViewFromStamp(g, g.ev[r].stamp) \cup UNION {PrefixView(g, w) : w \in keep \cup {s}}

(* isCoBeforeSavedPrefix() for a store or a part of a read *)
CoBeforeSaved(g, w, a, s, view) ==
    \E v \in Range(CoSucc(g, w, a)) : v \in view /\ v # s

(* Fault: a deleted label need not have been added maximally. *)
FaultIsMaximalExtension(g, r, s, rfs, view) ==
    /\ \/ IsRMWStore(g.ev[s])
       \/ CoSucc(g, s, g.ev[s]) = <<>>
       \/ Head(CoSucc(g, s, g.ev[s])) \in view
    /\ \A k \in DOMAIN rfs : rfs[k][1] \in view \cup {InitPos}
    /\ \A e \in (Pos(g) \ view) \cup {r} :
         LET lab == g.ev[e]
             ws == IF lab.op = "W" THEN {<<e, lab.bytes>>} ELSE Range(lab.rf)
         IN  /\ \A p \in ws : ~CoBeforeSaved(g, p[1], Part(lab, p[2]), s, view)
             /\ lab.op = "R" =>
                  \A w \in RfStores(g, e) \ (view \cup {InitPos}) :
                     Stamp(g, w) <= lab.stamp

(* isMaximalExtension(): everything a revisit deletes would be added back  *)
(* the same way, so that only one graph leads to the result.               *)
IsMaximalExtension(g, r, s, rfs, view) ==
    /\ \/ IsRMWStore(g.ev[s])
       \/ CoSucc(g, s, g.ev[s]) = <<>>
       \/ Head(CoSucc(g, s, g.ev[s])) \in view
    /\ \A k \in DOMAIN rfs : rfs[k][1] \in view \cup {InitPos}
    /\ \A e \in (Pos(g) \ view) \cup {r} :
         LET lab == g.ev[e]
             ws == IF lab.op = "W" THEN {<<e, lab.bytes>>} ELSE Range(lab.rf)
         IN  /\ lab.max
             /\ \A p \in ws : ~CoBeforeSaved(g, p[1], Part(lab, p[2]), s, view)
             /\ lab.op = "R" =>
                  \A w \in RfStores(g, e) \ (view \cup {InitPos}) :
                     Stamp(g, w) <= lab.stamp

(* constructBackwardRevisit(): the work items for the revisits of read r   *)
(* by store s that keep a given set of stores.                             *)
BackItems(g, s, r, keep) ==
    LET view == RevisitView(g, r, s, keep)
        opts == Range(RfOptions(g, r, CoherentStores(g, g.ev[r]), keep \cup {s}))
    IN  {[kind |-> "back", stamp |-> g.ev[s].stamp, pos |-> r, rev |-> s,
          rfs |-> rfs, view |-> view] :
            rfs \in {o \in opts : IsMaximalExtension(g, r, s, o, view)}}

(* calcRevisits(): the work items that store s gives rise to *)
BackwardItems(g, s) ==
    UNION {UNION {BackItems(g, s, r, keep) : keep \in KeepSets(g, r, s)} :
             r \in {l \in Revisitable(g, s) : L2R(l, s)}}

CalcRevisits(q, g, s) == q \o SetToSeq(BackwardItems(g, s))

-----------------------------------------------------------------------------
(* The places of a store in coherence order. *)

ReorderOK(g, old, new) ==
    \A i, j \in DOMAIN new : i < j /\ Overlaps(g.ev[new[i]], g.ev[new[j]]) =>
        SelectInSeq(old, LAMBDA e : e = new[i]) < SelectInSeq(old, LAMBDA e : e = new[j])

Arrangements(s) == {p \in [DOMAIN s -> Range(s)] : Range(p) = Range(s)}

(* The order a list of stores gives to the stores that overlap. *)
CoPairs(g, seq) ==
    {<<seq[p[1]], seq[p[2]]>> : p \in
        {p \in (DOMAIN seq) \X (DOMAIN seq) :
            p[1] < p[2] /\ Overlaps(g.ev[seq[p[1]]], g.ev[seq[p[2]]])}}

(* With mixed sizes, every order of the word's stores is tried in which s  *)
(* comes before some store it overlaps, one list per order.                *)
MixedPlacings(g, s) ==
    LET old == g.co[g.ev[s].loc]
        overlapping(p) == {k \in DOMAIN p : Overlaps(g.ev[p[k]], g.ev[s])}
        after(p, n) == IF n = 0 THEN 0
                       ELSE CHOOSE k \in overlapping(p) :
                              Cardinality({j \in overlapping(p) : j <= k}) = n
        place(p, n) == InsertAt(p, after(p, n) + 1, s)
        all == UNION {{place(p, n) : n \in 0..(Cardinality(overlapping(p)) - 1)} :
                        p \in {p \in Arrangements(old) : ReorderOK(g, old, p)}}
        covered(c, k) == UNION {g.ev[c[j]].bytes :
                            j \in {j \in 1..(k - 1) : SelectInSeq(c, LAMBDA e : e = s) < j}}
        allowed(c) ==
            \A k \in (SelectInSeq(c, LAMBDA e : e = s) + 1)..Len(c) :
                /\ IsRMWStore(g.ev[c[k]]) =>
                     (g.ev[c[k]].bytes \cap g.ev[s].bytes) \ covered(c, k) = {}
                /\ Overlaps(g.ev[c[k]], g.ev[s]) => ~IsWriteRfBefore(g, c[k], s, g.ev[s])
        ok == {c \in all : allowed(c)}
    IN  {CHOOSE c \in ok : CoPairs(g, c) = o : o \in {CoPairs(g, c) : c \in ok}}

(* calcCoOrderings(): the work items for the other places of store s, which *)
(* is not in coherence order yet.                                          *)
PlacingItems(g, s) ==
    LET places == IF IsRMWStore(g.ev[s]) THEN <<>> ELSE CoherentPlacings(g, s)
    IN  IF \A w \in Range(places) : SameAccess(g.ev[w], g.ev[s])
        THEN {[kind |-> "mo", stamp |-> g.ev[s].stamp, pos |-> s, succ |-> w] :
                w \in {w \in Range(places) :
                         /\ ~IsRMWStore(g.ev[w])
                         /\ ~IsWriteRfBefore(g, w, s, g.ev[s])}}
        ELSE {[kind |-> "moSeq", stamp |-> g.ev[s].stamp, pos |-> s, seq |-> c] :
                c \in MixedPlacings(g, s)}

-----------------------------------------------------------------------------
(* Handlers. *)

HandleLoad(t) ==
    /\ phase = "run" /\ ~moot
    /\ Scheduled(G, t)
    /\ \E lab \in NextLabels(G, t) :
         LET r == <<t, Size(G, t) + 1>>
             g == AddLabelToGraph(G, r, lab)
             opts == RfOptions(g, r, CoherentStores(g, lab), {})
             others == [n \in 1..(Len(opts) - 1) |->
                          [kind |-> "read", stamp |-> g.ev[r].stamp, pos |-> r,
                           rfs |-> opts[n]]]
         IN  /\ lab.op = "R"
             /\ stack' = SetTop(ChangeRf(g, r, Last(opts)), Queue \o others)
    /\ UNCHANGED <<prog, phase, moot, tasks, explored, count>>

HandleStore(t) ==
    /\ phase = "run" /\ ~moot
    /\ Scheduled(G, t)
    /\ \E lab \in NextLabels(G, t) :
         LET w == <<t, Size(G, t) + 1>>
             g == AddLabelToGraph(G, w, lab)
             h == AddStoreToCO(g, w, IF IsRMWStore(lab) THEN RMWSuccessors(g, w) ELSE <<>>)
         IN  /\ lab.op = "W"
             /\ stack' = SetTop(h, CalcRevisits(Queue \o SetToSeq(PlacingItems(g, w)), h, w))
             /\ moot' = ViolatesAtomicity(h, w)
    /\ UNCHANGED <<prog, phase, tasks, explored, count>>

(* What distinguishes one execution from another. *)
Canonical(g) ==
    [ev |-> [e \in Pos(g) |-> [op |-> g.ev[e].op, loc |-> g.ev[e].loc,
                               bytes |-> g.ev[e].bytes, val |-> IF g.ev[e].op = "R" THEN 0 ELSE g.ev[e].val]],
     rf |-> UNION {UNION {{<<r, b, p[1]>> : b \in p[2]} : p \in Range(g.ev[r].rf)} :
                     r \in Reads(g)},
     co |-> UNION {CoPairs(g, g.co[x]) : x \in Word}]

(* handleExecutionEnd() *)
EndExecution ==
    /\ phase = "run"
    /\ moot \/ \A t \in Thread : NextLabels(G, t) = {}
    /\ IF moot THEN UNCHANGED <<explored, count>>
               ELSE /\ explored' = explored \cup {Canonical(G)}
                    /\ count' = count + 1
    /\ phase' = "revisit"
    /\ moot' = FALSE
    /\ UNCHANGED <<prog, stack, tasks>>

-----------------------------------------------------------------------------
(* explore() between two runs of the program. *)

(* Fault: items are taken in the order in which they were added. *)
FaultNextIndex == 1

(* getNextItem(): the latest item of the highest stamp *)
NextIndex ==
    CHOOSE k \in DOMAIN Queue :
        \A j \in DOMAIN Queue :
            \/ Queue[j].stamp < Queue[k].stamp
            \/ Queue[j].stamp = Queue[k].stamp /\ j <= k
Item == Queue[NextIndex]
RestOfQueue == RemoveAt(Queue, NextIndex)

(* Execution::restrict() *)
Restricted(g, s) ==
    RepairDanglingReads(CompressStampsAfter(RestrictTo(g, ViewFromStamp(g, s)), s))

(* completeRevisitedRMW(): the store goes behind the stores that its load  *)
(* reads from, and in front of the stores that are co-after one of these.  *)
CompleteRMW(g, r) ==
    LET w == Succ(r)
        h == AddLabelToGraph(g, w, RMWStoreLabel(g.ev[r]))
        co == g.co[g.ev[r].loc]
        from(s) == UNION {p[2] : p \in {q \in Range(g.ev[r].rf) : q[1] = s}}
        seen[k \in 0..Len(co)] ==
            IF k = 0 THEN from(InitPos)
            ELSE IF g.ev[co[k]].bytes \cap seen[k - 1] # {} THEN seen[k - 1]
            ELSE seen[k - 1] \cup from(co[k])
        after == {k \in DOMAIN co : g.ev[co[k]].bytes \cap seen[k - 1] # {}}
    IN  [h EXCEPT !.co[g.ev[r].loc] =
            Picked(co, (DOMAIN co) \ after) \o <<w>> \o Picked(co, after)]

(* revisitReadMIXER() on graph g with work queue q: the new top of the     *)
(* stack, and whether the execution is worth running.                      *)
RevisitRead(g, q, r, rfs, max) ==
    LET h == [ChangeRf(g, r, rfs) EXCEPT !.ev[r].max = max]
        c == CompleteRMW(h, r)
    IN  IF Succeeds(h, r)
        THEN [graph |-> c, queue |-> CalcRevisits(q, c, Succ(r)),
              ok |-> ~ViolatesAtomicity(c, Succ(r))]
        ELSE [graph |-> h, queue |-> q, ok |-> TRUE]

Continue(ok) == phase' = IF ok THEN "run" ELSE "revisit"

ForwardRevisitRead ==
    /\ phase = "revisit" /\ Queue # <<>> /\ Item.kind = "read"
    /\ LET top == RevisitRead(Restricted(G, Item.stamp), RestOfQueue,
                              Item.pos, Item.rfs, FALSE)
       IN  /\ stack' = SetTop(top.graph, top.queue)
           /\ Continue(top.ok)
    /\ UNCHANGED <<prog, moot, tasks, explored, count>>

(* revisitWrite() *)
ForwardRevisitWrite ==
    /\ phase = "revisit" /\ Queue # <<>> /\ Item.kind \in {"mo", "moSeq"}
    /\ LET w == Item.pos
           g == RemoveStoreFromCO(Restricted(G, Item.stamp), w)
           h == IF Item.kind = "mo" THEN AddStoreToCO(g, w, <<Item.succ>>)
                ELSE [g EXCEPT !.co[g.ev[w].loc] = Item.seq]
           c == [h EXCEPT !.ev[w].max = FALSE]
       IN  /\ stack' = SetTop(c, CalcRevisits(RestOfQueue, c, w))
           /\ Continue(~ViolatesAtomicity(c, w))
    /\ UNCHANGED <<prog, moot, tasks, explored, count>>

(* copyGraph() and the revisit of the copy: item i applied to what graph g *)
(* keeps.  The prefix of the revisiting store is revisited no more.        *)
RevisitedCopy(g, i) ==
    LET r == i.pos
        prefix == PrefixView(g, i.rev)
        cut == CompressStampsAfter(RestrictTo(g, i.view), g.ev[r].stamp)
        og == [cut EXCEPT !.ev = [e \in Pos(cut) |->
                 IF e \in prefix THEN [cut.ev[e] EXCEPT !.rev = FALSE] ELSE cut.ev[e]]]
        rep == RepairDanglingReads(og)
        max == \A p \in Range(i.rfs) : IsCoMaximal(rep, Part(rep.ev[r], p[2]), p[1])
    IN  RevisitRead(rep, <<>>, r, i.rfs, max)

(* backwardRevisit(): a copy of the graph, without what the revisit        *)
(* deletes, is pushed onto the stack and explored first.  Where the RMW    *)
(* breaks atomicity, this is a run that stops at once.                     *)
BackwardRevisit ==
    /\ phase = "revisit" /\ Queue # <<>> /\ Item.kind = "back"
    /\ LET g == Restricted(G, Item.stamp)
           top == RevisitedCopy(g, Item)
       IN  /\ stack' = Append(SetTop(g, RestOfQueue),
                              [graph |-> top.graph, queue |-> top.queue])
           /\ moot' = ~top.ok
    /\ phase' = "run"
    /\ UNCHANGED <<prog, tasks, explored, count>>

(* backwardRevisit() when the pool has room: extractState() hands the      *)
(* graph over, without the moot flag and without the copy's work items,    *)
(* which this driver keeps on its own stack.                               *)
SubmitRevisit ==
    /\ phase = "revisit" /\ Queue # <<>> /\ Item.kind = "back"
    /\ prog \in Pooled
    /\ LET g == Restricted(G, Item.stamp)
           top == RevisitedCopy(g, Item)
       IN  /\ stack' = Append(SetTop(g, RestOfQueue),
                              [graph |-> top.graph, queue |-> top.queue])
           /\ tasks' = Append(tasks, top.graph)
    /\ UNCHANGED <<prog, phase, moot, explored, count>>

PopExecution ==
    /\ phase = "revisit" /\ Queue = <<>>
    /\ Len(stack) > 1
    /\ stack' = Front(stack)
    /\ UNCHANGED <<prog, phase, moot, tasks, explored, count>>

(* The stack is empty: a driver of the pool gets the next task             *)
(* (initFromState).  Drivers share nothing but the queue, so that one that *)
(* takes the tasks in turn stands for them all.                            *)
InitFromState ==
    /\ phase = "revisit" /\ Queue = <<>> /\ Len(stack) = 1
    /\ tasks # <<>>
    /\ stack' = <<[graph |-> Last(tasks), queue |-> <<>>]>>
    /\ tasks' = Front(tasks)
    /\ phase' = "run"
    /\ UNCHANGED <<prog, moot, explored, count>>

(* No work is left: explore() returns. *)
EndExploration ==
    /\ phase = "revisit" /\ Queue = <<>> /\ Len(stack) = 1
    /\ tasks = <<>>
    /\ phase' = "done"
    /\ UNCHANGED <<prog, stack, moot, tasks, explored, count>>

Finished == phase = "done" /\ UNCHANGED vars

Init ==
    /\ prog \in Program
    /\ stack = <<[graph |-> EmptyGraph, queue |-> <<>>]>>
    /\ phase = "run"
    /\ moot = FALSE
    /\ tasks = <<>>
    /\ explored = {}
    /\ count = 0

Next ==
    \/ \E t \in Thread : HandleLoad(t) \/ HandleStore(t)
    \/ EndExecution
    \/ ForwardRevisitRead \/ ForwardRevisitWrite \/ BackwardRevisit
    \/ SubmitRevisit \/ PopExecution \/ InitFromState \/ EndExploration
    \/ Finished

Spec == Init /\ [][Next]_vars
=============================================================================
