---------------------------- MODULE MemorySafety ----------------------------
(***************************************************************************)
(* Allocation, reclamation and races: what the driver checks when a label  *)
(* joins the graph (GenMCDriver.cpp, RADriver.cpp), on the views and links *)
(* that the graph keeps across revisits (ExecutionGraph.cpp).              *)
(*                                                                         *)
(* A program gives every thread a sequence of operations, one per label;   *)
(* thread 1 is the main thread.  A pointer is the object it points to: an  *)
(* allocation has its own object, as getFreshAddr() never hands an address *)
(* out twice.  An operation with "exit" ends its thread if it reads the    *)
(* initial value.  Which of the stores at its address a read takes is left *)
(* open up to coherence (ExplorationCorrectness is about that choice); the *)
(* schedule is left open, too.                                             *)
(***************************************************************************)
EXTENDS GraphIterators

CONSTANTS
    Programs,       \* the programs under test
    Static,         \* the objects that are global variables
    MaxRevisits     \* how many revisits an exploration makes

VARIABLES
    prog,       \* the program
    g,          \* the execution graph
    err,        \* the error that was reported, or "none"
    warned,     \* result.warnings: whether a write-write race was reported
    revisits    \* revisits left

vars == <<prog, g, err, warned, revisits>>

Threads == DOMAIN prog
IsDynamic(lab) == lab.obj \notin Static

\* A label of a kind, with the fields of a fresh one.
NewLabel(kind, ord, obj, off, len) ==
    [kind |-> kind, ord |-> ord, obj |-> obj, off |-> off, len |-> len,
     rf |-> Null, readers |-> {}, alloc |-> Null, accesses |-> {}, free |-> Null,
     child |-> 0, parentCreate |-> Null, parentJoin |-> Null, hp |-> None,
     hb |-> {}, porf |-> {}, stamp |-> 0]

NextStamp(gr) == Cardinality(Labels(gr))

-----------------------------------------------------------------------------
(* Views: calculate0() is happens-before, calculate1() is (po U rf)-before. *)
(* The view of a label leaves out what the label itself synchronises with, *)
(* which its successor adds: it outlives a change of the label's rf.       *)

IsRMWStore(gr, w) == Is(gr, w, "FaiWriteLabel") \/ Is(gr, w, "CasWriteLabel")
IsRMWLoad(gr, r) ==
    /\ Is(gr, r, "FaiReadLabel") \/ Is(gr, r, "CasReadLabel")
    /\ po_imm_succ(gr, r) # Null /\ IsRMWStore(gr, po_imm_succ(gr, r))

\* visitCalc0_2
Upto(gr, e) == Lab(gr, e).hb \cup {e}

\* visitCalc0_3: creating and finishing a thread are release fences.
ReleaseFencesBefore(gr, e) ==
    {f \in po_preds(gr, e) :
        /\ IsAtLeastRelease(Lab(gr, f).ord)
        /\ \E c \in {"FenceLabel", "ThreadCreateLabel", "ThreadFinishLabel"} : Is(gr, f, c)}

\* visitCalc0_4 and visitCalc0_5: what read e synchronises with, through the
\* RMWs that the store it reads from belongs to.
SynchronisesWith(gr, e) ==
    LET sync[r \in Labels(gr)] ==
          LET w == rf_pred(gr, r)
          IN IF w = Null THEN {}
             ELSE (IF IsAtLeastRelease(Lab(gr, w).ord) THEN Upto(gr, w) ELSE {})
                  \cup UNION {Upto(gr, f) : f \in ReleaseFencesBefore(gr, w)}
                  \cup (IF IsRMWStore(gr, w) /\ IsRMWLoad(gr, po_imm_pred(gr, w))
                        THEN sync[po_imm_pred(gr, w)] ELSE {})
    IN sync[e]

\* visitCalc0_6: joining and starting are acquire fences.
IsAcquireFence(gr, e) ==
    /\ IsAtLeastAcquire(Lab(gr, e).ord)
    /\ \E c \in {"FenceLabel", "ThreadJoinLabel", "ThreadStartLabel"} : Is(gr, e, c)

\* tc_pred and tj_pred
ThreadPreds(gr, e) == {tc_pred(gr, e), tj_pred(gr, e)} \ {Null}

Calculate0(gr, e) ==
    LET p == po_imm_pred(gr, e)
    IN IF p = Null THEN {}
       ELSE Upto(gr, p) \cup UNION {Upto(gr, f) : f \in ThreadPreds(gr, p)}
            \cup (IF IsAtLeastAcquire(Lab(gr, p).ord) THEN SynchronisesWith(gr, p) ELSE {})
            \cup (IF IsAcquireFence(gr, e)
                  THEN UNION {SynchronisesWith(gr, r) : r \in po_preds(gr, e)} ELSE {})

Calculate1(gr, e) ==
    LET p == po_imm_pred(gr, e)
        reached == {p} \cup ThreadPreds(gr, p) \cup ({rf_pred(gr, p)} \ {Null})
    IN IF p = Null THEN {} ELSE UNION {Lab(gr, f).porf \cup {f} : f \in reached}

\* findAllocatingLabel
AllocatingLabel(gr, loc) ==
    LET S == {m \in Labels(gr) : Is(gr, m, "MallocLabel") /\ Contains(Lab(gr, m), loc)}
    IN IF S = {} THEN Null ELSE FirstOf(S)

AddAlloc(gr, m, e) ==
    IF m = Null THEN gr
    ELSE [gr EXCEPT ![e[1]][e[2]].alloc = m, ![m[1]][m[2]].accesses = @ \cup {e}]

\* addLabelToGraph: the label at the end of thread t.
AddLabel(gr, t, lab) ==
    LET e == <<t, Len(gr[t]) + 1>>
        added == [gr EXCEPT ![t] = Append(@, [lab EXCEPT !.stamp = NextStamp(gr)])]
        viewed == [added EXCEPT ![t][e[2]].hb = Calculate0(added, e),
                                ![t][e[2]].porf = Calculate1(added, e)]
    IN IF Is(viewed, e, "MemAccessLabel")
       THEN AddAlloc(viewed, AllocatingLabel(viewed, Location(lab)), e)
       ELSE viewed

-----------------------------------------------------------------------------
(* The checks.                                                             *)

\* The nearest protection of the allocation before e, unless its hazard
\* pointer is set to something else in between.
IsHazptrProtected(gr, e) ==
    \E p \in po_preds(gr, e) :
        /\ Is(gr, p, "HpProtectLabel")
        /\ Contains(Lab(gr, Lab(gr, e).alloc), Location(Lab(gr, p)))
        /\ \A o \in po_preds(gr, e) :
             o[2] > p[2] /\ Is(gr, o, "HpProtectLabel") =>
                /\ Lab(gr, o).hp # Lab(gr, p).hp
                /\ ~Contains(Lab(gr, Lab(gr, e).alloc), Location(Lab(gr, o)))

IsFree(gr, e) == Is(gr, e, "FreeLabel") /\ ~Is(gr, e, "HpRetireLabel")
IsRetire(gr, e) == Is(gr, e, "HpRetireLabel")
Unprotected(gr, e) == IsDynamic(Lab(gr, e)) /\ ~IsHazptrProtected(gr, e)

\* checkRace0 .. checkRace7 hold if there is no such error.
CheckRace0(gr, e) == alloc_pred(gr, e) \in Lab(gr, e).hb \cup {Null}

CheckRace1(gr, e) ==
    Is(gr, e, "FreeLabel") => \A f \in samelocs(gr, e) : ~Is(gr, f, "FreeLabel")

CheckRace2(gr, e) ==
    IsFree(gr, e) /\ free_pred(gr, e) # Null =>
        alloc_succs(gr, free_pred(gr, e)) \cup {free_pred(gr, e)} \subseteq Lab(gr, e).hb

FreeOf(gr, e) ==
    IF alloc_pred(gr, e) = Null THEN Null ELSE free_succ(gr, alloc_pred(gr, e))

CheckRace3(gr, e) == FreeOf(gr, e) # Null => ~IsFree(gr, FreeOf(gr, e))

CheckRace4(gr, e) ==
    IsRetire(gr, e) /\ free_pred(gr, e) # Null =>
        \A a \in alloc_succs(gr, free_pred(gr, e)) :
            Unprotected(gr, a) => a \in Lab(gr, e).hb

CheckRace5(gr, e) ==
    /\ Is(gr, e, "MemAccessLabel") /\ IsDynamic(Lab(gr, e))
    /\ FreeOf(gr, e) # Null /\ ~IsHazptrProtected(gr, e)
    => ~IsRetire(gr, FreeOf(gr, e))

NotAtomic(gr, e) == Lab(gr, e).ord = "na"

\* Two accesses of which one is a store and one is not atomic.
Conflict(gr, e, f) ==
    /\ Is(gr, e, "MemAccessLabel") /\ Is(gr, f, "MemAccessLabel")
    /\ Is(gr, e, "WriteLabel") \/ Is(gr, f, "WriteLabel")
    /\ NotAtomic(gr, e) \/ NotAtomic(gr, f)

\* Seeded fault: an atomic load is not checked against non-atomic stores.
FaultCheckRace6(gr, e) ==
    \A f \in samelocs(gr, e) :
        Conflict(gr, e, f) /\ (NotAtomic(gr, e) \/ Is(gr, e, "WriteLabel"))
            => f \in Lab(gr, e).hb

CheckRace6(gr, e) ==
    \A f \in samelocs(gr, e) : Conflict(gr, e, f) => f \in Lab(gr, e).hb

CheckRace7(gr, e) ==
    Is(gr, e, "WriteLabel") =>
        \A f \in samelocs(gr, e) : Is(gr, f, "WriteLabel") => f \in Lab(gr, e).porf

\* The first of a sequence of checks that fails.
FirstError(checks) ==
    LET failed == {i \in DOMAIN checks : checks[i] # "none"}
    IN IF failed = {} THEN "none"
       ELSE checks[CHOOSE i \in failed : \A j \in failed : i <= j]

\* checkErrors: the first that fails.
Check(ok, error) == IF ok THEN "none" ELSE error
CheckErrors(gr, e) ==
    FirstError(<<Check(CheckRace0(gr, e), "AccessNonMalloc"),
                 Check(CheckRace1(gr, e), "DoubleFree"),
                 Check(CheckRace2(gr, e), "AccessFreed"),
                 Check(CheckRace3(gr, e), "AccessFreed"),
                 Check(CheckRace4(gr, e), "AccessFreed"),
                 Check(CheckRace5(gr, e), "AccessFreed"),
                 Check(CheckRace6(gr, e), "RaceNotAtomic")>>)

\* checkAccessValidity
CheckAccessValidity(gr, e) ==
    IF IsDynamic(Lab(gr, e)) /\ Lab(gr, e).alloc = Null THEN "AccessNonMalloc" ELSE "none"

\* checkInitializedMem, of a plain read.
CheckInitializedMem(gr, r) ==
    IF IsDynamic(Lab(gr, r)) /\ Lab(gr, r).rf = InitPos THEN "UninitializedMem" ELSE "none"

\* checkForRaces: an error ends the exploration, a warning is given once.
CheckForRaces(gr, e, error) ==
    /\ err' = error
    /\ warned' = (warned \/ (error = "none" /\ ~CheckRace7(gr, e)))

\* AAccess::overlaps
Overlap(a, b) ==
    a.obj = b.obj /\ a.off < b.off + b.len /\ b.off < a.off + a.len

\* isWriteRfBefore: store w, or a load that reads from it, happens before e.
IsWriteRfBefore(gr, w, e) ==
    \/ w \in Lab(gr, e).hb
    \/ \E r \in Lab(gr, w).readers :
          r \in Lab(gr, e).hb /\ Overlap(Lab(gr, r), Lab(gr, e))

\* Whether calcCoOrderings finds a store that the new store w can be placed in
\* front of, and warns: the last store in coherence has not happened before w.
\* The coherence order of the stores before w is left open, but for the stores
\* that one of them has seen.  The store of an RMW has only one place.
WarnsOfPlacing(gr, w) ==
    LET stores == {o \in Labels(gr) \ {w} : /\ Is(gr, o, "WriteLabel")
                                            /\ Overlap(Lab(gr, o), Lab(gr, w))}
        mayBeLast == {o \in stores : \A s \in stores \ {o} : ~IsWriteRfBefore(gr, o, s)}
    IN IF IsRMWStore(gr, w) THEN {FALSE}
       ELSE {~IsWriteRfBefore(gr, o, w) : o \in mayBeLast}
            \cup (IF stores = {} THEN {FALSE} ELSE {})

-----------------------------------------------------------------------------
(* Links that a revisit leaves.                                            *)

OnlyIn(view, e) == IF e \in view THEN e ELSE Null

\* Seeded fault: an allocation keeps the free() that is cut off.
FaultKeptLabel(lab, view) ==
    [lab EXCEPT !.rf = OnlyIn(view, @), !.readers = @ \cap view,
                !.alloc = OnlyIn(view, @), !.accesses = @ \cap view,
                !.parentJoin = OnlyIn(view, @)]

\* A label without its pointers to labels that are not in the view.
KeptLabel(lab, view) ==
    [lab EXCEPT !.rf = OnlyIn(view, @), !.readers = @ \cap view,
                !.alloc = OnlyIn(view, @), !.accesses = @ \cap view,
                !.free = OnlyIn(view, @), !.parentJoin = OnlyIn(view, @)]

\* cutToStamp and copyGraphUpTo: the views are prefixes of every thread.
Restricted(gr, view) ==
    [t \in DOMAIN gr |->
        [i \in 1..Cardinality({e \in view : e[1] = t}) |-> KeptLabel(gr[t][i], view)]]

CutToStamp(gr, stamp) == Restricted(gr, {e \in Labels(gr) : Lab(gr, e).stamp <= stamp})

\* copyGraphUpTo and compressStampsAfter: what is older than read r, and what
\* store w depends on.
CopyGraphUpTo(gr, r, w) ==
    LET older == {e \in Labels(gr) : Lab(gr, e).stamp <= Lab(gr, r).stamp}
        kept == Restricted(gr, older \cup Lab(gr, w).porf \cup {w})
        later == Labels(kept) \ older
        rank(e) == Cardinality({f \in later : f = e \/ FirstOf({e, f}) = f})
    IN [t \in DOMAIN kept |-> [i \in DOMAIN kept[t] |->
          IF <<t, i>> \in later
          THEN [kept[t][i] EXCEPT !.stamp = Cardinality(older) - 1 + rank(<<t, i>>)]
          ELSE kept[t][i]]]

\* changeRf: the readers of the old and of the new store.
ChangeRf(gr, r, w) ==
    LET old == Lab(gr, r).rf
        cleared == IF old = Null \/ old = InitPos THEN gr
                   ELSE [gr EXCEPT ![old[1]][old[2]].readers = @ \ {r}]
        set == [cleared EXCEPT ![r[1]][r[2]].rf = w]
    IN IF w = InitPos THEN set
       ELSE [set EXCEPT ![w[1]][w[2]].readers = @ \cup {r}]

\* The stores that coherence and atomicity leave to a read.
RfOptions(gr, r) ==
    LET stores == {w \in Labels(gr) : /\ Is(gr, w, "WriteLabel")
                                      /\ Location(Lab(gr, w)) = Location(Lab(gr, r))}
        overwritten(w) == \E o \in stores \cap Lab(gr, r).hb :
                              w = InitPos \/ w \in Lab(gr, o).hb
        taken(w) == /\ Is(gr, r, "FaiReadLabel")
                    /\ \E o \in Labels(gr) \ {r} :
                         Is(gr, o, "FaiReadLabel") /\ Lab(gr, o).rf = w
                            /\ Location(Lab(gr, o)) = Location(Lab(gr, r))
    IN {w \in stores \cup {InitPos} : ~overwritten(w) /\ ~taken(w)}

-----------------------------------------------------------------------------
(* The program.                                                            *)

\* Whether a read has ended its thread: its operation exits on the initial
\* value, which it has read.
HasExited(t) ==
    \E i \in 2..Len(g[t]) :
        i - 1 <= Len(prog[t]) /\ prog[t][i - 1].exit /\ g[t][i].rf = InitPos

HasNext(t) == g[t] # <<>> /\ Len(g[t]) <= Len(prog[t]) /\ ~HasExited(t)
Operation(t) == prog[t][Len(g[t])]
IsFinished(t) == g[t] # <<>> /\ g[t][Len(g[t])].kind = "ThreadFinish"

\* A thread in the middle of an RMW instruction.
InRMW(t) == HasNext(t) /\ Operation(t).kind = "FaiWrite"

\* The operation that thread t executes now.
Runs(t, kinds) ==
    /\ err = "none"
    /\ HasNext(t) /\ Operation(t).kind \in kinds
    /\ \A u \in Threads : InRMW(u) => u = t

LabelOf(op) == [NewLabel(op.kind, op.ord, op.obj, op.off, op.len) EXCEPT
                   !.hp = op.hp, !.child = op.child]
At(gr, t) == <<t, Len(gr[t])>>

HandleThreadCreate(t) ==
    /\ Runs(t, {"ThreadCreate"})
    /\ LET created == AddLabel(g, t, LabelOf(Operation(t)))
           start == [NewLabel("ThreadStart", "acq", None, 0, 0) EXCEPT
                        !.parentCreate = At(created, t)]
       IN g' = AddLabel(created, Operation(t).child, start)
    /\ UNCHANGED <<prog, err, warned, revisits>>

HandleThreadJoin(t) ==
    /\ Runs(t, {"ThreadJoin"}) /\ IsFinished(Operation(t).child)
    /\ LET c == Operation(t).child
           added == AddLabel(g, t, LabelOf(Operation(t)))
       IN g' = [added EXCEPT ![c][Len(added[c])].parentJoin = At(added, t)]
    /\ UNCHANGED <<prog, err, warned, revisits>>

HandleThreadFinish(t) ==
    /\ err = "none" /\ g[t] # <<>> /\ ~HasNext(t) /\ ~IsFinished(t)
    /\ \A u \in Threads : ~InRMW(u)
    /\ g' = AddLabel(g, t, NewLabel("ThreadFinish", "rel", None, 0, 0))
    /\ UNCHANGED <<prog, err, warned, revisits>>

\* handleMalloc, handleHpProtect and handleFence add a label.
HandleLabelOnly(t) ==
    /\ Runs(t, {"Malloc", "HpProtect", "Fence"})
    /\ g' = AddLabel(g, t, LabelOf(Operation(t)))
    /\ UNCHANGED <<prog, err, warned, revisits>>

\* handleFree, of free() and of retire().  The allocation is dereferenced even
\* if there is none.
HandleFree(t) ==
    /\ Runs(t, {"Free", "HpRetire"})
    /\ LET op == Operation(t)
           m == AllocatingLabel(g, <<op.obj, op.off>>)
           lab == [LabelOf(op) EXCEPT !.alloc = m, !.len = IF m = Null THEN 0 ELSE Lab(g, m).len]
           added == AddLabel(g, t, lab)
       IN IF m = Null
          THEN g' = added /\ err' = "Crash" /\ UNCHANGED warned
          ELSE /\ g' = [added EXCEPT ![m[1]][m[2]].free = At(added, t)]
               /\ CheckForRaces(g', At(g', t), CheckErrors(g', At(g', t)))
    /\ UNCHANGED <<prog, revisits>>

\* handleLoad: the checks come before the read has a store to read from.
HandleLoad(t) ==
    /\ Runs(t, {"Read", "FaiRead"})
    /\ \E added \in {AddLabel(g, t, LabelOf(Operation(t)))} :
       \E r \in {At(added, t)} :
       \E error \in {FirstError(<<CheckAccessValidity(added, r), CheckErrors(added, r)>>)} :
          IF error # "none"
          THEN g' = added /\ err' = error /\ UNCHANGED warned
          ELSE \E w \in RfOptions(added, r) :
                  /\ g' = ChangeRf(added, r, w)
                  /\ err' = CheckInitializedMem(g', r)
                  /\ UNCHANGED warned
    /\ UNCHANGED <<prog, revisits>>

\* handleStore: calcCoOrderings warns before the races are looked for.
HandleStore(t) ==
    /\ Runs(t, {"Write", "FaiWrite"})
    /\ \E added \in {AddLabel(g, t, LabelOf(Operation(t)))} :
       \E w \in {At(added, t)} :
          /\ g' = added
          /\ IF CheckAccessValidity(added, w) # "none"
             THEN err' = CheckAccessValidity(added, w) /\ UNCHANGED warned
             ELSE \E racy \in WarnsOfPlacing(added, w) :
                     /\ err' = CheckErrors(added, w)
                     /\ warned' = (warned \/ racy \/ (err' = "none" /\ ~CheckRace7(added, w)))
    /\ UNCHANGED <<prog, revisits>>

-----------------------------------------------------------------------------
(* Revisits.                                                               *)

\* completeRevisitedRMW and isRevisitValid: the store of a revisited RMW is
\* added and checked for races at once.
Revisited(gr, r, w) ==
    \E changed \in {ChangeRf(gr, r, w)} :
    \E new \in {IF Lab(gr, r).kind = "FaiRead"
                THEN AddLabel(changed, r[1], LabelOf(prog[r[1]][r[2]])) ELSE changed} :
    \E e \in {At(new, r[1])} :
       /\ g' = new
       /\ CheckForRaces(new, e, FirstError(<<CheckInitializedMem(new, r),
             IF e = r THEN "none" ELSE CheckErrors(new, e)>>))

\* forwardRevisit: a read of the graph takes another of the older stores.
ForwardRevisit(r) ==
    /\ err = "none" /\ revisits > 0
    /\ \A u \in Threads : ~InRMW(u)
    /\ Is(g, r, "ReadLabel")
    /\ \E cut \in {CutToStamp(g, Lab(g, r).stamp)} :
       \E w \in RfOptions(cut, r) \ {Lab(g, r).rf} : Revisited(cut, r, w)
    /\ revisits' = revisits - 1
    /\ UNCHANGED prog

\* backwardRevisit: the newest label is a store, and an older read that the
\* store does not depend on takes it.
BackwardRevisit(r, w) ==
    /\ err = "none" /\ revisits > 0
    /\ \A u \in Threads : ~InRMW(u)
    /\ Is(g, r, "ReadLabel") /\ Is(g, w, "WriteLabel")
    /\ Lab(g, w).stamp = NextStamp(g) - 1
    /\ r \notin Lab(g, w).porf
    /\ \E copied \in {CopyGraphUpTo(g, r, w)} :
          w \in RfOptions(copied, r) /\ Revisited(copied, r, w)
    /\ revisits' = revisits - 1
    /\ UNCHANGED prog

-----------------------------------------------------------------------------
Init ==
    /\ prog \in Programs
    /\ g = [t \in Threads |-> IF t = 1 THEN <<NewLabel("Init", "acq", None, 0, 0)>> ELSE <<>>]
    /\ err = "none" /\ warned = FALSE /\ revisits = MaxRevisits

\* The exploration stops at an error, and an execution at its last label.
Done ==
    /\ err # "none" \/ \A t \in Threads : g[t] = <<>> \/ IsFinished(t)
    /\ UNCHANGED vars

Next ==
    \/ \E t \in Threads :
          \/ HandleThreadCreate(t) \/ HandleThreadJoin(t) \/ HandleThreadFinish(t)
          \/ HandleLabelOnly(t) \/ HandleFree(t) \/ HandleLoad(t) \/ HandleStore(t)
    \/ \E r \in Labels(g) : ForwardRevisit(r)
    \/ \E r, w \in Labels(g) : BackwardRevisit(r, w)
    \/ Done

Spec == Init /\ [][Next]_vars

-----------------------------------------------------------------------------
(* Happens-before by its definition: the closure of program order, thread  *)
(* creation and joining, and synchronisation.                              *)

\* The stores whose release sequence read r reads from.
ReleaseSequence(gr, r) ==
    LET from(S) == {rf_pred(gr, po_imm_pred(gr, w)) :
                       w \in {x \in S : x # InitPos /\ IsRMWStore(gr, x)}} \ {Null}
        heads[n \in Nat] == IF n = 0 THEN {Lab(gr, r).rf} \ {Null}
                            ELSE heads[n - 1] \cup from(heads[n - 1])
    IN heads[3]

Releases(gr, r) ==
    LET stores == ReleaseSequence(gr, r)
    IN {w \in stores : IsAtLeastRelease(Lab(gr, w).ord)}
       \cup UNION {ReleaseFencesBefore(gr, w) : w \in stores}

Reads(gr) == {r \in Labels(gr) : Is(gr, r, "ReadLabel")}

\* Edges from a release to an acquire read, and to an acquire fence.
ReadSync(gr) ==
    UNION {{<<x, r>> : x \in Releases(gr, r)} :
              r \in {q \in Reads(gr) : IsAtLeastAcquire(Lab(gr, q).ord)}}
FenceSync(gr) ==
    UNION {UNION {{<<x, f>> : x \in Releases(gr, r)} :
                     f \in {h \in po_succs(gr, r) : IsAcquireFence(gr, h)}} : r \in Reads(gr)}

ThreadOrder(gr) == {<<tc_pred(gr, e), e>> : e \in {x \in Labels(gr) : tc_pred(gr, x) # Null}}
                   \cup {<<tj_pred(gr, e), e>> : e \in {x \in Labels(gr) : tj_pred(gr, x) # Null}}
ProgramOrder(gr) == {<<po_imm_pred(gr, e), e>> : e \in {x \in Labels(gr) : x[2] > 1}}

Compose(R) == R \cup {<<p[1], q[2]>> : <<p, q>> \in {x \in R \X R : x[1][2] = x[2][1]}}
Closure(R) == Compose(Compose(Compose(Compose(R))))

HappensBefore(gr) ==
    Closure(ProgramOrder(gr) \cup ThreadOrder(gr) \cup ReadSync(gr) \cup FenceSync(gr))

-----------------------------------------------------------------------------
(* Memory errors by their definition, of a graph with happens-before hb.   *)

Accesses(gr) == {e \in Labels(gr) : Is(gr, e, "MemAccessLabel")}
DynAccesses(gr) == {e \in Accesses(gr) : IsDynamic(Lab(gr, e))}

InvalidAccess(gr, hb) ==
    \E a \in DynAccesses(gr) :
        \/ ~\E m \in Labels(gr) : /\ Is(gr, m, "MallocLabel") /\ <<m, a>> \in hb
                                 /\ Contains(Lab(gr, m), Location(Lab(gr, a)))
        \/ Is(gr, a, "ReadLabel") /\ Lab(gr, a).rf = InitPos

\* An access that may come after its object was freed or, without protection,
\* after it was retired.
UseAfterFree(gr, hb) ==
    \E f \in Labels(gr) : /\ Is(gr, f, "FreeLabel")
        /\ \/ ~\E m \in Labels(gr) : /\ Is(gr, m, "MallocLabel") /\ <<m, f>> \in hb
                                    /\ Lab(gr, m).obj = Lab(gr, f).obj
           \/ \E a \in DynAccesses(gr) :
                /\ Lab(gr, a).obj = Lab(gr, f).obj /\ <<a, f>> \notin hb
                /\ IsRetire(gr, f) => Lab(gr, a).alloc = Null \/ ~IsHazptrProtected(gr, a)

DoubleFree(gr) ==
    \E e, f \in Labels(gr) : /\ e # f /\ Is(gr, e, "FreeLabel") /\ Is(gr, f, "FreeLabel")
                            /\ Lab(gr, e).obj = Lab(gr, f).obj

DataRace(gr, hb) ==
    \E e, f \in Accesses(gr) : /\ e # f /\ Conflict(gr, e, f)
                              /\ Overlap(Lab(gr, e), Lab(gr, f))
                              /\ <<e, f>> \notin hb /\ <<f, e>> \notin hb

HasMemoryError(gr, hb) ==
    InvalidAccess(gr, hb) \/ UseAfterFree(gr, hb) \/ DoubleFree(gr) \/ DataRace(gr, hb)

-----------------------------------------------------------------------------
(* Properties.                                                             *)

TypeOK ==
    /\ prog \in Programs /\ DOMAIN g = Threads
    /\ err \in {"none", "Crash", "AccessNonMalloc", "DoubleFree", "AccessFreed",
                "RaceNotAtomic", "UninitializedMem"}
    /\ warned \in BOOLEAN /\ revisits \in 0..MaxRevisits
    /\ \A e \in Labels(g) : /\ Lab(g, e).stamp \in 0..(NextStamp(g) - 1)
                           /\ Lab(g, e).kind \in Kinds
                           /\ Lab(g, e).hb \cup Lab(g, e).porf \subseteq Labels(g)

\* As long as checkForRaces, checkAccessValidity and checkInitializedMem let
\* the exploration go on, the graph has no invalid access, no use of freed or
\* retired memory and no data race, whatever revisits have removed from it and
\* added to it.  This is so for programs whose accesses are of whole objects and
\* that free an object once: samelocs() compares where accesses begin.
EveryErrorReported ==
    err = "none" => \E hb \in {HappensBefore(g)} : ~HasMemoryError(g, hb)

\* checkErrors (RADriver.cpp:753) reports a second free() of an object.
DoubleFreesReported == err = "none" => ~DoubleFree(g)

\* An error that is reported is one of the graph it is reported for.
OnlyErrorsReported ==
    err # "none" => \E hb \in {HappensBefore(g)} : HasMemoryError(g, hb)

\* checkWarnings: two stores to an address that nothing orders are warned of
\* once, by whichever of them comes last.
UnorderedStoresWarned ==
    err = "none" /\ ~warned =>
        \A e \in Accesses(g), f \in Accesses(g) :
            e # f /\ Is(g, e, "WriteLabel") /\ f \in samelocs(g, e) /\ Is(g, f, "WriteLabel")
                => e \in Lab(g, f).porf \/ f \in Lab(g, e).porf

\* The views that labels carry through cuts, copies and changes of rf are the
\* happens-before of the graph they are in: what precedes a label, but for the
\* label's own synchronisation.
ViewsAreHappensBefore ==
    \E hb \in {HappensBefore(g)}, fences \in {FenceSync(g)} :
    \A e \in Labels(g) :
        LET direct == {x[1] : x \in {y \in fences \cup ProgramOrder(g) : y[2] = e}}
        IN Lab(g, e).hb = direct \cup {x[1] : x \in {y \in hb : y[2] \in direct}}

\* Where the links of a label lead.
Links(lab) == lab.readers \cup lab.accesses
              \cup ({lab.rf, lab.alloc, lab.free, lab.parentJoin} \ {Null})

\* The ranges of GraphIterators.hpp stay in the graph and are each other's
\* converse, although the graph keeps both directions of rf, alloc, free and
\* joins and restricts, copies and changes them separately.
IteratorsConverse ==
    /\ \A e \in Labels(g) : Links(Lab(g, e)) \subseteq Labels(g)
    /\ \A e, f \in Labels(g) :
        /\ f \in po_succs(g, e) <=> e \in po_preds(g, f)
        /\ po_imm_succ(g, e) = f <=> po_imm_pred(g, f) = e
        /\ f \in poloc_succs(g, e) <=> e \in poloc_preds(g, f)
        /\ f \in rfe_succs(g, e) <=> rfe_pred(g, f) = e
        /\ e # InitPos => (f \in rfi_succs(g, e) <=> rfi_pred(g, f) = e)
        /\ tc_succ(g, e) = f <=> tc_pred(g, f) = e
        /\ tj_succ(g, e) = f <=> tj_pred(g, f) = e
        /\ f \in alloc_succs(g, e) <=> alloc_pred(g, f) = e
        /\ free_succ(g, e) = f <=> free_pred(g, f) = e

\* checkErrors and checkWarnings report a memory error, a race or an unordered
\* store exactly if the graph has one, in whatever order its labels were added.
ErrorsExact == EveryErrorReported /\ OnlyErrorsReported /\ UnorderedStoresWarned

\* What labels remember of other labels, links and views, is true of the graph
\* they are in, after every cut, copy and change of rf.
LinksAndViewsExact == TypeOK /\ IteratorsConverse /\ ViewsAreHappensBefore
=============================================================================
