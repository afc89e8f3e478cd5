--------------------------- MODULE GraphIterators ---------------------------
(***************************************************************************)
(* The relations of an execution graph as src/GraphIterators.hpp gives     *)
(* them out: ranges of labels (sets of positions here) and single labels   *)
(* (a position, or Null).  A graph is a sequence of threads, a thread is a *)
(* sequence of labels, and a position is a pair <<thread, index>>; the     *)
(* first label of the main thread is the initializer.                      *)
(***************************************************************************)
EXTENDS EventLabel, Integers

Null == <<>>
InitPos == <<1, 1>>

\* label_begin() .. label_end(): every label, thread by thread; Lab(g, e) is
\* the one at position e.
Labels(g) == UNION {{<<t, i>> : i \in DOMAIN g[t]} : t \in DOMAIN g}
Lab(g, e) == g[e[1]][e[2]]

\* isa<class>, restricted to the kinds of labels these graphs have.
GraphKinds == {"Init", "ThreadStart", "ThreadCreate", "ThreadJoin", "ThreadFinish",
               "Read", "FaiRead", "Write", "FaiWrite", "Fence", "Malloc", "Free",
               "HpRetire", "HpProtect"}
KindsOf ==
    [MemAccessLabel |-> {"Read", "FaiRead", "Write", "FaiWrite"}, ReadLabel |-> {"Read", "FaiRead"},
     FaiReadLabel |-> {"FaiRead"}, CasReadLabel |-> {}, WriteLabel |-> {"Write", "FaiWrite"},
     FaiWriteLabel |-> {"FaiWrite"}, CasWriteLabel |-> {}, FenceLabel |-> {"Fence"},
     ThreadStartLabel |-> {"ThreadStart", "Init"}, ThreadCreateLabel |-> {"ThreadCreate"},
     ThreadJoinLabel |-> {"ThreadJoin"}, ThreadFinishLabel |-> {"ThreadFinish"},
     MallocLabel |-> {"Malloc"}, FreeLabel |-> {"Free", "HpRetire"}, HpRetireLabel |-> {"HpRetire"},
     HpProtectLabel |-> {"HpProtect"}, CLFlushLabel |-> {}]
ASSUME KindsAssumption ==
    \A class \in DOMAIN KindsOf : KindsOf[class] = {k \in GraphKinds : Isa(class, k)}
Is(g, e, class) == Lab(g, e).kind \in KindsOf[class]

\* The order of that iteration.
FirstOf(S) == CHOOSE e \in S : \A f \in S : 
                            e[1] < f[1] \/ (e[1] = f[1] /\ e[2] <= f[2])

-----------------------------------------------------------------------------
(* Program order.  The end of a thread's range is the position behind its  *)
(* last label: po never runs on into the next thread.                      *)

po_preds(g, e) == {<<e[1], i>> : i \in 1..(e[2] - 1)}
po_succs(g, e) == {<<e[1], i>> : i \in (e[2] + 1)..Len(g[e[1]])}
po_imm_pred(g, e) == IF e[2] = 1 THEN Null ELSE <<e[1], e[2] - 1>>
po_imm_succ(g, e) == IF e[2] = Len(g[e[1]]) THEN Null ELSE <<e[1], e[2] + 1>>

\* hasLocation, getLocation and LocationFilter: an address is an object and an
\* offset; two accesses are at one location if they begin at one address.
HasLocation(g, e) == Is(g, e, "MemAccessLabel") \/ Is(g, e, "CLFlushLabel")
Location(lab) == <<lab.obj, lab.off>>
AtLocation(g, e, loc) == Is(g, e, "MemAccessLabel") /\ Location(Lab(g, e)) = loc

PolocRange(g, e, range) ==
    IF HasLocation(g, e) THEN {f \in range : AtLocation(g, f, Location(Lab(g, e)))}
    ELSE {}
poloc_preds(g, e) == PolocRange(g, e, po_preds(g, e))
poloc_succs(g, e) == PolocRange(g, e, po_succs(g, e))

-----------------------------------------------------------------------------
(* Reads-from.                                                             *)

rf_pred(g, e) == IF Is(g, e, "ReadLabel") THEN Lab(g, e).rf ELSE Null
rf_succs(g, e) == IF Is(g, e, "WriteLabel") THEN Lab(g, e).readers ELSE {}

\* The external and the internal part of it; initial values are read internally.
rfi_pred(g, e) ==
    LET w == rf_pred(g, e) IN IF w = InitPos \/ (w # Null /\ w[1] = e[1]) THEN w ELSE Null
rfe_pred(g, e) == IF rfi_pred(g, e) = Null THEN rf_pred(g, e) ELSE Null
rfe_succs(g, e) == {r \in rf_succs(g, e) : r[1] # e[1]}
rfi_succs(g, e) == {r \in rf_succs(g, e) : r[1] = e[1]}

-----------------------------------------------------------------------------
(* Creation and joining of threads.                                        *)

tc_succ(g, e) ==
    IF Is(g, e, "ThreadCreateLabel") THEN <<Lab(g, e).child, 1>> ELSE Null
tc_pred(g, e) ==
    IF Is(g, e, "ThreadStartLabel") THEN Lab(g, e).parentCreate ELSE Null
tj_succ(g, e) ==
    IF Is(g, e, "ThreadFinishLabel") THEN Lab(g, e).parentJoin ELSE Null

\* The last label of the thread a join waits for, if it has finished.
tj_pred(g, e) ==
    LET last == <<Lab(g, e).child, Len(g[Lab(g, e).child])>>
    IN IF Is(g, e, "ThreadJoinLabel") /\ Is(g, last, "ThreadFinishLabel")
       THEN last ELSE Null

-----------------------------------------------------------------------------
(* Memory.                                                                 *)

\* MallocLabel::contains and FreeLabel::contains, whose freed size is the size
\* of the allocation.
Contains(lab, loc) == lab.obj = loc[1] /\ loc[2] \in 0..(lab.len - 1)

\* IDAndLocFilter: what else is at an address.
SameLocFilter(g, f, e, loc) ==
    /\ f # e
    /\ \/ AtLocation(g, f, loc)
       \/ /\ Is(g, f, "MallocLabel") \/ Is(g, f, "FreeLabel")
          /\ Contains(Lab(g, f), loc)

\* A label without a location, a free() too, has no labels at its location.
samelocs(g, e) ==
    IF HasLocation(g, e)
    THEN {f \in Labels(g) : SameLocFilter(g, f, e, Location(Lab(g, e)))}
    ELSE {}

\* An access and its allocation, an allocation and its accesses.
alloc_pred(g, e) == IF Is(g, e, "MemAccessLabel") THEN Lab(g, e).alloc ELSE Null
alloc_succs(g, e) == IF Is(g, e, "MallocLabel") THEN Lab(g, e).accesses ELSE {}

\* An allocation and the label that frees it.
free_succ(g, e) == IF Is(g, e, "MallocLabel") THEN Lab(g, e).free ELSE Null
free_pred(g, e) == IF Is(g, e, "FreeLabel") THEN Lab(g, e).alloc ELSE Null
=============================================================================
