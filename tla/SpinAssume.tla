----------------------------- MODULE SpinAssume -----------------------------
(***************************************************************************)
(* SpinAssumePass.cpp: which loops of a function are spinloops, and where  *)
(* the thread is to be blocked instead of going round once more.  A back   *)
(* edge whose paths have no effect is cut at the latch, one whose paths    *)
(* add and subtract the same amount, or lock and unlock the same mutex,    *)
(* before the second of the two; the loops that may have effects are left  *)
(* to the driver, which looks at what an iteration wrote.                  *)
(*                                                                         *)
(* Pointer operands are variables: an instruction that accesses memory has *)
(* one in var, its ordering in ord and, for an RMW, the operation in bop.  *)
(* Dominance and the escape analysis are LLVM's and another pass's.        *)
(***************************************************************************)
EXTENDS InstAnnotator

Defs(F, r) == {p \in Positions(F) : At(F, p).res = r}
RegDefs(F, o) == IF o.c = "reg" THEN Defs(F, o.r) ELSE {}
DefinedBy(F, o, op) == \E p \in RegDefs(F, o) : At(F, p).op = op
DefOf(F, o) == At(F, CHOOSE p \in RegDefs(F, o) : TRUE)

-----------------------------------------------------------------------------
(* The phis of the header: a loop with one that does not come from a load or  *)
(* a CAS changes the state of the thread and is no spinloop.                  *)

Phis(F, b) == {p \in Positions(F) : p[1] = b /\ At(F, p).op = "phi"}

getLoopCASs(F, l) == {p \in Positions(F) : p[1] \in l.blocks /\ At(F, p).op = "cas"}

accessSameVariable(i, j) == i.var = j.var

areSameLoadOrdering(o1, o2) ==
    \/ o1 = o2
    \/ {o1, o2} \in {{"Acquire", "AcquireRelease"}, {"Monotonic", "Release"}}

CastOps == CastKinds \cup {"PtrToInt", "IntToPtr", "BitCast"}
RECURSIVE stripCasts(_, _)
stripCasts(F, o) ==
    IF \E op \in CastOps : DefinedBy(F, o, op) THEN stripCasts(F, DefOf(F, o).args[1]) ELSE o

\* The operands that reach a phi, directly or through other phis.
RECURSIVE Incoming(_, _, _)
Incoming(F, phi, phiChain) ==
    IF phi \in phiChain THEN {}
    ELSE UNION {LET v == stripCasts(F, At(F, phi).in[b])
                IN  IF DefinedBy(F, v, "phi")
                    THEN UNION {Incoming(F, p, phiChain \cup {phi}) : p \in RegDefs(F, v)}
                    ELSE {v} : b \in DOMAIN At(F, phi).in}

ReadsLikeACAS(F, i, cass) ==
    \E c \in cass : accessSameVariable(i, At(F, c)) /\ areSameLoadOrdering(i.ord, At(F, c).ord)

\* extractsFromCAS: component idx of a CAS like one of the loop's.
ExtractsLikeACAS(F, v, idx, cass) ==
    /\ DefinedBy(F, v, "extract") /\ DefOf(F, v).idx = idx
    /\ DefinedBy(F, DefOf(F, v).args[1], "cas")
    /\ ReadsLikeACAS(F, DefOf(F, DefOf(F, v).args[1]), cass)

isPHIRelatedToCASCmp(F, phi, cass) ==
    \A v \in Incoming(F, phi, {}) :
        \/ v.c = "undef"
        \/ DefinedBy(F, v, "load") /\ ReadsLikeACAS(F, DefOf(F, v), cass)
        \/ ExtractsLikeACAS(F, v, 0, cass)

isPHIRelatedToCASRes(F, phi, cass) ==
    \A v \in Incoming(F, phi, {}) :
        \/ v.c = "undef"
        \/ v.c = "int" /\ v.v = 0
        \/ ExtractsLikeACAS(F, v, 1, cass)

isPHIRelatedToLoad(F, phi) ==
    /\ \A v \in Incoming(F, phi, {}) : DefinedBy(F, v, "load")
    /\ \A v, w \in Incoming(F, phi, {}) :
          /\ accessSameVariable(DefOf(F, v), DefOf(F, w))
          /\ areSameLoadOrdering(DefOf(F, v).ord, DefOf(F, w).ord)

areBlockPHIsRelatedToLoopCASs(F, l) ==
    \A phi \in Phis(F, l.header) :
        \/ /\ getLoopCASs(F, l) # {}
           /\ \/ isPHIRelatedToCASCmp(F, phi, getLoopCASs(F, l))
              \/ isPHIRelatedToCASRes(F, phi, getLoopCASs(F, l))
        \/ isPHIRelatedToLoad(F, phi)

-----------------------------------------------------------------------------
(* Back edges whose paths have no effect.                                     *)

\* A call of a function of the clean set has none.
hasSideEffectsUnlessClean(i) == hasSideEffects(i) /\ i.op # "cleancall"

isCASExtract(F, p, cas) ==
    At(F, p).op = "extract" /\ At(F, p).idx = 1 /\ At(F, p).args[1].r = At(F, cas).res

\* The success bit is extracted by one of the two instructions after the CAS.
CASResultExtract(F, cas) ==
    {p \in {getNextNode(getNextNode(cas)), getNextNode(cas)} \cap Positions(F) :
        isCASExtract(F, p, cas)}

PathInsts(F, latch, l) ==
    {p \in Positions(F) : p[1] \in BackedgeBlocks(F, latch, l)}

LoopCASes(F, latch, l) == {p \in PathInsts(F, latch, l) : At(F, p).op = "cas"}

Results(F, cass, good) ==
    [r \in {At(F, CHOOSE p \in CASResultExtract(F, c) : TRUE).res : c \in cass}
        |-> Bit(\E c \in good : \E p \in CASResultExtract(F, c) : At(F, p).res = r)]

RECURSIVE Listed(_)
Listed(S) == IF S = {} THEN <<>>
             ELSE LET x == CHOOSE x \in S : TRUE IN Append(Listed(S \ {x}), x)

BackedgeCondition(F, cass, latch, l) ==
    Logical("Conjunction", Listed({annotateCASWithBackedgeCond(F, c, latch, l) : c \in cass}))

NeverTrue(r) == r.unknown = {} /\ r.res = 0

\* Seeded fault: only the iterations in which every CAS succeeds are looked at.
FaultFailedCASes(F, cass, latch, l) ==
    \/ cass = {}
    \/ /\ \A c \in cass : CASResultExtract(F, c) # {}
       /\ NeverTrue(evaluateMap(BackedgeCondition(F, cass, latch, l), Results(F, cass, cass)))

failedCASesLeadToHeader(F, cass, latch, l) ==
    \/ cass = {}
    \/ /\ \A c \in cass : CASResultExtract(F, c) # {}
       /\ \A good \in (SUBSET cass) \ {{}} :
            NeverTrue(evaluateMap(BackedgeCondition(F, cass, latch, l), Results(F, cass, good)))

\* Stores that are marked as local, or go to memory that has not escaped (EscapeAnalysis).
isStoreLocal == {"localstore"}

EffectsOnly(F, latch, l, allowed) ==
    \A p \in PathInsts(F, latch, l) :
        At(F, p).op \in allowed \/ ~hasSideEffectsUnlessClean(At(F, p))

isPathToHeaderEffectFree(F, latch, l) ==
    /\ EffectsOnly(F, latch, l, {"cas"} \cup isStoreLocal)
    /\ failedCASesLeadToHeader(F, LoopCASes(F, latch, l), latch, l)

-----------------------------------------------------------------------------
(* Back edges whose paths have zero net effect.                               *)

successors(F, b) == {At(F, Terminator(F, b)).to[k] : k \in DOMAIN At(F, Terminator(F, b)).to}

\* The blocks control can get to from some blocks without entering another one.
RECURSIVE ReachableAvoiding(_, _, _)
ReachableAvoiding(F, from, b) ==
    LET next == from \cup (UNION {successors(F, c) : c \in from} \ {b})
    IN  IF next = from THEN from ELSE ReachableAvoiding(F, next, b)

dominates(F, p, q) ==
    IF p[1] = q[1] THEN p[2] < q[2]
    ELSE p[1] = F.entry \/ q[1] \notin ReachableAvoiding(F, {F.entry}, p[1])

postdominates(F, b, c) ==
    b = c \/ \A d \in ReachableAvoiding(F, {c}, b) : successors(F, d) # {}

areCancelingBinops(i, j) ==
    /\ accessSameVariable(i, j)
    /\ i.args[1].c = "int" /\ j.args[1].c = "int"
    /\ \/ {i.bop, j.bop} = {"Add", "Sub"} /\ i.args[1].v = j.args[1].v
       \/ /\ i.bop = j.bop /\ i.bop \in {"Add", "Sub"}
          /\ Wrap(i.args[1].v + j.args[1].v, i.w) = 0

\* The decrements that end an iteration of a fetch-and-increment loop.
isPathToHeaderFAIZNE(F, latch, l) ==
    {deci \in PathInsts(F, latch, l) :
        \E inci \in PathInsts(F, latch, l) :
            /\ {p \in PathInsts(F, latch, l) : At(F, p).op = "rmw"} = {inci, deci}
            /\ inci # deci
            /\ EffectsOnly(F, latch, l, {"rmw", "cas"})
            /\ dominates(F, inci, deci) /\ postdominates(F, l.header, deci[1])
            /\ \A c \in LoopCASes(F, latch, l) : dominates(F, c, deci)
            /\ areCancelingBinops(At(F, inci), At(F, deci))}

dominatesAndPostdominates(F, p, q) == dominates(F, p, q) /\ postdominates(F, p[1], q[1])

\* The unlocks that end an iteration under a lock.
isPathToHeaderLockZNE(F, latch, l) ==
    {unlock \in PathInsts(F, latch, l) :
        \E lock \in PathInsts(F, latch, l) :
            /\ {p \in PathInsts(F, latch, l) : At(F, p).op = "lock"} = {lock}
            /\ {p \in PathInsts(F, latch, l) : At(F, p).op = "unlock"} = {unlock}
            /\ EffectsOnly(F, latch, l, {"lock", "unlock"})
            /\ Phis(F, l.header) = {}
            /\ dominatesAndPostdominates(F, lock, unlock)
            /\ accessSameVariable(At(F, lock), At(F, unlock))}

-----------------------------------------------------------------------------
(* The pass: calls that are inserted, per loop.                               *)

\* The result of a loop: the latches with a spin_end, the instructions with a
\* faiZNE_spin_end or a lockZNE_spin_end before them, and whether the header has a spin_start.
NotASpinloop == [ends |-> {}, fai |-> {}, lock |-> {}, start |-> FALSE]

checkLoop(F, l, markStarts) ==
    IF ~areBlockPHIsRelatedToLoopCASs(F, l) THEN NotASpinloop
    ELSE LET fai  == {b \in l.latches : isPathToHeaderFAIZNE(F, b, l) # {}}
             lock == {b \in l.latches \ fai : isPathToHeaderLockZNE(F, b, l) # {}}
             ends == {b \in l.latches \ (fai \cup lock) : isPathToHeaderEffectFree(F, b, l)}
         IN  [ends  |-> ends,
              fai   |-> UNION {isPathToHeaderFAIZNE(F, b, l) : b \in fai},
              lock  |-> UNION {isPathToHeaderLockZNE(F, b, l) : b \in lock},
              start |-> ends # l.latches \/ (markStarts /\ ends # {})]

SpinAssumePass(F, markStarts) == [l \in F.loops |-> checkLoop(F, l, markStarts)]

\* addSpinEndCallBeforeTerm: the condition under which the latch does not go to the header.
getOrCreateExitingCondition(term, header, cond) ==
    Len(term.to) = 2 /\ (IF term.to[1] # header THEN cond # 0 ELSE cond = 0)
=============================================================================
