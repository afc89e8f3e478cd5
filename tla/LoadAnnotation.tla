--------------------------- MODULE LoadAnnotation ---------------------------
(***************************************************************************)
(* Load annotations from the pass that computes them to their use: the     *)
(* pass (LoadAnnotationPass.cpp) annotates the loads an assume depends on, *)
(* the interpreter instantiates the annotation when it executes the load,  *)
(* and the driver (filterValuesFromAnnotSAVER) drops the stores whose      *)
(* value would make the thread block.  Two loop passes that evaluate the   *)
(* same expressions are included: LoopJumpThreadingPass and, from module   *)
(* SpinAssume, SpinAssumePass with the driver's handlers for its calls.    *)
(*                                                                         *)
(* One thread of the program under test runs one function.  The thread may *)
(* read the stores the driver dropped too: the executions in which it does *)
(* are the ones the exploration never sees, and the properties are about   *)
(* what is lost with them.  In the same way the thread goes on where it is *)
(* blocked as a spinning one.  Nothing is lost with functions on which the    *)
(* evaluator of annotations agrees with the interpreter; it computes at    *)
(* the width of an SVal, so it does not on signed or wrapping operations   *)
(* of narrower types, nor does it know that kill_thread ends a thread.     *)
(***************************************************************************)
EXTENDS SpinAssume, TLC

CONSTANTS Programs,       \* the functions that are run
          LoadValues(_)   \* the values that a store to a location of some width has

VARIABLES prog,           \* the function
          info,           \* what the passes found out about it
          fr,             \* the registers of the stack frame
          at,             \* the next instruction
          came,           \* the block control came from
          iter,           \* what was written since a loop header was last entered
          private,        \* the variables it allocated, has not read and cannot have published
          since,          \* how the store last read was chosen; "none" after a visible step
          symbolic,       \* registers left in the annotation last instantiated
          escaped,        \* a thread that read a dropped store did something visible
          outcome

vars == <<prog, info, fr, at, came, iter, private, since, symbolic, escaped, outcome>>

-----------------------------------------------------------------------------
(* LoadAnnotationPass: the loads an assume depends on.                        *)

Operands(i) == IF i.op = "extract" THEN {i.args[1]} ELSE {i.args[k] : k \in DOMAIN i.args}

\* A constant that a phi takes from a block stands for the condition of that block's branch.
IncomingDefs(F, i, b) ==
    IF i.in[b].c = "reg" THEN RegDefs(F, i.in[b])
    ELSE IF Len(At(F, Terminator(F, b)).to) = 2
         THEN RegDefs(F, At(F, Terminator(F, b)).args[1]) ELSE {}

DependsOn(F, i) ==
    UNION {RegDefs(F, o) : o \in Operands(i)} \cup UNION {IncomingDefs(F, i, b) : b \in DOMAIN i.in}

RECURSIVE calcSourceLoads(_, _, _)
calcSourceLoads(F, p, phis) ==
    IF At(F, p).op \in {"store", "localstore", "rmw", "alloca"} \/ p \in phis THEN {}
    ELSE IF At(F, p).op \in {"load", "cas"} THEN {p}
    ELSE UNION {calcSourceLoads(F, q, IF At(F, p).op = "phi" THEN phis \cup {p} ELSE phis) :
                q \in DependsOn(F, At(F, p))}

getSourceLoads(F, assm) ==
    UNION {calcSourceLoads(F, p, {}) : p \in RegDefs(F, At(F, assm).args[1])}

\* The instructions of a block path, last one first.
RECURSIVE Backwards(_, _)
Backwards(F, path) ==
    IF path = <<>> THEN <<>>
    ELSE [k \in 1..Len(F.blocks[path[1]]) |-> <<path[1], Len(F.blocks[path[1]]) + 1 - k>>]
         \o Backwards(F, Tail(path))

PathClear(F, insts, assm, load) ==
    \E m, n \in DOMAIN insts :
        /\ m < n /\ insts[m] = assm /\ insts[n] = load
        /\ \A k \in m+1..n-1 : ~hasSideEffects(At(F, insts[k])) /\ At(F, insts[k]).op # "load"

filterAnnotatableFromSource(F, assm, source) ==
    {l \in source : \E path \in foreachInBackPathTo(F, assm[1], l[1]) :
                        PathClear(F, Backwards(F, path), assm, l)}

getAnnotatableLoads(F, assm) == filterAnnotatableFromSource(F, assm, getSourceLoads(F, assm))

LoadAnnotationAnalysis(F) ==
    [l \in UNION {getAnnotatableLoads(F, a) : a \in {p \in Positions(F) : At(F, p).op = "assume"}}
        |-> annotate(F, l)]

\* initializeAnnotationInfo: the annotations as the interpreter has them.
AnnotMap(annots) == [l \in DOMAIN annots |-> transformed(annots[l])]

-----------------------------------------------------------------------------
(* LoopJumpThreadingPass: loops whose header always jumps to the body when    *)
(* entered from outside.                                                      *)

inLoopBody(l, b) == b \in l.blocks /\ b # l.header

RECURSIVE isDependentOn(_, _, _, _)
isDependentOn(F, p, q, chain) ==
    p \notin chain /\ \E d \in UNION {RegDefs(F, o) : o \in
                                        Operands(At(F, p)) \cup {At(F, p).in[b] :
                                                                 b \in DOMAIN At(F, p).in}} :
                          d = q \/ isDependentOn(F, d, q, chain \cup {p})

\* The first such phi of the header, if any.
getPHIConstEntryValueUsedInCond(F, l) ==
    LET candidates == {p \in Phis(F, l.header) :
                          /\ At(F, p).in[l.pred].c = "int"
                          /\ isDependentOn(F, Terminator(F, l.header), p, {})}
    IN  {p \in candidates : \A q \in candidates : p[2] <= q[2]}

generateExprJumpsToBody(F, l) ==
    IF inLoopBody(l, At(F, Terminator(F, l.header)).to[1])
    THEN annotateBBCond(F, l.header, l.pred)
    ELSE Logical("Not", <<annotateBBCond(F, l.header, l.pred)>>)

AlwaysTrue(r) == r.unknown = {} /\ r.res # 0

entryAlwaysJumpsToBody(F, l) ==
    /\ \E k \in DOMAIN At(F, Terminator(F, l.header)).to :
          inLoopBody(l, At(F, Terminator(F, l.header)).to[k])
    /\ AlwaysTrue(evaluateMap(generateExprJumpsToBody(F, l), [r \in {} |-> 0]))

Users(F, p) ==
    {q \in Positions(F) :
        \/ \E k \in DOMAIN At(F, q).args : p \in RegDefs(F, At(F, q).args[k])
        \/ \E b \in DOMAIN At(F, q).in : p \in RegDefs(F, At(F, q).in[b])}

isNonTrivialUser(F, u, criticalPHI) == At(F, u).op # "phi" \/ Users(F, u) \ {criticalPHI} # {}

isCriticalPHIUsedTrivially(F, l, criticalPHI) ==
    \A u \in Users(F, criticalPHI) :
        /\ ~(inLoopBody(l, u[1]) /\ isNonTrivialUser(F, u, criticalPHI))
        /\ ~(u[1] = l.header /\ criticalPHI \in Users(F, u))

areNonCriticalPHIsUsedInBody(F, l, criticalPHI) ==
    \E phi \in Phis(F, l.header) \ {criticalPHI} : \E u \in Users(F, phi) : inLoopBody(l, u[1])

loopUsesHeaderPHIsTrivially(F, l, criticalPHI) ==
    /\ isCriticalPHIUsedTrivially(F, l, criticalPHI)
    /\ ~areNonCriticalPHIsUsedInBody(F, l, criticalPHI)

\* The loops that invertLoop makes their predecessor enter behind the header.
ThreadedLoops(F) ==
    {l \in F.loops :
        /\ At(F, Terminator(F, l.pred)).op = "br"
        /\ \E phi \in getPHIConstEntryValueUsedInCond(F, l) : loopUsesHeaderPHIsTrivially(F, l, phi)
        /\ entryAlwaysJumpsToBody(F, l)}

-----------------------------------------------------------------------------
(* The run: what the interpreter and the driver do.                           *)

IntTy(w) == [id |-> "Integer", w |-> w]
PredicateOf ==
    [Eq |-> "ICMP_EQ", Ne |-> "ICMP_NE", Ult |-> "ICMP_ULT", Ule |-> "ICMP_ULE",
     Ugt |-> "ICMP_UGT", Uge |-> "ICMP_UGE", Slt |-> "ICMP_SLT", Sle |-> "ICMP_SLE",
     Sgt |-> "ICMP_SGT", Sge |-> "ICMP_SGE"]

getOperandValue(o) == CASE o.c = "reg" -> fr[o.r]
                        [] o.c = "int" -> o.v
                        [] o.c \in {"null", "undef"} -> 0

ValueOf(i, a, b) ==
    CASE i.op \in {"Shl", "LShr", "AShr"} -> visitShift(i.op, a, b, IntTy(i.w))
      [] i.op \in ArithKinds \ {"Shl", "LShr", "AShr"} ->
            visitBinaryOperator(i.op, a, b, IntTy(i.w))
      [] i.op \in CmpKinds -> visitICmpInst(PredicateOf[i.op], a, b, IntTy(i.src))
      [] i.op \in CastKinds \cup {"PtrToInt", "IntToPtr"} ->
            executeCast(i.op, a, IntTy(i.src), IntTy(i.w))
      [] i.op = "BitCast" -> a
      [] i.op = "extract" -> IF i.idx = 0 THEN a ELSE Bit(a = b)

ValueOps == ArithKinds \cup CmpKinds \cup CastKinds \cup {"PtrToInt", "IntToPtr", "BitCast", "extract"}

Cur == At(prog, at)
Arg(k) == getOperandValue(Cur.args[k])
Running == outcome = "running"

SetValue(r, v) == (r :> v) @@ fr

visitValue ==
    /\ Running /\ Cur.op \in ValueOps
    /\ fr' = SetValue(Cur.res, ValueOf(Cur, Arg(1), IF Len(Cur.args) = 2 THEN Arg(2) ELSE 0))
    /\ at' = getNextNode(at)
    /\ UNCHANGED <<prog, info, came, iter, private, since, symbolic, escaped, outcome>>

visitSelectInst ==
    /\ Running /\ Cur.op = "Select"
    /\ fr' = SetValue(Cur.res, executeSelectInst(Arg(1), Arg(2), Arg(3), IntTy(1)))
    /\ at' = getNextNode(at)
    /\ UNCHANGED <<prog, info, came, iter, private, since, symbolic, escaped, outcome>>

\* SwitchToNewBasicBlock: the phis of the target read their inputs before any is set.
PhisOf(b) == {i \in DOMAIN prog.blocks[b] : prog.blocks[b][i].op = "phi"}
PhiValues(b, from) ==
    [r \in {prog.blocks[b][i].res : i \in PhisOf(b)} |->
        getOperandValue((CHOOSE p \in {prog.blocks[b][i] : i \in PhisOf(b)} : p.res = r).in[from])]

\* No write yet: the variables stored to, the sum added to each of them and the locks taken;
\* for the driver, whether there was a write that counts, and one that is not a FaiWriteLabel;
\* and whether the thread is blocked by a faiZNE_spin_end or lockZNE_spin_end.
Variables(F) == {At(F, p).var : p \in Positions(F)}
NoWrites == [stored |-> {}, net |-> [v \in Variables(prog) |-> 0], wrote |-> FALSE,
             other |-> FALSE, cut |-> FALSE]

SwitchToNewBasicBlock(b) ==
    /\ fr' = PhiValues(b, at[1]) @@ fr
    /\ at' = <<b, Cardinality(PhisOf(b)) + 1>>
    /\ came' = at[1]
    /\ iter' = IF \E l \in prog.loops : l.header = b THEN NoWrites ELSE iter

visitBranchInst ==
    /\ Running /\ Cur.op = "br"
    /\ SwitchToNewBasicBlock(IF Len(Cur.to) = 2 /\ Arg(1) = 0 THEN Cur.to[2] ELSE Cur.to[1])
    /\ UNCHANGED <<prog, info, private, since, symbolic, escaped, outcome>>

-----------------------------------------------------------------------------
(* What the driver sees of an iteration.                                      *)

isAtLeastRelease(i) == i.ord \in {"Release", "AcquireRelease", "SequentiallyConsistent"}

\* A write to memory of this thread that it has neither read nor published does not count.
isWriteObservable(i) == isAtLeastRelease(i) \/ i.var \notin private

\* Neither does an exchange that writes the value it read.
isWriteEffectful(i, changes) == i.bop = "Xchg" => changes

\* A write, whether it changes the value and, for an RMW or a lock, the amount it adds.
WriteBy(i, it, changes, added) ==
    [it EXCEPT !.stored = IF changes /\ added = 0 THEN @ \cup {i.var} ELSE @,
               !.net[i.var] = Wrap(@ + added, i.w),
               !.wrote = @ \/ (isWriteEffectful(i, changes) /\ isWriteObservable(i)),
               !.other = @ \/ i.op # "rmw"]

\* handleFaiZNESpinEnd, called before the decrement: areFaiZNEConstraintsSat looks for writes
\* of this iteration other than FAIs, and for accesses of other threads.
handleFaiZNESpinEnd(othersSat) ==
    [iter EXCEPT !.cut = @ \/ (/\ \E l \in prog.loops : at \in info.spin[l].fai
                               /\ ~iter.other /\ othersSat)]

handleLockZNESpinEnd ==
    [iter EXCEPT !.cut = @ \/ \E l \in prog.loops : at \in info.spin[l].lock]

\* handleSpinStart, when the header is entered again: no write of the iteration counts.
handleSpinStart(l) == info.spin[l].start /\ at[1] \in l.latches /\ ~iter.wrote

callSpinEnd(l) ==
    /\ at[1] \in info.spin[l].ends
    /\ ~getOrCreateExitingCondition(Cur, l.header, IF Len(Cur.to) = 2 THEN Arg(1) ELSE 0)

\* What a step leaves of private: a read of the variable or a release ends it.
Kept(i) == IF isAtLeastRelease(i) THEN {} ELSE private \ {i.var}

-----------------------------------------------------------------------------
(* Loads, stores and calls.                                                   *)

\* A step other threads or the user can observe.
Visible == /\ escaped' = (escaped \/ since = "dropped")
           /\ since' = "none"

\* Seeded fault: the load keeps the value an earlier execution of it left in the frame.
FaultConcretized == concretize(info.annot[at], fr)

\* getCurrentAnnotConcretized: every register of the frame but the load itself.
getCurrentAnnotConcretized ==
    concretize(info.annot[at], [r \in DOMAIN fr \ {Cur.res} |-> fr[r]])

\* filterValuesFromAnnotSAVER: the last store and the coherence-maximal one stay.
filterValuesFromAnnotSAVER(annot, stores, comax) ==
    {k \in DOMAIN stores : k = Len(stores) \/ k = comax \/ evaluate(annot, stores[k]) # 0}

ChoiceOf(kept, stores, comax, k) ==
    CASE k \in {Len(stores), comax} -> "maximal"
      [] k \notin {Len(stores), comax} /\ k \in kept -> "kept"
      [] k \notin kept -> "dropped"

\* handleLoad of a load or of the read of a CAS, for one list of stores, and the store read.
handleLoad(annotated, annot, stores, comax, k) ==
    /\ fr' = SetValue(Cur.res, stores[k])
    /\ since' = IF annotated
                THEN ChoiceOf(filterValuesFromAnnotSAVER(annot, stores, comax), stores, comax, k)
                ELSE "none"
    /\ symbolic' = IF annotated THEN Registers(annot) \ {Cur.res} ELSE {}

StoreLists(w) == {<<v>> : v \in LoadValues(w)} \cup (LoadValues(w) \X LoadValues(w))

LoadFrom(stores, comax, k) ==
    IF at \in DOMAIN info.annot
    THEN \E a \in {getCurrentAnnotConcretized} : handleLoad(TRUE, a, stores, comax, k)
    ELSE handleLoad(FALSE, createTrue, stores, comax, k)

visitLoadInst ==
    /\ Running /\ Cur.op = "load"
    /\ \E stores \in StoreLists(Cur.w) : \E comax \in {0, 1}, k \in DOMAIN stores :
          LoadFrom(stores, comax, k)
    /\ escaped' = (escaped \/ since = "dropped")
    /\ private' = Kept(Cur)
    /\ at' = getNextNode(at)
    /\ UNCHANGED <<prog, info, came, iter, outcome>>

\* The write of a CAS that succeeds is visible.
visitAtomicCmpXchgInst ==
    /\ Running /\ Cur.op = "cas"
    /\ \E stores \in StoreLists(Cur.w) : \E comax \in {0, 1}, k \in DOMAIN stores :
          /\ LoadFrom(stores, comax, k)
          /\ iter' = IF stores[k] = Arg(1) THEN WriteBy(Cur, iter, TRUE, 0) ELSE iter
          /\ escaped' = (escaped \/ since = "dropped" \/ (stores[k] = Arg(1) /\ since' = "dropped"))
    /\ private' = Kept(Cur)
    /\ at' = getNextNode(at)
    /\ UNCHANGED <<prog, info, came, outcome>>

\* executeAtomicRMWOperation, of the operations that SpinAssumePass and the driver tell apart.
AmountAdded(i, v) == CASE i.bop = "Add" -> v
                       [] i.bop = "Sub" -> 2 ^ i.w - v
                       [] i.bop = "Xchg" -> 0

\* An RMW is never annotated; its write is visible.
visitAtomicRMWInst ==
    /\ Running /\ Cur.op = "rmw"
    /\ \E v \in LoadValues(Cur.w), othersSat \in BOOLEAN :
          /\ fr' = SetValue(Cur.res, v)
          /\ iter' = WriteBy(Cur, handleFaiZNESpinEnd(othersSat), v # Arg(1),
                             AmountAdded(Cur, Arg(1)))
    /\ Visible
    /\ symbolic' = {}
    /\ private' = Kept(Cur)
    /\ at' = getNextNode(at)
    /\ UNCHANGED <<prog, info, came, outcome>>

\* A mutex that is free: taking it adds one, releasing it takes that back.
callMutexLock ==
    /\ Running /\ Cur.op = "lock" /\ iter.net[Cur.var] = 0
    /\ iter' = WriteBy(Cur, iter, TRUE, 1)
    /\ Visible
    /\ private' = Kept(Cur)
    /\ at' = getNextNode(at)
    /\ UNCHANGED <<prog, info, fr, came, symbolic, outcome>>

callMutexUnlock ==
    /\ Running /\ Cur.op = "unlock"
    /\ iter' = WriteBy(Cur, handleLockZNESpinEnd, TRUE, 2 ^ Cur.w - 1)
    /\ Visible
    /\ private' = {}
    /\ at' = getNextNode(at)
    /\ UNCHANGED <<prog, info, fr, came, symbolic, outcome>>

\* handleBlock ends the thread at a false assume.
callAssume ==
    /\ Running /\ Cur.op = "assume"
    /\ \/ /\ Arg(1) = 0
          /\ outcome' = "blocked"
          /\ UNCHANGED <<at, since, escaped>>
       \/ /\ Arg(1) # 0
          /\ at' = getNextNode(at)
          /\ Visible
          /\ UNCHANGED outcome
    /\ UNCHANGED <<prog, info, fr, came, iter, private, symbolic>>

visitStoreInst ==
    /\ Running /\ Cur.op \in {"store", "localstore"}
    /\ iter' = WriteBy(Cur, iter, TRUE, 0)
    /\ private' = IF isAtLeastRelease(Cur) THEN {} ELSE private
    /\ at' = getNextNode(at)
    /\ Visible
    /\ UNCHANGED <<prog, info, fr, came, symbolic, outcome>>

visitAllocaInst ==
    /\ Running /\ Cur.op = "alloca"
    /\ private' = private \cup {Cur.var}
    /\ at' = getNextNode(at)
    /\ Visible
    /\ UNCHANGED <<prog, info, fr, came, iter, symbolic, outcome>>

visitCallInst ==
    /\ Running /\ Cur.op = "call"
    /\ at' = getNextNode(at)
    /\ Visible
    /\ UNCHANGED <<prog, info, fr, came, iter, private, symbolic, outcome>>

\* A fence, or a call of a function without effects.
visitFenceInst ==
    /\ Running /\ Cur.op \in {"fence", "cleancall"}
    /\ at' = getNextNode(at)
    /\ UNCHANGED <<prog, info, fr, came, iter, private, since, symbolic, escaped, outcome>>

\* The thread returns, fails an assertion or is killed: it did not block.
Finish(how) ==
    /\ outcome' = how
    /\ Visible
    /\ UNCHANGED <<prog, info, fr, at, came, iter, private, symbolic>>

visitReturnInst == Running /\ Cur.op = "ret" /\ Finish("returned")
callAssertFail == Running /\ Cur.op = "error" /\ Finish("error")
callKillThread ==
    /\ Running /\ Cur.op = "kill"
    /\ \/ Arg(1) # 0 /\ Finish("killed")
       \/ /\ Arg(1) = 0
          /\ at' = getNextNode(at)
          /\ UNCHANGED <<prog, info, fr, came, iter, private, since, symbolic, escaped, outcome>>

Init ==
    /\ prog \in Programs
    /\ \E markStarts \in BOOLEAN :
       info = [annot |-> AnnotMap(LoadAnnotationAnalysis(prog)),
               threaded |-> ThreadedLoops(prog),
               spin |-> SpinAssumePass(prog, markStarts)]
    /\ fr \in [prog.args -> LoadValues(PtrWidth)]
    /\ at = <<prog.entry, 1>>
    /\ came = prog.entry
    /\ iter = NoWrites /\ private = {}
    /\ since = "none" /\ symbolic = {} /\ escaped = FALSE
    /\ outcome = "running"

Next ==
    \/ visitValue \/ visitSelectInst \/ visitBranchInst \/ visitLoadInst
    \/ visitAtomicCmpXchgInst \/ visitAtomicRMWInst \/ callMutexLock \/ callMutexUnlock
    \/ visitStoreInst \/ visitAllocaInst \/ visitCallInst \/ callAssume \/ visitFenceInst
    \/ visitReturnInst \/ callAssertFail \/ callKillThread

Spec == Init /\ [][Next]_vars

-----------------------------------------------------------------------------
(* Properties.                                                                *)

\* Every position is one of the function and every register holds a value of an SVal.
TypeOK ==
    /\ at \in Positions(prog)
    /\ \A r \in DOMAIN fr : fr[r] \in 0..2 ^ PtrWidth - 1
    /\ since \in {"none", "maximal", "kept", "dropped"}
    /\ outcome \in {"running", "blocked", "returned", "error", "killed"}

\* "Keep values that do not lead to blocking" (filterOptimizeRfs): a thread that reads a store
\* filterValuesFromAnnotSAVER dropped blocks at an assume, before it does anything that another
\* thread or the user can see.  What the exploration leaves out has no outcome of its own.
NoExecutionLost == ~escaped

\* "Assumes that there is only 1 symbolic variable ... and that are no registers (these should
\* have been concretized)" (SExprEvaluator): the annotation of a load, instantiated with the
\* stack frame, mentions no register but the load.
OnlyLoadSymbolic == symbolic = {}

\* The filter is exact where nothing stops the annotator: a store that is kept for its value
\* alone does not make the thread block, unless the function has a loop.
KeptValueUnblocks == (since = "kept" /\ outcome = "blocked") => prog.loops # {}

\* The filter drops stores only if reading them leads to nothing new, and keeps
\* only those that do not block; its annotation has the load as its only unknown.
FilterSound == TypeOK /\ NoExecutionLost /\ OnlyLoadSymbolic /\ KeptValueUnblocks

\* A loop that LoopJumpThreadingPass inverts is entered: from the loop predecessor, the
\* header's branch goes to the body (invertLoop makes the predecessor bypass the header).
BypassedHeaderEntersBody ==
    \A l \in info.threaded :
        (Running /\ came = l.pred /\ at = Terminator(prog, l.header) /\ at' # at)
            => inLoopBody(l, at'[1])

\* A step along the back edge of an iteration in which the thread is blocked: by a
\* zero-net-effect mark, by the spin_end of the latch or at the spin_start of the header.
BlockedIterationEnds(l) ==
    /\ Running /\ Cur.op = "br" /\ at[1] \in l.latches /\ at'[1] = l.header
    /\ iter.cut \/ callSpinEnd(l) \/ handleSpinStart(l)

\* Memory of its own that the function never reads and cannot have published.
NeverSeen(v) ==
    /\ \E p \in Positions(prog) : At(prog, p).op = "alloca" /\ At(prog, p).var = v
    /\ \A p \in Positions(prog) :
          ~isAtLeastRelease(At(prog, p)) /\ (At(prog, p).var = v => At(prog, p).op # "load")

ReadFromMemory == {fr[r] : r \in {At(prog, p).res : p \in {p \in Positions(prog) :
                                    At(prog, p).op \in {"load", "cas"}}} \cap DOMAIN fr}

\* An iteration in which SpinAssumePass or the driver blocks the thread changed nothing that
\* the next one could tell: no store or CAS has changed shared memory, and the phis of the
\* header have values that a first iteration could have read.
SpinHasNoEffect ==
    \A l \in prog.loops : BlockedIterationEnds(l) =>
        /\ \A v \in iter.stored : NeverSeen(v)
        /\ \A i \in PhisOf(l.header) :
              fr'[prog.blocks[l.header][i].res] \in {0} \cup ReadFromMemory

\* A thread that is blocked before the last effect of an iteration (isPathToHeaderFAIZNE,
\* isPathToHeaderLockZNE), or at the latch, would take the back edge: it neither leaves the
\* loop nor ends.  It does not hold of a loop whose only block locks, reads, unlocks and
\* then branches: a block postdominates itself, so that the pass takes it for a spinloop.
StaysInLoop ==
    /\ iter.cut => \E l \in prog.loops : at'[1] \in l.blocks /\ outcome' # "returned"
    /\ \A l \in prog.loops : (Cur.op = "br" /\ callSpinEnd(l)) => at'[1] = l.header

\* What was added to a variable or a mutex in a blocked iteration is taken back in it.
NetEffectIsZero ==
    \A l \in prog.loops : BlockedIterationEnds(l) => \A v \in Variables(prog) : iter.net[v] = 0

\* What LoopJumpThreadingPass and SpinAssumePass conclude about a loop holds whenever the
\* function runs: a header that is bypassed would enter the body; an iteration that is cut
\* short as a spin has had no effect, or one that the thread would undo before it goes back
\* to the header and starts again.
LoopPassesSound ==
    [][BypassedHeaderEntersBody /\ SpinHasNoEffect /\ StaysInLoop /\ NetEffectIsZero]_vars
=============================================================================
