--------------------------- MODULE InstAnnotator ---------------------------
(***************************************************************************)
(* InstAnnotator.cpp: from the point after a load, the condition under     *)
(* which the thread does not block at the next assume, as an expression    *)
(* over the value loaded; and two conditions on loops that use the same    *)
(* backward propagation.                                                   *)
(*                                                                         *)
(* A function of the program under test is a record: blocks maps a block   *)
(* name to its sequence of instructions, entry is the first block, loops   *)
(* are the natural loops LLVM finds.  An instruction is a record with an   *)
(* opcode op, a result register res, operands args, the widths w of its    *)
(* result and src of its first operand, targets to, incoming operands in   *)
(* (for a phi) and an index idx (for an extract).  The value instructions  *)
(* are named as the expression kinds are.  A position is a block name and  *)
(* an index in the block.                                                  *)
(***************************************************************************)
EXTENDS SExpr, FiniteSets

At(F, p) == F.blocks[p[1]][p[2]]
Positions(F) == UNION {{<<b, i>> : i \in DOMAIN F.blocks[b]} : b \in DOMAIN F.blocks}
begin(b) == <<b, 1>>
getNextNode(p) == <<p[1], p[2] + 1>>
isTerminator(F, p) == p[2] = Len(F.blocks[p[1]])
predecessors(F, b) ==
    {c \in DOMAIN F.blocks : b \in {F.blocks[c][Len(F.blocks[c])].to[k] :
                                    k \in DOMAIN F.blocks[c][Len(F.blocks[c])].to}}

\* Calls that touch memory or other threads; loads, fences and the clean internal functions
\* (assume, assertion failure, kill of the thread) do not count.
hasSideEffects(i) ==
    i.op \in {"alloca", "store", "localstore", "cas", "rmw", "call", "cleancall", "lock", "unlock"}
mayReadOrWriteMemory(i) ==
    hasSideEffects(i) \/ i.op \in {"load", "fence", "assume", "error", "kill"}

\* A constant expression stands for the constant it is folded to; the tool stops
\* with an error at one that cannot be folded.
generateOperandExpr(o) ==
    CASE o.c = "undef" -> Concrete(Wrap(42, PtrWidth))
      [] o.c = "int"   -> Concrete(o.v)
      [] o.c = "null"  -> Concrete(0)
      [] o.c = "reg"   -> Register(o.r)

\* generateInstExpr, the pointer casts: by the sizes of the two types.
PointerCastExpr(i) ==
    IF i.src > i.w THEN Cast("Trunc", generateOperandExpr(i.args[1]))
    ELSE IF i.src < i.w THEN Cast("ZExt", generateOperandExpr(i.args[1]))
    ELSE generateOperandExpr(i.args[1])

\* generateInstExpr, extracts of the value read by a CAS and of its success bit.
ExtractExpr(i) ==
    IF i.idx = 0 THEN Register(i.args[1].r)
    ELSE Cmp("Eq", Register(i.args[1].r), generateOperandExpr(i.args[2]))

\* What cannot be annotated is the constant true, as is a remainder with sign.
generateInstExpr(i) ==
    CASE i.op \in CastKinds -> Cast(i.op, generateOperandExpr(i.args[1]))
      [] i.op = "Select" -> Select(generateOperandExpr(i.args[1]), generateOperandExpr(i.args[2]),
                                   generateOperandExpr(i.args[3]))
      [] i.op \in ArithKinds \ {"SRem"} ->
            Binary(i.op, generateOperandExpr(i.args[1]), generateOperandExpr(i.args[2]))
      [] i.op = "extract" -> ExtractExpr(i)
      [] i.op = "BitCast" -> generateOperandExpr(i.args[1])
      [] i.op \in {"PtrToInt", "IntToPtr"} -> PointerCastExpr(i)
      [] i.op \in CmpKinds ->
            Cmp(i.op, generateOperandExpr(i.args[1]), generateOperandExpr(i.args[2]))
      [] OTHER -> createTrue

-----------------------------------------------------------------------------
(* The annotation of a load.                                                 *)

Targets(F, p) == [k \in DOMAIN At(F, p).to |-> begin(At(F, p).to[k])]

\* Nothing beyond the next load, side effect, assume or error is annotated.
getNextOrBranchSuccessors(F, p) ==
    IF At(F, p).op \in {"load", "assume", "error"} \/ hasSideEffects(At(F, p)) THEN <<>>
    ELSE IF ~isTerminator(F, p) THEN <<getNextNode(p)>>
    ELSE IF At(F, p).op = "br" THEN Targets(F, p) ELSE <<>>

\* The phis of a block take their values one after the other, the first one first.
RECURSIVE SubstitutePhis(_, _, _, _)
SubstitutePhis(F, from, q, e) ==
    IF At(F, q).op # "phi" THEN e
    ELSE SubstitutePhis(F, from, getNextNode(q),
                        substitute(e, At(F, q).res, generateOperandExpr(At(F, q).in[from])))

PhisToSucc(F, p, q, e) == IF p[1] = q[1] THEN e ELSE SubstitutePhis(F, p[1], q, e)

propagateAnnotFromSucc(F, p, q, e) ==
    IF At(F, p).op = "br" \/ (At(F, p).op = "phi" /\ p[1] = q[1]) THEN PhisToSucc(F, p, q, e)
    ELSE substitute(PhisToSucc(F, p, q, e), At(F, p).res, generateInstExpr(At(F, p)))

BranchCondition(F, p) == Register(At(F, p).args[1].r)

\* The annotation of p once its successors have theirs.
AnnotationAt(F, p, succs, annot) ==
    CASE Len(succs) = 0 /\ At(F, p).op = "assume" -> generateOperandExpr(At(F, p).args[1])
      [] Len(succs) = 0 /\ At(F, p).op # "assume" -> createTrue
      [] Len(succs) = 1 -> propagateAnnotFromSucc(F, p, succs[1], annot[succs[1]])
      [] Len(succs) = 2 -> Select(BranchCondition(F, p),
                                  propagateAnnotFromSucc(F, p, succs[1], annot[succs[1]]),
                                  propagateAnnotFromSucc(F, p, succs[2], annot[succs[2]]))

Unseen(F) == [status |-> [p \in Positions(F) |-> "unseen"],
              annot  |-> [p \in Positions(F) |-> createTrue]]

Enter(s, p) == [s EXCEPT !.status[p] = "entered"]
Leave(F, p, succs, s) ==
    [s EXCEPT !.status[p] = "left", !.annot[p] = AnnotationAt(F, p, succs, s.annot)]

\* Depth first; a successor on the path of the search counts as true for the time being.
RECURSIVE annotateDFS(_, _, _), VisitSuccs(_, _, _)
VisitSuccs(F, succs, s) ==
    IF succs = <<>> THEN s
    ELSE VisitSuccs(F, Tail(succs),
                    CASE s.status[Head(succs)] = "unseen"  -> annotateDFS(F, Head(succs), s)
                      [] s.status[Head(succs)] = "entered" ->
                            [s EXCEPT !.annot[Head(succs)] = createTrue]
                      [] s.status[Head(succs)] = "left"    -> s)
annotateDFS(F, p, s) ==
    Leave(F, p, getNextOrBranchSuccessors(F, p),
          VisitSuccs(F, getNextOrBranchSuccessors(F, p), Enter(s, p)))

annotate(F, load) ==
    annotateDFS(F, getNextNode(load), Unseen(F)).annot[getNextNode(load)]

-----------------------------------------------------------------------------
(* The condition of a block's branch, as an expression over what holds when   *)
(* the block is entered from a predecessor.                                   *)

RECURSIVE CondAt(_, _)
CondAt(F, p) ==
    IF isTerminator(F, p) THEN generateOperandExpr(At(F, p).args[1])
    ELSE IF mayReadOrWriteMemory(At(F, p)) THEN createFalse
    ELSE propagateAnnotFromSucc(F, p, getNextNode(p), CondAt(F, getNextNode(p)))

Terminator(F, b) == <<b, Len(F.blocks[b])>>

annotateBBCond(F, b, pred) ==
    CASE At(F, Terminator(F, b)).op # "br" -> createFalse
      [] At(F, Terminator(F, b)).op = "br" /\ Len(At(F, Terminator(F, b)).to) = 1 -> createTrue
      [] OTHER -> propagateAnnotFromSucc(F, Terminator(F, pred), begin(b), CondAt(F, begin(b)))

\* The block paths from one block back to another, no block twice.
RECURSIVE BackPathsFrom(_, _, _, _)
BackPathsFrom(F, b, to, path) ==
    IF b = to THEN {Append(path, b)}
    ELSE UNION {BackPathsFrom(F, c, to, Append(path, b)) :
                c \in {c \in predecessors(F, b) : c # b /\ \A k \in DOMAIN path : path[k] # c}}
foreachInBackPathTo(F, from, to) == BackPathsFrom(F, from, to, <<>>)

-----------------------------------------------------------------------------
(* The condition under which control goes from a CAS back to the loop header  *)
(* along the paths of one back edge.                                          *)

BackedgeBlocks(F, latch, l) ==
    UNION {{path[k] : k \in DOMAIN path} : path \in foreachInBackPathTo(F, latch, l.header)}

getNextOrBranchSuccessorsInLoop(F, p, l, bps) ==
    IF p[1] \notin bps \/ p = begin(l.header) THEN <<>>
    ELSE IF ~isTerminator(F, p) THEN <<getNextNode(p)>>
    ELSE IF At(F, p).op = "br" THEN Targets(F, p) ELSE <<>>

propagateAnnotFromSuccInLoop(F, p, q, e) ==
    IF \/ At(F, p).op \in {"br", "cas", "extract", "load", "call", "cleancall", "assume", "error",
                         "kill"}
       \/ At(F, p).op = "phi" /\ p[1] = q[1]
    THEN PhisToSucc(F, p, q, e)
    ELSE substitute(PhisToSucc(F, p, q, e), At(F, p).res, generateInstExpr(At(F, p)))

\* Leaving the paths is false, reaching the header is true.
BackedgeAnnotationAt(F, p, succs, annot, bps) ==
    CASE Len(succs) = 0 /\ p[1] \notin bps -> createFalse
      [] Len(succs) = 0 /\ p[1] \in bps -> createTrue
      [] Len(succs) = 1 -> propagateAnnotFromSuccInLoop(F, p, succs[1], annot[succs[1]])
      [] Len(succs) = 2 -> Select(BranchCondition(F, p),
                                  propagateAnnotFromSuccInLoop(F, p, succs[1], annot[succs[1]]),
                                  propagateAnnotFromSuccInLoop(F, p, succs[2], annot[succs[2]]))

LeaveInLoop(F, p, succs, s, bps) ==
    [s EXCEPT !.status[p] = "left", !.annot[p] = BackedgeAnnotationAt(F, p, succs, s.annot, bps)]

RECURSIVE annotateCASWithBackedgeCondDFS(_, _, _, _, _), VisitSuccsInLoop(_, _, _, _, _)
VisitSuccsInLoop(F, succs, l, bps, s) ==
    IF succs = <<>> THEN s
    ELSE VisitSuccsInLoop(F, Tail(succs), l, bps,
             CASE s.status[Head(succs)] = "unseen"  ->
                    annotateCASWithBackedgeCondDFS(F, Head(succs), l, bps, s)
               [] s.status[Head(succs)] = "entered" ->
                    [s EXCEPT !.annot[Head(succs)] = createTrue]
               [] s.status[Head(succs)] = "left"    -> s)
annotateCASWithBackedgeCondDFS(F, p, l, bps, s) ==
    LeaveInLoop(F, p, getNextOrBranchSuccessorsInLoop(F, p, l, bps),
                VisitSuccsInLoop(F, getNextOrBranchSuccessorsInLoop(F, p, l, bps), l, bps,
                                 Enter(s, p)), bps)

annotateCASWithBackedgeCond(F, cas, latch, l) ==
    annotateCASWithBackedgeCondDFS(F, getNextNode(cas), l, BackedgeBlocks(F, latch, l), Unseen(F))
        .annot[getNextNode(cas)]
=============================================================================
