------------------------- MODULE InterpreterValues -------------------------
(***************************************************************************)
(* The value operations of the LLVM interpreter (Execution.cpp): compare,  *)
(* arithmetic, shift, cast, vector and aggregate instructions on           *)
(* GenericValues, and the SVal arithmetic of atomic read-modify-writes.    *)
(*                                                                         *)
(* A type is a record with an id: an Integer has a width w, a Vector has   *)
(* an element type el.  An integer (an APInt) is a number in 0..2^w-1, a   *)
(* vector or aggregate value is a sequence.  Floating-point values are     *)
(* integers and NaN on a tiny grid: doubles are the integers, floats the   *)
(* even ones, so that a double may fall between two floats.                *)
(***************************************************************************)
EXTENDS Integers, Sequences, Bitwise

CONSTANTS NaN,          \* the floating-point value that is not a number
          PtrWidth      \* bits of a pointer; also the width of an SVal

Lanes(ty) == ty.id = "Vector"
LaneType(ty) == IF Lanes(ty) THEN ty.el ELSE ty
LaneWidth(ty) == LET el == LaneType(ty) IN IF el.id = "Integer" THEN el.w ELSE PtrWidth

Bit(b) == IF b THEN 1 ELSE 0

\* APInt: the bits of a mathematical integer at a width, and back.
Wrap(x, w) == x % (2 ^ w)
Signed(x, w) == IF x >= 2 ^ (w - 1) THEN x - 2 ^ w ELSE x

\* One operation per vector lane, or one on the scalar.
PerLane(Op(_, _), a, b, ty) ==
    IF Lanes(ty) THEN [i \in 1..Len(a) |-> Op(a[i], b[i])] ELSE Op(a, b)

PerLane1(Op(_), a, ty) == IF Lanes(ty) THEN [i \in 1..Len(a) |-> Op(a[i])] ELSE Op(a)

-----------------------------------------------------------------------------
(* Integer and pointer comparisons.  Pointers are compared as addresses     *)
(* whatever the signedness of the predicate.                                *)

SignedOrder(Rel(_, _), a, b, ty) ==
    PerLane(LAMBDA x, y : Bit(IF LaneType(ty).id = "Pointer" THEN Rel(x, y)
                              ELSE Rel(Signed(x, LaneWidth(ty)), Signed(y, LaneWidth(ty)))),
            a, b, ty)

executeICMP_EQ(a, b, ty) == PerLane(LAMBDA x, y : Bit(x = y), a, b, ty)
executeICMP_NE(a, b, ty) == PerLane(LAMBDA x, y : Bit(x # y), a, b, ty)
executeICMP_ULT(a, b, ty) == PerLane(LAMBDA x, y : Bit(x < y), a, b, ty)
executeICMP_UGT(a, b, ty) == PerLane(LAMBDA x, y : Bit(x > y), a, b, ty)
executeICMP_ULE(a, b, ty) == PerLane(LAMBDA x, y : Bit(x <= y), a, b, ty)
executeICMP_UGE(a, b, ty) == PerLane(LAMBDA x, y : Bit(x >= y), a, b, ty)
executeICMP_SLT(a, b, ty) == SignedOrder(LAMBDA x, y : x < y, a, b, ty)
executeICMP_SGT(a, b, ty) == SignedOrder(LAMBDA x, y : x > y, a, b, ty)
executeICMP_SLE(a, b, ty) == SignedOrder(LAMBDA x, y : x <= y, a, b, ty)
executeICMP_SGE(a, b, ty) == SignedOrder(LAMBDA x, y : x >= y, a, b, ty)

visitICmpInst(pred, a, b, ty) ==
    CASE pred = "ICMP_EQ"  -> executeICMP_EQ(a, b, ty)  [] pred = "ICMP_NE"  -> executeICMP_NE(a, b, ty)
      [] pred = "ICMP_ULT" -> executeICMP_ULT(a, b, ty) [] pred = "ICMP_SLT" -> executeICMP_SLT(a, b, ty)
      [] pred = "ICMP_UGT" -> executeICMP_UGT(a, b, ty) [] pred = "ICMP_SGT" -> executeICMP_SGT(a, b, ty)
      [] pred = "ICMP_ULE" -> executeICMP_ULE(a, b, ty) [] pred = "ICMP_SLE" -> executeICMP_SLE(a, b, ty)
      [] pred = "ICMP_UGE" -> executeICMP_UGE(a, b, ty) [] pred = "ICMP_SGE" -> executeICMP_SGE(a, b, ty)

-----------------------------------------------------------------------------
(* Floating-point comparisons.  C's == and the orders are false on NaN, !=  *)
(* is true on it; the O- and U-predicates add a scalar NaN test or, for     *)
(* vectors, a mask computed before the comparison.                          *)

CRel(Rel(_, _), x, y) == x # NaN /\ y # NaN /\ Rel(x, y)
CNotEqual(x, y) == ~CRel(LAMBDA u, v : u = v, x, y)

ScalarNaN(a, b, ty) == ~Lanes(ty) /\ (a = NaN \/ b = NaN)

MaskVectorNaNs(a, b, flag) ==
    [i \in 1..Len(a) |-> IF a[i] = NaN \/ b[i] = NaN THEN Bit(flag) ELSE Bit(~flag)]

FCmp(Rel(_, _), a, b, ty) == PerLane(LAMBDA x, y : Bit(CRel(Rel, x, y)), a, b, ty)

executeFCMP_OEQ(a, b, ty) == FCmp(LAMBDA x, y : x = y, a, b, ty)
executeFCMP_OLE(a, b, ty) == FCmp(LAMBDA x, y : x <= y, a, b, ty)
executeFCMP_OGE(a, b, ty) == FCmp(LAMBDA x, y : x >= y, a, b, ty)
executeFCMP_OLT(a, b, ty) == FCmp(LAMBDA x, y : x < y, a, b, ty)
executeFCMP_OGT(a, b, ty) == FCmp(LAMBDA x, y : x > y, a, b, ty)

executeFCMP_ONE(a, b, ty) ==
    LET mask == MaskVectorNaNs(a, b, FALSE)
        dest == PerLane(LAMBDA x, y : Bit(CNotEqual(x, y)), a, b, ty)
    IN  IF ScalarNaN(a, b, ty) THEN 0
        ELSE IF Lanes(ty) THEN [i \in DOMAIN dest |-> IF mask[i] = 0 THEN 0 ELSE dest[i]]
        ELSE dest

Unordered(Ordered(_, _, _), a, b, ty) ==
    LET mask == MaskVectorNaNs(a, b, TRUE)
        dest == Ordered(a, b, ty)
    IN  IF ScalarNaN(a, b, ty) THEN 1
        ELSE IF Lanes(ty) THEN [i \in DOMAIN dest |-> IF mask[i] = 1 THEN 1 ELSE dest[i]]
        ELSE dest

executeFCMP_UEQ(a, b, ty) == Unordered(executeFCMP_OEQ, a, b, ty)
executeFCMP_UNE(a, b, ty) == Unordered(executeFCMP_ONE, a, b, ty)
executeFCMP_ULE(a, b, ty) == Unordered(executeFCMP_OLE, a, b, ty)
executeFCMP_UGE(a, b, ty) == Unordered(executeFCMP_OGE, a, b, ty)
executeFCMP_ULT(a, b, ty) == Unordered(executeFCMP_OLT, a, b, ty)
executeFCMP_UGT(a, b, ty) == Unordered(executeFCMP_OGT, a, b, ty)

executeFCMP_ORD(a, b, ty) == PerLane(LAMBDA x, y : Bit(x # NaN /\ y # NaN), a, b, ty)
executeFCMP_UNO(a, b, ty) == PerLane(LAMBDA x, y : Bit(x = NaN \/ y = NaN), a, b, ty)
executeFCMP_BOOL(a, b, ty, val) == PerLane(LAMBDA x, y : Bit(val), a, b, ty)

visitFCmpInst(pred, a, b, ty) ==
    CASE pred = "FCMP_FALSE" -> executeFCMP_BOOL(a, b, ty, FALSE)
      [] pred = "FCMP_TRUE"  -> executeFCMP_BOOL(a, b, ty, TRUE)
      [] pred = "FCMP_ORD" -> executeFCMP_ORD(a, b, ty) [] pred = "FCMP_UNO" -> executeFCMP_UNO(a, b, ty)
      [] pred = "FCMP_UEQ" -> executeFCMP_UEQ(a, b, ty) [] pred = "FCMP_OEQ" -> executeFCMP_OEQ(a, b, ty)
      [] pred = "FCMP_UNE" -> executeFCMP_UNE(a, b, ty) [] pred = "FCMP_ONE" -> executeFCMP_ONE(a, b, ty)
      [] pred = "FCMP_ULT" -> executeFCMP_ULT(a, b, ty) [] pred = "FCMP_OLT" -> executeFCMP_OLT(a, b, ty)
      [] pred = "FCMP_UGT" -> executeFCMP_UGT(a, b, ty) [] pred = "FCMP_OGT" -> executeFCMP_OGT(a, b, ty)
      [] pred = "FCMP_ULE" -> executeFCMP_ULE(a, b, ty) [] pred = "FCMP_OLE" -> executeFCMP_OLE(a, b, ty)
      [] pred = "FCMP_UGE" -> executeFCMP_UGE(a, b, ty) [] pred = "FCMP_OGE" -> executeFCMP_OGE(a, b, ty)

\* Seeded fault: a signed predicate falls into the case of the unsigned one.
FaultCmpInst(pred, a, b, ty) ==
    IF pred = "ICMP_SGT" THEN executeICMP_UGT(a, b, ty)
    ELSE IF LaneType(ty).id \in {"Float", "Double"} THEN visitFCmpInst(pred, a, b, ty)
    ELSE visitICmpInst(pred, a, b, ty)

\* The comparison of a constant expression has a switch of its own, over the predicates of
\* both classes.
executeCmpInst(pred, a, b, ty) ==
    CASE pred = "ICMP_EQ"  -> executeICMP_EQ(a, b, ty)
      [] pred = "ICMP_NE"  -> executeICMP_NE(a, b, ty)
      [] pred = "ICMP_UGT" -> executeICMP_UGT(a, b, ty)
      [] pred = "ICMP_SGT" -> executeICMP_SGT(a, b, ty)
      [] pred = "ICMP_ULT" -> executeICMP_ULT(a, b, ty)
      [] pred = "ICMP_SLT" -> executeICMP_SLT(a, b, ty)
      [] pred = "ICMP_UGE" -> executeICMP_UGE(a, b, ty)
      [] pred = "ICMP_SGE" -> executeICMP_SGE(a, b, ty)
      [] pred = "ICMP_ULE" -> executeICMP_ULE(a, b, ty)
      [] pred = "ICMP_SLE" -> executeICMP_SLE(a, b, ty)
      [] pred = "FCMP_ORD" -> executeFCMP_ORD(a, b, ty)
      [] pred = "FCMP_UNO" -> executeFCMP_UNO(a, b, ty)
      [] pred = "FCMP_OEQ" -> executeFCMP_OEQ(a, b, ty)
      [] pred = "FCMP_UEQ" -> executeFCMP_UEQ(a, b, ty)
      [] pred = "FCMP_ONE" -> executeFCMP_ONE(a, b, ty)
      [] pred = "FCMP_UNE" -> executeFCMP_UNE(a, b, ty)
      [] pred = "FCMP_OLT" -> executeFCMP_OLT(a, b, ty)
      [] pred = "FCMP_ULT" -> executeFCMP_ULT(a, b, ty)
      [] pred = "FCMP_OGT" -> executeFCMP_OGT(a, b, ty)
      [] pred = "FCMP_UGT" -> executeFCMP_UGT(a, b, ty)
      [] pred = "FCMP_OLE" -> executeFCMP_OLE(a, b, ty)
      [] pred = "FCMP_ULE" -> executeFCMP_ULE(a, b, ty)
      [] pred = "FCMP_OGE" -> executeFCMP_OGE(a, b, ty)
      [] pred = "FCMP_UGE" -> executeFCMP_UGE(a, b, ty)
      [] pred = "FCMP_FALSE" -> executeFCMP_BOOL(a, b, ty, FALSE)
      [] pred = "FCMP_TRUE"  -> executeFCMP_BOOL(a, b, ty, TRUE)

-----------------------------------------------------------------------------
(* Binary operators, per lane.  Division by zero is undefined behaviour of   *)
(* the program and never evaluated; FDiv is left out, as its quotients leave *)
(* the grid of floating-point values.                                        *)

\* APInt::sdiv, srem and fmod truncate toward zero.
Magnitude(x) == IF x < 0 THEN -x ELSE x
TruncQuot(x, y) == LET q == Magnitude(x) \div Magnitude(y) IN IF (x < 0) = (y < 0) THEN q ELSE -q
TruncRem(x, y) == x - y * TruncQuot(x, y)
SDiv(x, y, w) == Wrap(TruncQuot(Signed(x, w), Signed(y, w)), w)
SRem(x, y, w) == Wrap(TruncRem(Signed(x, w), Signed(y, w)), w)

\* Nearest float to a double, ties to even, on the grid of this module.
RoundToFloat(x) == IF x = NaN \/ x % 2 = 0 THEN x ELSE IF (x + 1) % 4 = 0 THEN x + 1 ELSE x - 1
ToPrecision(x, ty) == IF LaneType(ty).id = "Float" THEN RoundToFloat(x) ELSE x

FloatOp(Op(_, _), x, y, ty) == IF x = NaN \/ y = NaN THEN NaN ELSE ToPrecision(Op(x, y), ty)

executeFAddInst(x, y, ty) == FloatOp(LAMBDA u, v : u + v, x, y, ty)
executeFSubInst(x, y, ty) == FloatOp(LAMBDA u, v : u - v, x, y, ty)
executeFMulInst(x, y, ty) == FloatOp(LAMBDA u, v : u * v, x, y, ty)
executeFRemInst(x, y, ty) == IF y = 0 THEN NaN ELSE FloatOp(TruncRem, x, y, ty)

visitBinaryOperator(op, a, b, ty) ==
    LET w == LaneWidth(ty)
        Op(x, y) ==
            CASE op = "Add"  -> Wrap(x + y, w)
              [] op = "Sub"  -> Wrap(x - y, w)
              [] op = "Mul"  -> Wrap(x * y, w)
              [] op = "UDiv" -> x \div y
              [] op = "SDiv" -> SDiv(x, y, w)
              [] op = "URem" -> x % y
              [] op = "SRem" -> SRem(x, y, w)
              [] op = "And"  -> x & y
              [] op = "Or"   -> x | y
              [] op = "Xor"  -> x ^^ y
              [] op = "FAdd" -> executeFAddInst(x, y, ty)
              [] op = "FSub" -> executeFSubInst(x, y, ty)
              [] op = "FMul" -> executeFMulInst(x, y, ty)
              [] op = "FRem" -> executeFRemInst(x, y, ty)
    IN  PerLane(Op, a, b, ty)

executeSelectInst(cond, a, b, condTy) ==
    IF Lanes(condTy) THEN [i \in DOMAIN cond |-> IF cond[i] = 0 THEN b[i] ELSE a[i]]
    ELSE IF cond = 0 THEN b ELSE a

\* The least power of two above n (llvm::NextPowerOf2).
NextPowerOf2(n) == CHOOSE p \in {2 ^ k : k \in 0..n} : p > n /\ (p = 1 \/ p \div 2 <= n)

\* Seeded fault: the mask is one bit too wide.
FaultShiftAmount(amount, w) == IF amount < w THEN amount ELSE (NextPowerOf2(w) - 1) & amount

getShiftAmount(amount, w) == IF amount < w THEN amount ELSE (NextPowerOf2(w - 1) - 1) & amount

\* APInt::shl, lshr and ashr; shifting by the width or more leaves no bit (or only sign bits).
Shl(x, k, w) == Wrap(x * 2 ^ k, w)
LShr(x, k, w) == x \div 2 ^ k
AShr(x, k, w) == Wrap(Signed(x, w) \div 2 ^ k, w)

visitShl(a, b, ty) ==
    LET w == LaneWidth(ty) IN PerLane(LAMBDA x, y : Shl(x, getShiftAmount(y, w), w), a, b, ty)
visitLShr(a, b, ty) ==
    LET w == LaneWidth(ty) IN PerLane(LAMBDA x, y : LShr(x, getShiftAmount(y, w), w), a, b, ty)
visitAShr(a, b, ty) ==
    LET w == LaneWidth(ty) IN PerLane(LAMBDA x, y : AShr(x, getShiftAmount(y, w), w), a, b, ty)

-----------------------------------------------------------------------------
(* Casts, from type src to type dst.                                         *)

executeTruncInst(a, src, dst) == PerLane1(LAMBDA x : Wrap(x, LaneWidth(dst)), a, src)
executeSExtInst(a, src, dst) ==
    PerLane1(LAMBDA x : Wrap(Signed(x, LaneWidth(src)), LaneWidth(dst)), a, src)
executeZExtInst(a, src, dst) == PerLane1(LAMBDA x : Wrap(x, LaneWidth(dst)), a, src)
executeFPTruncInst(a, src, dst) == PerLane1(RoundToFloat, a, src)
executeFPExtInst(a, src, dst) == PerLane1(LAMBDA x : x, a, src)

\* APIntOps::RoundDoubleToAPInt keeps the low bits of the truncated value.
executeFPToUIInst(a, src, dst) == PerLane1(LAMBDA x : Wrap(x, LaneWidth(dst)), a, src)
executeFPToSIInst(a, src, dst) == PerLane1(LAMBDA x : Wrap(x, LaneWidth(dst)), a, src)
executeUIToFPInst(a, src, dst) == PerLane1(LAMBDA x : ToPrecision(x, dst), a, src)
executeSIToFPInst(a, src, dst) ==
    PerLane1(LAMBDA x : ToPrecision(Signed(x, LaneWidth(src)), dst), a, src)

executePtrToIntInst(a, src, dst) == Wrap(a, dst.w)
executeIntToPtrInst(a, src, dst) == Wrap(a, PtrWidth)

\* The words of a bit cast (little endian, integer elements): several source elements are
\* shifted into one destination element, or one is cut into several.
RECURSIVE Gather(_, _, _, _)
Gather(v, first, ratio, w) ==
    IF ratio = 0 THEN 0 ELSE v[first] | (Gather(v, first + 1, ratio - 1, w) * 2 ^ w)

executeBitCastInst(a, src, dst) ==
    LET from   == IF Lanes(src) THEN a ELSE <<a>>
        srcW   == LaneWidth(src)
        dstW   == LaneWidth(dst)
        dstNum == IF Lanes(dst) THEN (Len(from) * srcW) \div dstW ELSE 1
        ratio  == IF dstNum < Len(from) THEN Len(from) \div dstNum ELSE dstNum \div Len(from)
        to     == IF dstNum < Len(from)
                  THEN [i \in 1..dstNum |-> Gather(from, (i - 1) * ratio + 1, ratio, srcW)]
                  ELSE [i \in 1..dstNum |->
                           LET j == (i - 1) % ratio
                           IN  Wrap(LShr(from[(i - 1) \div ratio + 1], j * dstW, srcW), dstW)]
    IN  IF ~Lanes(src) /\ ~Lanes(dst) THEN a
        ELSE IF Lanes(dst) THEN to ELSE to[1]

executeCast(op, a, src, dst) ==
    CASE op = "Trunc"    -> executeTruncInst(a, src, dst)
      [] op = "SExt"     -> executeSExtInst(a, src, dst)
      [] op = "ZExt"     -> executeZExtInst(a, src, dst)
      [] op = "FPTrunc"  -> executeFPTruncInst(a, src, dst)
      [] op = "FPExt"    -> executeFPExtInst(a, src, dst)
      [] op = "FPToUI"   -> executeFPToUIInst(a, src, dst)
      [] op = "FPToSI"   -> executeFPToSIInst(a, src, dst)
      [] op = "UIToFP"   -> executeUIToFPInst(a, src, dst)
      [] op = "SIToFP"   -> executeSIToFPInst(a, src, dst)
      [] op = "PtrToInt" -> executePtrToIntInst(a, src, dst)
      [] op = "IntToPtr" -> executeIntToPtrInst(a, src, dst)
      [] op = "BitCast"  -> executeBitCastInst(a, src, dst)

-----------------------------------------------------------------------------
(* Vector and aggregate instructions.  Indices count from 0, as in LLVM.     *)

visitExtractElementInst(v, idx) == v[idx + 1]
visitInsertElementInst(v, x, idx) == [v EXCEPT ![idx + 1] = x]
visitShuffleVectorInst(v1, v2, mask) ==
    [i \in 1..Len(mask) |-> IF mask[i] < Len(v1) THEN v1[mask[i] + 1]
                            ELSE v2[mask[i] - Len(v1) + 1]]

RECURSIVE visitExtractValueInst(_, _)
visitExtractValueInst(agg, path) ==
    IF path = <<>> THEN agg ELSE visitExtractValueInst(agg[Head(path) + 1], Tail(path))

RECURSIVE visitInsertValueInst(_, _, _)
visitInsertValueInst(agg, x, path) ==
    IF path = <<>> THEN x
    ELSE [agg EXCEPT ![Head(path) + 1] = visitInsertValueInst(@, x, Tail(path))]

\* The address getelementptr computes: a struct field adds its offset, an array index its
\* signed value times the element size, in pointer arithmetic.
RECURSIVE GEPOffset(_)
GEPOffset(steps) ==
    IF steps = <<>> THEN 0
    ELSE LET s == Head(steps)
         IN  (IF s.kind = "field" THEN s.offset ELSE s.size * Signed(s.idx, s.w))
             + GEPOffset(Tail(steps))

executeGEPOperation(base, steps) == Wrap(base + GEPOffset(steps), PtrWidth)

-----------------------------------------------------------------------------
(* The value of a constant expression has a switch of its own.  It works on the  *)
(* integer of a scalar, does not adjust the amount of a shift, and leaves the     *)
(* lanes of a vector alone (no binary operation of vectors reaches it here).      *)

visitShift(op, a, b, ty) ==
    CASE op = "Shl" -> visitShl(a, b, ty) [] op = "LShr" -> visitLShr(a, b, ty)
      [] op = "AShr" -> visitAShr(a, b, ty)

getConstantExprValue(i) ==
    CASE i.op = "Trunc"    -> executeTruncInst(i.a, i.src, i.ty)
      [] i.op = "ZExt"     -> executeZExtInst(i.a, i.src, i.ty)
      [] i.op = "SExt"     -> executeSExtInst(i.a, i.src, i.ty)
      [] i.op = "FPTrunc"  -> executeFPTruncInst(i.a, i.src, i.ty)
      [] i.op = "FPExt"    -> executeFPExtInst(i.a, i.src, i.ty)
      [] i.op = "UIToFP"   -> executeUIToFPInst(i.a, i.src, i.ty)
      [] i.op = "SIToFP"   -> executeSIToFPInst(i.a, i.src, i.ty)
      [] i.op = "FPToUI"   -> executeFPToUIInst(i.a, i.src, i.ty)
      [] i.op = "FPToSI"   -> executeFPToSIInst(i.a, i.src, i.ty)
      [] i.op = "PtrToInt" -> executePtrToIntInst(i.a, i.src, i.ty)
      [] i.op = "IntToPtr" -> executeIntToPtrInst(i.a, i.src, i.ty)
      [] i.op = "BitCast"  -> executeBitCastInst(i.a, i.src, i.ty)
      [] i.op = "GetElementPtr" -> executeGEPOperation(i.base, i.steps)
      [] i.cls \in {"FCmp", "ICmp"} -> executeCmpInst(i.op, i.a, i.b, i.ty)
      [] i.op = "Select" -> executeSelectInst(i.cond, i.a, i.b, i.condTy)
      [] i.op = "Add"  -> Wrap(i.a + i.b, i.ty.w)
      [] i.op = "Sub"  -> Wrap(i.a - i.b, i.ty.w)
      [] i.op = "Mul"  -> Wrap(i.a * i.b, i.ty.w)
      [] i.op = "FAdd" -> executeFAddInst(i.a, i.b, i.ty)
      [] i.op = "FSub" -> executeFSubInst(i.a, i.b, i.ty)
      [] i.op = "FMul" -> executeFMulInst(i.a, i.b, i.ty)
      [] i.op = "FRem" -> executeFRemInst(i.a, i.b, i.ty)
      [] i.op = "SDiv" -> SDiv(i.a, i.b, i.ty.w)
      [] i.op = "UDiv" -> i.a \div i.b
      [] i.op = "URem" -> i.a % i.b
      [] i.op = "SRem" -> SRem(i.a, i.b, i.ty.w)
      [] i.op = "And"  -> i.a & i.b
      [] i.op = "Or"   -> i.a | i.b
      [] i.op = "Xor"  -> i.a ^^ i.b
      [] i.op = "Shl"  -> Shl(i.a, i.b, i.ty.w)
      [] i.op = "LShr" -> LShr(i.a, i.b, i.ty.w)
      [] i.op = "AShr" -> AShr(i.a, i.b, i.ty.w)

-----------------------------------------------------------------------------
(* Read-modify-writes compute on SVals, which are wider than the accessed     *)
(* location; what is written is cut to size when it is read back.             *)

\* Sign-extends the bottom bits of an SVal.
signExtendBottom(v, bits) == Signed(Wrap(v, bits), bits)

executeAtomicRMWOperation(old, val, bits, op) ==
    CASE op = "Xchg" -> val
      [] op = "Add"  -> Wrap(old + val, PtrWidth)
      [] op = "Sub"  -> Wrap(old - val, PtrWidth)
      [] op = "And"  -> old & val
      [] op = "Nand" -> (2 ^ PtrWidth - 1) - (old & val)
      [] op = "Or"   -> old | val
      [] op = "Xor"  -> old ^^ val
      [] op = "Max"  -> IF signExtendBottom(old, bits) > signExtendBottom(val, bits)
                        THEN old ELSE val
      [] op = "Min"  -> IF signExtendBottom(old, bits) < signExtendBottom(val, bits)
                        THEN old ELSE val
      [] op = "UMax" -> IF old > val THEN old ELSE val
      [] op = "UMin" -> IF old < val THEN old ELSE val

\* The part of a written SVal that an access of so many bits at an offset sees.
getSizedValAtOffset(val, offset, bits) == (val \div 2 ^ offset) & (2 ^ bits - 1)
=============================================================================
