---------------------------- MODULE Interpreter ----------------------------
(***************************************************************************)
(* One thread of the interpreter.  It evaluates an instruction chosen at   *)
(* the start (value is what its visit method stores, folded what the same  *)
(* operation yields as a constant expression), or it runs loads, stores,   *)
(* read-modify-writes and compare-exchanges on thread-local variables,     *)
(* which never reach the execution graph: Thread::tls maps each byte       *)
(* address to a GenericValue.                                              *)
(***************************************************************************)
EXTENDS InterpreterValues, FiniteSetsExt

CONSTANTS Instrs,       \* the instructions to evaluate
          ByteWidth,    \* bits of a byte of thread-local memory
          TLSAddrs,     \* the byte addresses of the thread-local variables
          PtrBytes,     \* bytes of a pointer
          MaxAccesses   \* bound on the number of thread-local accesses

NoInstr == [cls |-> "none"]
Nothing == <<>>             \* no value yet; a value v is kept as <<v>>

VARIABLES instr, value, folded,
          tls,          \* address -> GenericValue: IntVal (width w, bits v) and PointerVal p
          mem,          \* history: the bytes a memory would hold after the same stores
          writer,       \* history: the kind and start of the last store to each byte
          loaded,       \* history: what the last load got, and what its bytes held
          accesses

evalVars == <<instr, value, folded>>
tlsVars  == <<tls, mem, writer, loaded, accesses>>
vars     == <<instr, value, folded, tls, mem, writer, loaded, accesses>>

-----------------------------------------------------------------------------
\* The visit method of an instruction.
Visit(i) ==
    CASE i.cls = "ICmp"    -> visitICmpInst(i.op, i.a, i.b, i.ty)
      [] i.cls = "FCmp"    -> visitFCmpInst(i.op, i.a, i.b, i.ty)
      [] i.cls = "Binary"  -> visitBinaryOperator(i.op, i.a, i.b, i.ty)
      [] i.cls = "Shift"   -> visitShift(i.op, i.a, i.b, i.ty)
      [] i.cls = "Cast"    -> executeCast(i.op, i.a, i.src, i.ty)
      [] i.cls = "Select"  -> executeSelectInst(i.cond, i.a, i.b, i.condTy)
      [] i.cls = "Element" -> visitExtractElementInst(
                                  visitInsertElementInst(i.a, i.b, i.at), i.idx)
      [] i.cls = "Shuffle" -> visitShuffleVectorInst(i.a, i.b, i.mask)
      [] i.cls = "Value"   -> visitExtractValueInst(
                                  visitInsertValueInst(i.a, i.b, i.at), i.path)
      [] i.cls = "GEP"     -> executeGEPOperation(i.base, i.steps)
      [] i.cls = "RMW"     -> executeAtomicRMWOperation(i.a, i.b, i.bits, i.op)

\* The operations getConstantExprValue knows; those of APInts have scalar operands.
IsConstantExpr(i) ==
    /\ i.cls \notin {"Element", "Shuffle", "Value", "RMW"}
    /\ i.cls \in {"Binary", "Shift"} => ~Lanes(i.ty)

Evaluate ==
    /\ instr # NoInstr /\ value = Nothing
    /\ value' = <<Visit(instr)>>
    /\ folded' = IF IsConstantExpr(instr) THEN <<getConstantExprValue(instr)>> ELSE Nothing
    /\ UNCHANGED <<instr, tlsVars>>

-----------------------------------------------------------------------------
(* Thread-local accesses.  An access is [kind, addr, bytes]: kind "int" of    *)
(* so many bytes, or "ptr".                                                   *)

ByteEntry(v) == [w |-> ByteWidth, v |-> v, p |-> 0]
PtrEntry(p)  == [w |-> 1, v |-> 0, p |-> p]

Covered(acc) == acc.addr .. acc.addr + acc.bytes - 1
Accesses == {acc \in [kind : {"int"}, addr : TLSAddrs, bytes : {1, 2}]
                     \cup [kind : {"ptr"}, addr : TLSAddrs, bytes : {PtrBytes}] :
                 Covered(acc) \subseteq TLSAddrs}

ByteOf(val, j) == (val \div 2 ^ (ByteWidth * j)) % 2 ^ ByteWidth

RECURSIVE FromBytes(_, _, _)
FromBytes(bytes, first, n) ==
    IF n = 0 THEN 0 ELSE bytes[first] + 2 ^ ByteWidth * FromBytes(bytes, first + 1, n - 1)

\* Seeded fault: an integer is kept whole, in the entry of its first byte.
FaultStoreTLSValue(t, acc, val) ==
    [t EXCEPT ![acc.addr] = IF acc.kind = "int"
                            THEN [w |-> ByteWidth * acc.bytes, v |-> val, p |-> 0]
                            ELSE PtrEntry(val)]

\* Integers of at least a byte are split into byte entries, anything else is one entry.
storeTLSValue(t, acc, val) ==
    IF acc.kind = "int"
    THEN [a \in DOMAIN t |-> IF a \in Covered(acc) THEN ByteEntry(ByteOf(val, a - acc.addr))
                             ELSE t[a]]
    ELSE [t EXCEPT ![acc.addr] = PtrEntry(val)]

\* The value of a thread-local load: rebuilt from the byte entries when the entry is
\* narrower than the integer, or is a byte where a pointer is expected.
TLSValue(t, acc) ==
    LET entry == t[acc.addr]
        bytes == FromBytes([a \in DOMAIN t |-> t[a].v], acc.addr, acc.bytes)
    IN  IF acc.kind = "int"
        THEN IF entry.w < ByteWidth * acc.bytes THEN bytes ELSE entry.v
        ELSE IF entry.w = ByteWidth THEN bytes ELSE entry.p

\* The reference: bytes written in place, and who wrote them.
MemValue(acc) == FromBytes(mem, acc.addr, acc.bytes)
MemStore(acc, val) ==
    /\ mem' = [a \in TLSAddrs |-> IF a \in Covered(acc) THEN ByteOf(val, a - acc.addr) ELSE mem[a]]
    /\ writer' = [a \in TLSAddrs |->
                     IF a \in Covered(acc)
                     THEN [kind |-> acc.kind, at |-> IF acc.kind = "ptr" THEN acc.addr ELSE 0]
                     ELSE writer[a]]

\* Whether the bytes of an access were all stored by integers, or by one pointer at its
\* address that the access reads as a pointer.
SameKind(acc) ==
    /\ \A a, b \in Covered(acc) : writer[a] = writer[b]
    /\ writer[acc.addr].kind = "ptr" => acc.kind = "ptr" /\ writer[acc.addr].at = acc.addr

Seen(acc) == [got |-> TLSValue(tls, acc), want |-> MemValue(acc), sameKind |-> SameKind(acc)]

Values(acc) == {0, 1, 2 ^ (ByteWidth * acc.bytes) - 2}

Running == instr = NoInstr /\ accesses < MaxAccesses
Count == accesses' = accesses + 1

\* visitLoadInst, thread-local branch.
Load(acc) ==
    /\ Running /\ Count
    /\ loaded' = Seen(acc)
    /\ UNCHANGED <<evalVars, tls, mem, writer>>

\* visitStoreInst, thread-local branch.
Store(acc, val) ==
    /\ Running /\ Count
    /\ tls' = storeTLSValue(tls, acc, val)
    /\ MemStore(acc, val)
    /\ UNCHANGED <<evalVars, loaded>>

\* visitAtomicRMWInst, thread-local branch (a fetch-add stands for the operations).
FetchAdd(acc, val) ==
    LET bits == ByteWidth * acc.bytes
        old  == TLSValue(tls, acc)
        new  == getSizedValAtOffset(executeAtomicRMWOperation(old, val, bits, "Add"), 0, bits)
    IN  /\ Running /\ Count
        /\ acc.kind = "int"
        /\ tls' = storeTLSValue(tls, acc, new)
        /\ MemStore(acc, (old + val) % 2 ^ bits)
        /\ loaded' = Seen(acc)
        /\ UNCHANGED evalVars

\* visitAtomicCmpXchgInst, thread-local branch.
CmpXchg(acc, expected, val) ==
    LET old == TLSValue(tls, acc)
    IN  /\ Running /\ Count
        /\ \/ /\ old = expected
              /\ tls' = storeTLSValue(tls, acc, val)
              /\ MemStore(acc, val)
           \/ /\ old # expected
              /\ UNCHANGED <<tls, mem, writer>>
        /\ loaded' = Seen(acc)
        /\ UNCHANGED evalVars

-----------------------------------------------------------------------------
NoLoad == [got |-> 0, want |-> 0, sameKind |-> TRUE]

\* Thread-local variables start from the bytes of their initialisers.
Init ==
    /\ instr \in Instrs \cup {NoInstr}
    /\ value = Nothing /\ folded = Nothing
    /\ tls = [a \in TLSAddrs |-> ByteEntry(0)]
    /\ mem = [a \in TLSAddrs |-> 0]
    /\ writer = [a \in TLSAddrs |-> [kind |-> "int", at |-> 0]]
    /\ loaded = NoLoad
    /\ accesses = 0

TLSAccess == \E acc \in Accesses : \/ Load(acc)
                                   \/ \E v \in Values(acc) :
                                          \/ Store(acc, v)
                                          \/ FetchAdd(acc, v)
                                          \/ \E e \in Values(acc) : CmpXchg(acc, e, v)

Done == /\ IF instr = NoInstr THEN accesses = MaxAccesses ELSE value # Nothing
        /\ UNCHANGED vars

Next == Evaluate \/ TLSAccess \/ Done

Spec == Init /\ [][Next]_vars

-----------------------------------------------------------------------------
(* Properties.                                                                *)

Result == value[1]
Evaluated(cls) == instr.cls = cls /\ value # Nothing

(* What LLVM's language reference says of an operation, stated by bits, by       *)
(* congruence and by nearness rather than by the functions above: op on lanes x   *)
(* and y may yield r.  Where the reference gives no meaning, any r will do.       *)
BitAt(x, n) == (x \div 2 ^ n) % 2
Number(x, w) == x - 2 ^ w * BitAt(x, w - 1)      \* the number x denotes in two's complement
InRange(x, w) == x \in - (2 ^ (w - 1)) .. 2 ^ (w - 1) - 1
Bitwise1(Rel(_, _), x, y, r, w) ==
    \A n \in 0 .. w - 1 : (BitAt(r, n) = 1) = Rel(BitAt(x, n) = 1, BitAt(y, n) = 1)

\* q and r are quotient and remainder of n by d, the remainder with the sign of n.
Divides(n, d, q, r) == /\ n = q * d + r
                       /\ r * r < d * d
                       /\ r # 0 => (r < 0) = (n < 0)

ICmpMeaning(pred, x, y, w) ==
    LET m == Number(x, w)  n == Number(y, w)
    IN  CASE pred = "ICMP_EQ" -> m = n [] pred = "ICMP_NE" -> m # n
          [] pred = "ICMP_SLT" -> m < n [] pred = "ICMP_SGT" -> m > n
          [] pred = "ICMP_SLE" -> m <= n [] pred = "ICMP_SGE" -> m >= n
          [] OTHER ->   \* unsigned: the highest bit in which they differ decides
               LET differ == {k \in 0 .. w - 1 : BitAt(x, k) # BitAt(y, k)}
                   below  == \E k \in differ : BitAt(x, k) = 0 /\ \A l \in differ : l <= k
               IN  CASE pred = "ICMP_ULT" -> below
                     [] pred = "ICMP_UGE" -> ~below
                     [] pred = "ICMP_ULE" -> below \/ differ = {}
                     [] pred = "ICMP_UGT" -> ~below /\ differ # {}

\* A predicate is a set of outcomes: less, equal, greater, and unordered (a NaN).
FCmpMeaning(pred, x, y) ==
    LET outcome == IF x = NaN \/ y = NaN THEN "un"
                   ELSE IF x < y THEN "lt" ELSE IF x = y THEN "eq" ELSE "gt"
    IN  outcome \in CASE pred = "FCMP_FALSE" -> {}
                      [] pred = "FCMP_OEQ" -> {"eq"}       [] pred = "FCMP_OGT" -> {"gt"}
                      [] pred = "FCMP_OGE" -> {"gt", "eq"} [] pred = "FCMP_OLT" -> {"lt"}
                      [] pred = "FCMP_OLE" -> {"lt", "eq"} [] pred = "FCMP_ONE" -> {"lt", "gt"}
                      [] pred = "FCMP_ORD" -> {"lt", "eq", "gt"}
                      [] pred = "FCMP_UNO" -> {"un"}
                      [] pred = "FCMP_UEQ" -> {"eq", "un"} [] pred = "FCMP_UGT" -> {"gt", "un"}
                      [] pred = "FCMP_UGE" -> {"gt", "eq", "un"}
                      [] pred = "FCMP_ULT" -> {"lt", "un"}
                      [] pred = "FCMP_ULE" -> {"lt", "eq", "un"}
                      [] pred = "FCMP_UNE" -> {"lt", "gt", "un"}
                      [] pred = "FCMP_TRUE" -> {"lt", "eq", "gt", "un"}

IntMeaning(op, x, y, r, w) ==
    LET Congruent(m) == r \in 0 .. 2 ^ w - 1 /\ (r - m) % 2 ^ w = 0
        m == Number(x, w)  n == Number(y, w)
    IN  CASE op = "Add" -> Congruent(x + y)
          [] op = "Sub" -> Congruent(x - y)
          [] op = "Mul" -> Congruent(m * n)
          [] op = "UDiv" -> \E rem \in 0 .. x : Divides(x, y, r, rem)
          [] op = "URem" -> \E q \in 0 .. x : Divides(x, y, q, r)
          [] op = "SDiv" -> ~(n = -1 /\ ~InRange(-m, w)) =>
                                \E rem \in -Magnitude(n) .. Magnitude(n) : Divides(m, n, Number(r, w), rem)
          [] op = "SRem" -> ~(n = -1 /\ ~InRange(-m, w)) =>
                                \E q \in -Magnitude(m) .. Magnitude(m) : Divides(m, n, q, Number(r, w))
          [] op = "And" -> Bitwise1(LAMBDA p, q : p /\ q, x, y, r, w)
          [] op = "Or"  -> Bitwise1(LAMBDA p, q : p \/ q, x, y, r, w)
          [] op = "Xor" -> Bitwise1(LAMBDA p, q : p # q, x, y, r, w)

\* r is the value of type ty nearest to v, the even one of two equally near.
Nearest(v, r, ty) ==
    IF LaneType(ty).id = "Double" THEN r = v
    ELSE r % 2 = 0 /\ r - v \in {-1, 0, 1} /\ (r # v => r % 4 = 0)

FloatMeaning(op, x, y, r, ty) ==
    IF x = NaN \/ y = NaN \/ (op = "FRem" /\ y = 0) THEN r = NaN
    ELSE CASE op = "FAdd" -> Nearest(x + y, r, ty)
           [] op = "FSub" -> Nearest(x - y, r, ty)
           [] op = "FMul" -> Nearest(x * y, r, ty)
           [] op = "FRem" -> \E q \in -Magnitude(x) .. Magnitude(x) : Divides(x, y, q, r)

ShiftMeaning(op, x, k, r, w) ==
    k < w => \A n \in 0 .. w - 1 :
                BitAt(r, n) = CASE op = "Shl"  -> IF n >= k THEN BitAt(x, n - k) ELSE 0
                                [] op = "LShr" -> IF n + k < w THEN BitAt(x, n + k) ELSE 0
                                [] op = "AShr" -> BitAt(x, IF n + k < w THEN n + k ELSE w - 1)

\* The bits of a value of type ty, lowest first.
Bits(x, ty) ==
    LET v == IF Lanes(ty) THEN x ELSE <<x>>
        w == LaneWidth(ty)
    IN  [n \in 0 .. Len(v) * w - 1 |-> BitAt(v[n \div w + 1], n % w)]

CastMeaning(op, x, r, src, dst) ==
    LET from == LaneWidth(src)  to == LaneWidth(dst)
    IN  CASE op \in {"Trunc", "ZExt", "PtrToInt", "IntToPtr"} ->
                 /\ r \in 0 .. 2 ^ to - 1
                 /\ \A n \in 0 .. to - 1 : BitAt(r, n) = IF n < from THEN BitAt(x, n) ELSE 0
          [] op = "SExt"    -> Number(r, to) = Number(x, from)
          [] op = "FPTrunc" -> IF x = NaN THEN r = NaN ELSE Nearest(x, r, dst)
          [] op = "FPExt"   -> r = x
          [] op = "FPToUI"  -> x \in 0 .. 2 ^ to - 1 => r = x
          [] op = "FPToSI"  -> x # NaN /\ InRange(x, to) => Number(r, to) = x
          [] op = "UIToFP"  -> Nearest(x, r, dst)
          [] op = "SIToFP"  -> Nearest(Number(x, from), r, dst)

\* Bytes a step of getelementptr moves the address by.
Displacement(step) == IF step.kind = "field" THEN step.offset ELSE Number(step.idx, step.w) * step.size

RMWMeaning(op, x, y, r, w) ==
    CASE op = "Xchg" -> r = y
      [] op = "Nand" -> Bitwise1(LAMBDA p, q : ~(p /\ q), x, y, r, w)
      [] op \in {"Max", "Min"} -> /\ r \in {x, y}
                                 /\ \A z \in {x, y} : IF op = "Max" THEN Number(r, w) >= Number(z, w)
                                                       ELSE Number(r, w) <= Number(z, w)
      [] op \in {"UMax", "UMin"} -> /\ r \in {x, y}
                                   /\ \A z \in {x, y} : IF op = "UMax" THEN r >= z ELSE r <= z
      [] OTHER -> IntMeaning(op, x, y, r, w)

LaneByLane(P(_, _, _), a, b, r, ty) ==
    IF Lanes(ty) THEN DOMAIN r = DOMAIN a /\ \A k \in DOMAIN a : P(a[k], b[k], r[k]) ELSE P(a, b, r)

\* r is a value LLVM allows for instruction i.
Meaning(i, r) ==
    CASE i.cls = "ICmp" ->
           LaneByLane(LAMBDA x, y, z : z = Bit(ICmpMeaning(i.op, x, y, LaneWidth(i.ty))),
                      i.a, i.b, r, i.ty)
      [] i.cls = "FCmp" -> LaneByLane(LAMBDA x, y, z : z = Bit(FCmpMeaning(i.op, x, y)), i.a, i.b, r, i.ty)
      [] i.cls = "Binary" /\ LaneType(i.ty).id = "Integer" ->
           LaneByLane(LAMBDA x, y, z : IntMeaning(i.op, x, y, z, LaneWidth(i.ty)), i.a, i.b, r, i.ty)
      [] i.cls = "Binary" /\ LaneType(i.ty).id # "Integer" ->
           LaneByLane(LAMBDA x, y, z : FloatMeaning(i.op, x, y, z, i.ty), i.a, i.b, r, i.ty)
      [] i.cls = "Shift" ->
           LaneByLane(LAMBDA x, y, z : ShiftMeaning(i.op, x, y, z, LaneWidth(i.ty)), i.a, i.b, r, i.ty)
      [] i.cls = "Cast" /\ i.op = "BitCast" -> Bits(r, i.ty) = Bits(i.a, i.src)
      [] i.cls = "Cast" /\ i.op # "BitCast" ->
           LaneByLane(LAMBDA x, y, z : CastMeaning(i.op, x, z, i.src, i.ty), i.a, i.a, r, i.src)
      [] i.cls = "Select" ->
           IF Lanes(i.condTy)
           THEN \A k \in DOMAIN i.cond : r[k] = <<i.b, i.a>>[i.cond[k] + 1][k]
           ELSE r = <<i.b, i.a>>[i.cond + 1]
      [] i.cls = "Element" -> r = IF i.idx = i.at THEN i.b ELSE i.a[i.idx + 1]
      [] i.cls = "Shuffle" -> /\ DOMAIN r = DOMAIN i.mask
                              /\ \A k \in DOMAIN r : r[k] = (i.a \o i.b)[i.mask[k] + 1]
      [] i.cls = "Value" -> r = IF i.path = i.at THEN i.b ELSE visitExtractValueInst(i.a, i.path)
      [] i.cls = "GEP" -> /\ r \in 0 .. 2 ^ PtrWidth - 1
                          /\ (r - i.base - MapThenSumSet(LAMBDA k : Displacement(i.steps[k]),
                                                         DOMAIN i.steps)) % 2 ^ PtrWidth = 0
      [] i.cls = "RMW" -> RMWMeaning(i.op, i.a, i.b, getSizedValAtOffset(r, 0, i.bits), i.bits)

\* Where LLVM gives a shift no meaning, an instruction on integers whose width is a power
\* of two shifts by the amount modulo the width (getShiftAmount: "we do shift by this
\* rule"), so that APInt is never asked to shift out more bits than there are.
ShiftsByRule ==
    (Evaluated("Shift") /\ \E k \in 0 .. LaneWidth(instr.ty) : LaneWidth(instr.ty) = 2 ^ k) =>
        LaneByLane(LAMBDA x, y, z : ShiftMeaning(instr.op, x, y % LaneWidth(instr.ty), z,
                                                 LaneWidth(instr.ty)),
                   instr.a, instr.b, Result, instr.ty)

\* The visit methods compute a value LLVM allows: integer and floating-point comparisons
\* and arithmetic, shifts, casts and selections on scalars and lane by lane on vectors
\* (the NaN masks on the right lanes, with the right polarity), shuffled and inserted
\* elements, addresses of getelementptr, and read-modify-writes, whose 64-bit result is
\* read back at the size of the access.
ValuesExact == (value # Nothing => Meaning(instr, Result)) /\ ShiftsByRule

\* A constant expression has a value LLVM allows for its operation, although
\* getConstantExprValue and executeCmpInst list the operations in switches of their own
\* and shift without getShiftAmount; so it equals what the instruction would compute
\* wherever LLVM leaves one value.
FoldingExact == folded # Nothing => Meaning(instr, folded[1])

\* A thread-local load sees the last stores to its bytes, whatever the widths and overlaps
\* of the integers stored there; a pointer is seen by a pointer load of the same address.
TLSCoherent == loaded.sameKind => loaded.got = loaded.want
=============================================================================
