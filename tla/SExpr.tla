------------------------------- MODULE SExpr -------------------------------
(***************************************************************************)
(* The symbolic expressions of load annotations (SExpr.hpp) and their      *)
(* visitors (SExprVisitor.hpp/.tcc).  A node has a kind, the value of a    *)
(* constant, the name of a register and a sequence of kids.  The width of  *)
(* a node is left out: no visitor but the printer reads it, so every       *)
(* operation of the evaluator is one on SVals of PtrWidth bits.            *)
(***************************************************************************)
EXTENDS InterpreterValues

CONSTANT NoReg            \* the register field of a node that is not a register

LogicalKinds == {"Conjunction", "Disjunction", "Not"}
CastKinds    == {"ZExt", "SExt", "Trunc"}
ArithKinds   == {"Add", "Sub", "Mul", "UDiv", "SDiv", "URem", "SRem",
                 "And", "Or", "Xor", "Shl", "LShr", "AShr"}
CmpKinds     == {"Eq", "Ne", "Ult", "Ule", "Ugt", "Uge", "Slt", "Sle", "Sgt", "Sge"}
Kinds        == {"Concrete", "Register", "Select"}
                    \cup LogicalKinds \cup CastKinds \cup ArithKinds \cup CmpKinds

Node(kind, val, reg, kids) == [kind |-> kind, val |-> val, reg |-> reg, kids |-> kids]

Concrete(v)     == Node("Concrete", v, NoReg, <<>>)
createTrue      == Concrete(1)
createFalse     == Concrete(0)
Register(r)     == Node("Register", 0, r, <<>>)
Select(c, t, f) == Node("Select", 0, NoReg, <<c, t, f>>)
Logical(k, es)  == Node(k, 0, NoReg, es)
Cast(k, e)      == Node(k, 0, NoReg, <<e>>)
Binary(k, l, r) == Node(k, 0, NoReg, <<l, r>>)
Cmp(k, l, r)    == Node(k, 0, NoReg, <<l, r>>)

\* The kids of e that are registers or hold one: the symbolic variables of an expression.
RECURSIVE Registers(_)
Registers(e) ==
    IF e.kind = "Register" THEN {e.reg}
    ELSE UNION {Registers(e.kids[i]) : i \in DOMAIN e.kids}

-----------------------------------------------------------------------------
(* SExprEvaluator.  A brute-force evaluation gives every register the same   *)
(* value; the other one looks registers up in a map and gives 42 to the ones *)
(* it does not know.  Both are an environment here: what a register is worth. *)

BruteForce(v)  == [brute |-> TRUE, val |-> v, map |-> [r \in {} |-> 0]]
Mapping(m)     == [brute |-> FALSE, val |-> 0, map |-> m]
hasKnownMapping(env, r) == r \in DOMAIN env.map
getMappingFor(env, r)   == IF hasKnownMapping(env, r) THEN env.map[r] ELSE Wrap(42, PtrWidth)

evalRegister(env, r) == IF env.brute THEN env.val ELSE getMappingFor(env, r)

\* visitAddExpr .. visitAShrExpr: the operators of SVal, which are those of uint64_t.  The
\* remainders divide, and the signed division and right shift are the unsigned ones.
evalArith(k, x, y) ==
    CASE k = "Add" -> Wrap(x + y, PtrWidth)
      [] k = "Sub" -> Wrap(x - y, PtrWidth)
      [] k = "Mul" -> Wrap(x * y, PtrWidth)
      [] k \in {"UDiv", "SDiv", "URem", "SRem"} -> x \div y
      [] k = "And" -> x & y
      [] k = "Or"  -> x | y
      [] k = "Xor" -> x ^^ y
      [] k = "Shl" -> Shl(x, y, PtrWidth)
      [] k \in {"LShr", "AShr"} -> LShr(x, y, PtrWidth)

\* visitEqExpr .. visitSgeExpr: SVal::compare and compareSigned.
evalCmp(k, x, y) ==
    CASE k = "Eq" -> x = y
      [] k = "Ne" -> x # y
      [] k = "Ult" -> x < y
      [] k = "Ule" -> x <= y
      [] k = "Ugt" -> x > y
      [] k = "Uge" -> x >= y
      [] k = "Slt" -> Signed(x, PtrWidth) < Signed(y, PtrWidth)
      [] k = "Sle" -> Signed(x, PtrWidth) <= Signed(y, PtrWidth)
      [] k = "Sgt" -> Signed(x, PtrWidth) > Signed(y, PtrWidth)
      [] k = "Sge" -> Signed(x, PtrWidth) >= Signed(y, PtrWidth)

RECURSIVE visit(_, _)

evalSelect(env, e) ==
    IF visit(env, e.kids[1]) # 0 THEN visit(env, e.kids[2]) ELSE visit(env, e.kids[3])

evalLogical(env, e) ==
    Bit(IF e.kind = "Conjunction" THEN \A i \in DOMAIN e.kids : visit(env, e.kids[i]) # 0
        ELSE \E i \in DOMAIN e.kids : visit(env, e.kids[i]) # 0)

\* A cast is its operand ("No special care taken using SVals").
evalCast(env, e) == visit(env, e.kids[1])

\* A negation tests the pointer to its operand, which is never null.
evalNot == 0

\* The dispatch on the kind.
visit(env, e) ==
    CASE e.kind = "Concrete" -> e.val
      [] e.kind = "Register" -> evalRegister(env, e.reg)
      [] e.kind = "Select" -> evalSelect(env, e)
      [] e.kind \in {"Conjunction", "Disjunction"} -> evalLogical(env, e)
      [] e.kind = "Not" -> evalNot
      [] e.kind \in CastKinds -> evalCast(env, e)
      [] e.kind \in ArithKinds -> evalArith(e.kind, visit(env, e.kids[1]), visit(env, e.kids[2]))
      [] e.kind \in CmpKinds -> Bit(evalCmp(e.kind, visit(env, e.kids[1]), visit(env, e.kids[2])))

\* The kids an evaluation looks at: one branch of a select, none under a negation, and those
\* of a conjunction or disjunction until its value is known.
Visited(env, e) ==
    CASE e.kind = "Select" -> {1, IF visit(env, e.kids[1]) # 0 THEN 2 ELSE 3}
      [] e.kind = "Not" -> {}
      [] e.kind = "Conjunction" ->
            {i \in DOMAIN e.kids : \A j \in 1..i-1 : visit(env, e.kids[j]) # 0}
      [] e.kind = "Disjunction" ->
            {i \in DOMAIN e.kids : \A j \in 1..i-1 : visit(env, e.kids[j]) = 0}
      [] OTHER -> DOMAIN e.kids

\* The set unknown: the registers looked at that have no mapping.
RECURSIVE unknown(_, _)
unknown(env, e) ==
    IF e.kind = "Register" THEN (IF env.brute \/ hasKnownMapping(env, e.reg) THEN {} ELSE {e.reg})
    ELSE UNION {unknown(env, e.kids[i]) : i \in Visited(env, e)}

evaluate(e, v)    == visit(BruteForce(v), e)
evaluateMap(e, m) == [res |-> visit(Mapping(m), e), unknown |-> unknown(Mapping(m), e)]

-----------------------------------------------------------------------------
(* The visitors that build a new expression.                                 *)

\* SExprRegSubstitutor: every occurrence of a register becomes an expression.
RECURSIVE substitute(_, _, _)
substitute(e, r, by) ==
    IF e.kind = "Register" THEN (IF e.reg = r THEN by ELSE e)
    ELSE [e EXCEPT !.kids = [i \in DOMAIN @ |-> substitute(@[i], r, by)]]

\* SExprConcretizer: the registers with a value become constants.
RECURSIVE concretize(_, _)
concretize(e, values) ==
    IF e.kind = "Register" THEN (IF e.reg \in DOMAIN values THEN Concrete(values[e.reg]) ELSE e)
    ELSE [e EXCEPT !.kids = [i \in DOMAIN @ |-> concretize(@[i], values)]]

\* SExprTransformer: the same expression over value ids, which name the registers one to one
\* and are kept as they are here.  A cast becomes its operand.
TransformNode(e, kids) == [e EXCEPT !.kids = kids]
TransformCast(kids) == kids[1]

RECURSIVE transformed(_)
transformed(e) ==
    IF e.kind \in CastKinds THEN TransformCast([i \in DOMAIN e.kids |-> transformed(e.kids[i])])
    ELSE TransformNode(e, [i \in DOMAIN e.kids |-> transformed(e.kids[i])])
=============================================================================
