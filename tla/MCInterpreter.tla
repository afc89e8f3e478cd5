--------------------------- MODULE MCInterpreter ---------------------------
(***************************************************************************)
(* Instructions for the interpreter: every operation on every operand of   *)
(* small types.  Integers have up to four bits, vectors two lanes, doubles *)
(* range over a few grid points and NaN.                                   *)
(***************************************************************************)
EXTENDS Interpreter

I(n) == [id |-> "Integer", w |-> n]
Vec(el) == [id |-> "Vector", el |-> el]
Flt == [id |-> "Float"]
Dbl == [id |-> "Double"]
Ptr == [id |-> "Pointer"]

Nums(n) == 0 .. 2 ^ n - 1
Floats == {NaN, -2, 0, 2}
Doubles == {NaN, -1, 0, 1, 3}
Pairs(S) == {<<x, y>> : x, y \in S}

Unsigned == {"ICMP_EQ", "ICMP_NE", "ICMP_ULT", "ICMP_UGT", "ICMP_ULE", "ICMP_UGE"}
ICmpPreds == Unsigned \cup {"ICMP_SLT", "ICMP_SGT", "ICMP_SLE", "ICMP_SGE"}
FCmpPreds == {"FCMP_FALSE", "FCMP_TRUE", "FCMP_ORD", "FCMP_UNO", "FCMP_UEQ", "FCMP_OEQ",
              "FCMP_UNE", "FCMP_ONE", "FCMP_ULT", "FCMP_OLT", "FCMP_UGT", "FCMP_OGT",
              "FCMP_ULE", "FCMP_OLE", "FCMP_UGE", "FCMP_OGE"}
RMWOps == {"Xchg", "Add", "Sub", "And", "Nand", "Or", "Xor", "Max", "Min", "UMax", "UMin"}
Binary(ops, ty, A, B) == [cls : {"Binary"}, op : ops, ty : {ty}, a : A, b : B]
Casts(op, src, dst, A) == [cls : {"Cast"}, op : {op}, src : {src}, ty : {dst}, a : A]

ICmps == [cls : {"ICmp"}, op : ICmpPreds, ty : {I(3)}, a : Nums(3), b : Nums(3)]
         \cup [cls : {"ICmp"}, op : ICmpPreds, ty : {Vec(I(2))}, a : Pairs({0, 3}), b : Pairs({1, 3})]
         \cup [cls : {"ICmp"}, op : Unsigned, ty : {Ptr}, a : {0, 7, 8}, b : {7, 8, 15}]
FCmps == [cls : {"FCmp"}, op : FCmpPreds, ty : {Dbl}, a : Doubles, b : Doubles]
         \cup [cls : {"FCmp"}, op : FCmpPreds, ty : {Vec(Flt)}, a : Pairs({NaN, 0, 2}), b : Pairs({NaN, 2})]
Binaries == Binary({"Add", "Sub", "Mul", "And", "Or", "Xor"}, I(3), Nums(3), Nums(3))
            \cup Binary({"UDiv", "SDiv", "URem", "SRem"}, I(3), Nums(3), Nums(3) \ {0})
            \cup Binary({"Sub", "Mul", "SDiv", "Xor"}, Vec(I(2)), Pairs({1, 3}), Pairs({1, 2, 3}))
            \cup Binary({"FAdd", "FSub", "FMul", "FRem"}, Flt, Floats, Floats)
            \cup Binary({"FAdd", "FSub", "FMul", "FRem"}, Dbl, Doubles, Doubles)
            \cup Binary({"FAdd", "FRem"}, Vec(Flt), Pairs({NaN, 2, 6}), Pairs({NaN, -4}))
Shifts == [cls : {"Shift"}, op : {"Shl", "LShr", "AShr"}, ty : {I(3), I(4)}, a : Nums(3), b : Nums(3)]
          \cup [cls : {"Shift"}, op : {"Shl", "LShr", "AShr"}, ty : {Vec(I(2))},
                a : Pairs({1, 2}), b : Pairs(Nums(2))]
AllCasts ==
    Casts("Trunc", I(4), I(2), Nums(4)) \cup Casts("SExt", I(2), I(4), Nums(2))
    \cup Casts("ZExt", I(2), I(4), Nums(2)) \cup Casts("FPTrunc", Dbl, Flt, Doubles)
    \cup Casts("FPExt", Flt, Dbl, Floats) \cup Casts("SIToFP", I(3), Dbl, Nums(3))
    \cup Casts("UIToFP", I(3), Dbl, Nums(3)) \cup Casts("UIToFP", I(3), Flt, Nums(3))
    \cup Casts("SIToFP", I(3), Flt, Nums(3)) \cup Casts("Trunc", Vec(I(4)), Vec(I(2)), Pairs({5, 10}))
    \cup Casts("SExt", Vec(I(2)), Vec(I(4)), Pairs({1, 2})) \cup Casts("PtrToInt", Ptr, I(5), Nums(4))
    \cup Casts("FPToUI", Dbl, I(3), Doubles \ {NaN, -1}) \cup Casts("FPToSI", Dbl, I(3), Doubles \ {NaN})
    \cup Casts("PtrToInt", Ptr, I(2), Nums(4))
    \cup Casts("IntToPtr", I(2), Ptr, Nums(2))
    \cup Casts("BitCast", Vec(I(2)), I(4), Pairs(Nums(2)))
    \cup Casts("BitCast", I(4), Vec(I(2)), Nums(4))
    \cup Casts("BitCast", Vec(I(2)), Vec(I(1)), Pairs(Nums(2)))
    \cup Casts("BitCast", Vec(I(1)), Vec(I(2)), {<<x, y, z, t>> : x, y, z, t \in Nums(1)})
    \cup Casts("BitCast", Vec(I(2)), Vec(I(2)), Pairs(Nums(2)))
Selects == [cls : {"Select"}, op : {"Select"}, cond : {0, 1}, condTy : {I(1)}, a : {1}, b : {3}]
           \cup [cls : {"Select"}, op : {"Select"}, cond : Pairs({0, 1}), condTy : {Vec(I(1))}, a : {<<1, 2>>}, b : {<<3, 4>>}]
Elements == [cls : {"Element"}, a : {<<5, 6, 7>>}, b : {9}, at : 0..2, idx : 0..2]
Shuffles == [cls : {"Shuffle"}, a : {<<1, 2>>}, b : {<<3, 4>>}, mask : Pairs(0..3)]
Nested == <<1, <<2, 3>>, <<4, <<5, 6>>>>>>
Paths == {<<0>>, <<1, 0>>, <<1, 1>>, <<2, 0>>, <<2, 1, 0>>, <<2, 1, 1>>}
Aggregates == [cls : {"Value"}, a : {Nested}, b : {9}, at : Paths, path : Paths]
GEPs == [cls : {"GEP"}, op : {"GetElementPtr"}, base : {4},
         steps : {<<[kind |-> "index", idx |-> i, w |-> 2, size |-> 3], [kind |-> "field", offset |-> o]>> :
                      i \in Nums(2), o \in {0, 1}}]
RMWs == [cls : {"RMW"}, op : RMWOps, bits : {2}, a : Nums(2), b : Nums(2)]

MCInstrs == ICmps \cup FCmps \cup Binaries \cup Shifts \cup AllCasts \cup Selects
            \cup Elements \cup Shuffles \cup Aggregates \cup GEPs \cup RMWs
=============================================================================
