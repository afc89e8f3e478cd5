-------------------------- MODULE MCLoadAnnotation --------------------------
(***************************************************************************)
(* The functions the load annotation passes are run on.  SVals have three  *)
(* bits, narrow integers two.  The assumes of these functions use the      *)
(* operations the evaluator computes as the interpreter does: unsigned     *)
(* comparisons, bit operations, widening and arithmetic at the full width. *)
(***************************************************************************)
EXTENDS LoadAnnotation

R(r) == [c |-> "reg", r |-> r, v |-> 0]
N(v) == [c |-> "int", r |-> NoReg, v |-> v]
Null == [c |-> "null", r |-> NoReg, v |-> 0]

NoIn == [b \in {} |-> N(0)]
Inst(op, res, args, w, src) ==
    [op |-> op, res |-> res, args |-> args, w |-> w, src |-> src, to |-> <<>>, in |-> NoIn, idx |-> 0,
     var |-> "none", ord |-> "NotAtomic", bop |-> "none"]
Access(i, var, ord)  == [i EXCEPT !.var = var, !.ord = ord]
LoadOf(r, v, w)      == Access(Inst("load", r, <<>>, w, w), v, "Acquire")
Load(r, w)           == LoadOf(r, "y", w)
CasOf(r, v, cmp)     == Access(Inst("cas", r, <<cmp, N(1)>>, 2, 2), v, "Acquire")
Cas(r, w, cmp)       == CasOf(r, "x", cmp)
Rmw(r, v, bop, c)    == [Access(Inst("rmw", r, <<N(c)>>, 2, 2), v, "Monotonic") EXCEPT !.bop = bop]
Store(v, ord)        == Access(Inst("store", NoReg, <<>>, 2, 2), v, ord)
Alloca(v)            == Access(Inst("alloca", NoReg, <<>>, 2, 2), v, "NotAtomic")
LocalStore(v)        == Access(Inst("localstore", NoReg, <<>>, 2, 2), v, "NotAtomic")
Lock(m)              == Access(Inst("lock", NoReg, <<>>, 2, 2), m, "Acquire")
Unlock(m)            == Access(Inst("unlock", NoReg, <<>>, 2, 2), m, "Release")
Success(r, k, cmp)   == [Inst("extract", r, <<R(k), cmp>>, 1, 2) EXCEPT !.idx = 1]
ValueRead(r, k, cmp) == Inst("extract", r, <<R(k), cmp>>, 2, 2)
Bin(op, r, a, b, w)  == Inst(op, r, <<a, b>>, w, w)
ICmp(op, r, a, b, w) == Inst(op, r, <<a, b>>, 1, w)
Conv(op, r, a, w, s) == Inst(op, r, <<a>>, w, s)
Sel(r, c, a, b, w)   == Inst("Select", r, <<c, a, b>>, w, 1)
Assume(a)            == Inst("assume", NoReg, <<a>>, 1, 1)
Kill(a)              == Inst("kill", NoReg, <<a>>, 1, 1)
Plain(op)            == Inst(op, NoReg, <<>>, 1, 1)
Br(b)                == [Plain("br") EXCEPT !.to = <<b>>]
CondBr(c, t, f)      == [Inst("br", NoReg, <<c>>, 1, 1) EXCEPT !.to = <<t, f>>]
Phi(r, in)           == [Inst("phi", r, <<>>, 3, 3) EXCEPT !.in = in]

F0(blocks, loops) == [blocks |-> blocks, entry |-> "E", loops |-> loops, args |-> {}]
F1(blocks, loops) == [blocks |-> blocks, entry |-> "E", loops |-> loops, args |-> {"n"}]
Loop(h, pred, latches, blocks) ==
    [header |-> h, pred |-> pred, latches |-> latches, blocks |-> blocks]

\* A mask and a comparison; a store after the assume.
Masked == F0([E |-> <<Load("x", 2), Bin("And", "y", R("x"), N(1), 2),
                      ICmp("Eq", "c", R("y"), N(1), 2), Assume(R("c")),
                      Store("z", "Release"), Plain("ret")>>], {})

\* The assumed value is a phi of a constant and a comparison with the parameter.
Branched == F1([E |-> <<Alloca("o"), Load("x", 3), ICmp("Eq", "c", R("x"), N(0), 3),
                        CondBr(R("c"), "A", "B")>>,
                A |-> <<Br("M")>>,
                B |-> <<ICmp("Ugt", "d", R("x"), R("n"), 3), Br("M")>>,
                M |-> <<Phi("f", [A |-> N(1), B |-> R("d")]), Assume(R("f")), Plain("ret")>>], {})

\* Two loads: the first one is a constant of the second one's annotation.
TwoLoads == F0([E |-> <<Load("x", 2), Load("y", 2), Plain("fence"),
                        ICmp("Ule", "c", R("x"), R("y"), 2), Assume(R("c")), Plain("ret")>>], {})

\* One of two paths from the load to the assume has a store.
StoreOnPath == F0([E |-> <<Load("x", 2), ICmp("Eq", "c", R("x"), N(0), 2),
                           CondBr(R("c"), "A", "B")>>,
                   A |-> <<Store("z", "Release"), Br("M")>>,
                   B |-> <<Br("M")>>,
                   M |-> <<ICmp("Ult", "d", R("x"), N(2), 2), ICmp("Uge", "e", R("x"), N(1), 2),
                           Bin("And", "f", R("d"), R("e"), 1), Assume(R("f")), Plain("ret")>>], {})

\* Widening, pointer casts, a select and arithmetic at the full width, after a call.
Widened == F1([E |-> <<Plain("call"), ICmp("Eq", "k", R("n"), Null, 3), Kill(R("k")),
                       Load("x", 2), Conv("ZExt", "z", R("x"), 3, 2), Bin("Add", "s", R("z"), N(7), 3),
                       Conv("IntToPtr", "p", R("s"), 3, 3), Conv("PtrToInt", "q", R("p"), 3, 3),
                       ICmp("Sgt", "g", R("q"), N(0), 3), Sel("t", R("g"), R("q"), R("n"), 3),
                       Conv("BitCast", "u", R("t"), 3, 3), ICmp("Ne", "c", R("u"), N(2), 3),
                       Assume(R("c")), Plain("ret")>>], {})

\* An assertion may fail before the assume.
MayFail == F0([E |-> <<Load("x", 2), ICmp("Eq", "c", R("x"), N(3), 2), CondBr(R("c"), "X", "M")>>,
               X |-> <<Plain("error")>>,
               M |-> <<ICmp("Ne", "d", R("x"), N(1), 2), Assume(R("d")), Plain("ret")>>], {})

\* A counting loop between the load and the assume, entered at least once; with the parameter as
\* its bound, not necessarily; and with a header that reads memory.
Counting(bound, first) ==
    F1([E |-> <<Load("x", 2), Br("H")>>,
        H |-> <<Phi("i", [E |-> N(0), B |-> R("j")])>> \o first \o
              <<ICmp("Ult", "c", R("i"), bound, 3), CondBr(R("c"), "B", "X")>>,
        B |-> <<Bin("Add", "j", R("i"), N(1), 3), Br("H")>>,
        X |-> <<ICmp("Ne", "d", R("x"), N(0), 2), Assume(R("d")), Plain("ret")>>],
       {Loop("H", "E", {"B"}, {"H", "B"})})

\* The loop exits where the condition holds.
CountingDown ==
    F0([E |-> <<Br("H")>>,
        H |-> <<Phi("i", [E |-> N(2), B |-> R("j")]), ICmp("Eq", "c", R("i"), N(0), 3),
                CondBr(R("c"), "X", "B")>>,
        B |-> <<Bin("Sub", "j", R("i"), N(1), 3), Br("H")>>,
        X |-> <<Plain("ret")>>],
       {Loop("H", "E", {"B"}, {"H", "B"})})

\* The load is executed twice; the first value may be one the assume refuses.
Twice == F0([E |-> <<Br("H")>>,
             H |-> <<Phi("i", [E |-> N(0), S |-> N(1)]), Load("x", 2),
                     ICmp("Eq", "c", R("i"), N(0), 3), CondBr(R("c"), "S", "A")>>,
             S |-> <<Br("H")>>,
             A |-> <<ICmp("Ne", "d", R("x"), N(0), 2), Assume(R("d")), Plain("ret")>>],
            {Loop("H", "E", {"S"}, {"H", "S"})})

\* A spin loop as SpinAssumePass leaves it: the exit condition is assumed in the latch.
Spin == F1([E |-> <<Br("H")>>,
            H |-> <<Load("x", 3), ICmp("Eq", "c", R("x"), R("n"), 3), Assume(R("c")),
                    CondBr(R("c"), "X", "H")>>,
            X |-> <<Plain("ret")>>],
           {Loop("H", "E", {"H"}, {"H"})})

\* A CAS that has to succeed.
CasOnce == F0([E |-> <<Cas("k", 2, N(0)), ValueRead("v", "k", N(0)), Success("s", "k", N(0)),
                       Assume(R("s")), Plain("ret")>>], {})

\* A CAS loop that goes on when the CAS fails, and one that goes on when it succeeds.
CasLoop(exitOnSuccess) ==
    F0([E |-> <<Br("H")>>,
        H |-> <<Cas("k", 2, N(0)), Success("s", "k", N(0)),
                IF exitOnSuccess THEN CondBr(R("s"), "X", "H") ELSE CondBr(R("s"), "H", "X")>>,
        X |-> <<Plain("ret")>>],
       {Loop("H", "E", {"H"}, {"H"})})

\* Two CASes in a row; the iteration starts again when either fails.
TwoCas == F0([E |-> <<Br("H")>>,
              H |-> <<Cas("k", 2, N(0)), Success("s", "k", N(0)), CondBr(R("s"), "A", "L")>>,
              A |-> <<Cas("m", 2, N(0)), Success("t", "m", N(0)), CondBr(R("t"), "X", "L")>>,
              L |-> <<Br("H")>>,
              X |-> <<Plain("ret")>>],
             {Loop("H", "E", {"L"}, {"H", "A", "L"})})

\* An RMW, whose value is assumed.
RmwThenAssume == F0([E |-> <<Rmw("x", "x", "Add", 1), ICmp("Ne", "c", R("x"), N(0), 2),
                             Assume(R("c")), Plain("ret")>>], {})

\* A loop that reads a variable until it is 1, with instructions before and after the load,
\* and others in the latch when the iteration failed.
SpinOn(entry, first, then, latch) ==
    F0([E |-> entry \o <<Br("H")>>,
        H |-> first \o <<Load("v", 2)>> \o then \o
              <<ICmp("Eq", "c", R("v"), N(1), 2), CondBr(R("c"), "X", "B")>>,
        B |-> latch \o <<Br("H")>>,
        X |-> <<Plain("ret")>>],
       {Loop("H", "E", {"B"}, {"H", "B"})})

\* A local store; a store to memory of its own, to a variable that is also read, to one that
\* may have been published, and to a shared one; and a call of a function without effects.
LocalSpins == {SpinOn(<<Alloca("o")>>, <<>>, <<LocalStore("o")>>, <<>>),
               SpinOn(<<Alloca("o")>>, <<>>, <<Store("o", "NotAtomic")>>, <<>>),
               SpinOn(<<Alloca("o")>>, <<LoadOf("u", "o", 2)>>, <<>>, <<Store("o", "NotAtomic")>>),
               SpinOn(<<Alloca("o"), Store("z", "Release")>>, <<>>, <<>>, <<Store("o", "NotAtomic")>>),
               SpinOn(<<>>, <<>>, <<Store("z", "Monotonic")>>, <<Plain("cleancall")>>),
               SpinOn(<<>>, <<>>, <<Plain("cleancall")>>, <<>>)}

\* An RMW before the load and one in the latch; a CAS between them.
FaiSpin(bop, c, between) ==
    SpinOn(<<>>, <<Rmw("a", "x", "Add", 1)>>, between, <<Rmw("d", "x", bop, c)>>)
FaiSpins == {FaiSpin("Sub", 1, <<>>), FaiSpin("Add", 3, <<>>), FaiSpin("Sub", 2, <<>>),
             FaiSpin("Add", 1, <<>>), FaiSpin("Sub", 1, <<CasOf("k", "z", N(0))>>)}

\* The variable is read under a lock, which is released on either way out.
LockSpin(m) ==
    F0([E |-> <<Br("H")>>,
        H |-> <<Lock("m"), Load("v", 2), ICmp("Eq", "c", R("v"), N(1), 2),
                CondBr(R("c"), "X", "B")>>,
        B |-> <<Unlock(m), Br("H")>>,
        X |-> <<Unlock("m"), Plain("ret")>>],
       {Loop("H", "E", {"B"}, {"H", "B"})})

\* Exchanges until the value read is 0.
XchgSpin ==
    F0([E |-> <<Br("H")>>,
        H |-> <<Rmw("a", "x", "Xchg", 1), ICmp("Eq", "c", R("a"), N(0), 2), CondBr(R("c"), "X", "H")>>,
        X |-> <<Plain("ret")>>],
       {Loop("H", "E", {"H"}, {"H"})})

\* The header's phi is what was read last: by a load, by the failed CAS, or whether it failed.
LoadPhi ==
    F0([E |-> <<LoadOf("u", "x", 2), Conv("ZExt", "z", R("u"), 3, 2), Br("H")>>,
        H |-> <<Phi("p", [E |-> R("z"), B |-> R("q")]), ICmp("Eq", "c", R("p"), N(1), 3),
                CondBr(R("c"), "X", "B")>>,
        B |-> <<LoadOf("v", "x", 2), Conv("ZExt", "q", R("v"), 3, 2), Br("H")>>,
        X |-> <<Plain("ret")>>],
       {Loop("H", "E", {"B"}, {"H", "B"})})
CasCmpPhi(v) ==
    F0([E |-> <<LoadOf("u", v, 2), Br("H")>>,
        H |-> <<Phi("p", [E |-> R("u"), H |-> R("o")]), CasOf("k", "x", R("p")),
                ValueRead("o", "k", R("p")), Success("s", "k", R("p")), CondBr(R("s"), "X", "H")>>,
        X |-> <<Plain("ret")>>],
       {Loop("H", "E", {"H"}, {"H"})})
CasResPhi(first) ==
    F0([E |-> <<Br("H")>>,
        H |-> <<Phi("p", [E |-> first, L |-> R("q")]), CondBr(R("p"), "X", "B")>>,
        B |-> <<CasOf("k", "x", N(0)), Success("s", "k", N(0)), Br("L")>>,
        L |-> <<Phi("q", [B |-> R("s")]), Br("H")>>,
        X |-> <<Plain("ret")>>],
       {Loop("H", "E", {"L"}, {"H", "B", "L"})})

\* A flag that is set before the loop and read in it; the header runs it through its phi only.
FlagLoop(first, use) ==
    F0([E |-> <<Br("H")>>,
        H |-> <<Phi("f", [E |-> first, B |-> R("g")]), ICmp("Ne", "c", R("f"), N(0), 3),
                CondBr(R("c"), "B", "X")>>,
        B |-> <<Load("g", 2)>> \o use \o <<Br("H")>>,
        X |-> <<Plain("ret")>>],
       {Loop("H", "E", {"B"}, {"H", "B"})})

SpinPrograms ==
    LocalSpins \cup FaiSpins
    \cup {LockSpin("m"), LockSpin("n"), XchgSpin, LoadPhi, CasCmpPhi("x"), CasCmpPhi("z"),
          CasResPhi(N(0)), CasResPhi(N(1)), FlagLoop(N(1), <<>>), FlagLoop(N(0), <<>>),
          FlagLoop(N(1), <<ICmp("Eq", "e", R("f"), N(1), 3)>>)}

MCPrograms ==
         {Masked, Branched, TwoLoads, StoreOnPath, Widened, MayFail, CountingDown,
          Counting(N(2), <<>>), Counting(R("n"), <<>>), Counting(N(2), <<Plain("fence")>>),
          Twice, Spin, RmwThenAssume, CasOnce, CasLoop(TRUE), CasLoop(FALSE), TwoCas}
    \cup SpinPrograms

MCLoadValues(w) == IF w = 3 THEN {0, 1, 3, 6} ELSE 0..2 ^ w - 1
=============================================================================
