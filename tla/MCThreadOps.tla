--------------------------- MODULE MCThreadOps ---------------------------
(***************************************************************************)
(* Programs of up to three threads for ThreadOps.                          *)
(***************************************************************************)
EXTENDS ThreadOps

I(op, x, v) == [op |-> op, x |-> x, v |-> v]
N(op) == I(op, "none", 0)
Main(fs) == [i \in 1 .. Len(fs) |-> I("create", fs[i], 0)]
Joins == <<I("join", "none", 2), I("join", "none", 1)>>
Locked(m, body) == <<I("lock", m, 0)>> \o body \o <<I("unlock", m, 0)>>

\* Two critical sections, one of which is entered under an assumption
Critical ==
    [main |-> Main(<<"a", "b">>) \o Joins,
     a |-> <<I("load", "x", 0), I("assume", "none", 1)>> \o Locked("m", <<>>),
     b |-> Locked("m", <<I("store", "x", 1)>>)]
\* Three threads compete, one with trylock
Compete ==
    [main |-> <<I("mutexinit", "m", 0)>> \o Main(<<"a", "b">>)
              \o Locked("m", <<I("load", "x", 0)>>) \o Joins,
     a |-> Locked("m", <<I("store", "x", 1)>>),
     b |-> <<I("trylock", "m", 0), I("unless", "none", 1), I("unlock", "m", 0)>>]
\* A thread unlocks twice
Twice ==
    [main |-> Main(<<"a", "b">>) \o Locked("m", <<>>),
     a |-> Locked("m", <<>>) \o <<I("unlock", "m", 0)>>,
     b |-> Locked("m", <<I("store", "x", 1)>>)]
\* Two mutexes in opposite order
Opposite ==
    [main |-> Main(<<"a", "b">>) \o Joins,
     a |-> Locked("m", Locked("n", <<>>)),
     b |-> Locked("n", Locked("m", <<>>))]
\* A mutex destroyed while a thread may still want it
Destroyed ==
    [main |-> Main(<<"a", "b">>) \o <<I("mutexdestroy", "m", 0)>> \o Joins,
     a |-> Locked("m", <<>>),
     b |-> <<I("store", "m", 0)>>]
\* A barrier for two, passed twice
Barrier ==
    [main |-> <<I("barrierinit", "b", 2)>> \o Main(<<"a", "b">>) \o Joins
              \o <<I("barrierdestroy", "b", 0)>>,
     a |-> <<I("barrierwait", "b", 0), I("load", "x", 0), I("barrierwait", "b", 0)>>,
     b |-> <<I("barrierwait", "b", 0), I("store", "x", 1), I("barrierwait", "b", 0)>>]
\* A barrier used before and after its time
BadBarrier ==
    [main |-> Main(<<"a", "b">>) \o <<I("barrierinit", "b", 1), I("store", "x", 1)>> \o Joins,
     a |-> <<I("load", "x", 0), I("unless", "none", 0), I("barrierwait", "b", 0)>>,
     b |-> <<I("load", "x", 0), I("unless", "none", 0), I("barrierinit", "b", 1)>>]
\* A spinloop that ends, and one that does not
Spin(v) ==
    [main |-> Main(<<"a", "b">>) \o Joins,
     a |-> <<N("spinstart"), I("load", "x", 0), I("spinend", "none", 1)>>,
     b |-> <<I("store", "x", v), N("exit")>>]
\* The argument of a thread depends on a value that is revisited
Argument ==
    [main |-> <<I("create", "a", 0), I("load", "x", 0), I("create", "b", 0),
                I("join", "none", 1)>>,
     a |-> <<I("store", "x", 1), I("load", "y", 0)>>,
     b |-> <<[op |-> "storearg", x |-> "y", v |-> 0], N("kill")>>]

Small == {Critical, Twice, Opposite, Spin(1), Spin(2), Argument}
Large == {Compete, Destroyed, Barrier, BadBarrier}
Mixer == [mixer |-> TRUE, policy |-> "ltr"]
Default(p) == [mixer |-> FALSE, policy |-> p]

With(progs, confs) == {[prog |-> p, conf |-> c] : p \in progs, c \in confs}

MCCases == With(Small, {Mixer, Default("ltr"), Default("arbitrary")})
           \union With(Large, {Mixer, Default("wf"), Default("wfr")})
==========================================================================
