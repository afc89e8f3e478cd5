--------------------------- MODULE MCExploration ---------------------------
(***************************************************************************)
(* Families of small programs for ExplorationCorrectness.  Every run       *)
(* explores all the programs of one family.                                *)
(***************************************************************************)
EXTENDS ExplorationCorrectness

Instr(op, x, bytes, val, exp) ==
    [op |-> op, loc |-> x, bytes |-> bytes, val |-> val, exp |-> exp,
     sync |-> FALSE, guard |-> {}]

R(x, bytes) == Instr("R", x, bytes, 0, 0)
W(x, bytes) == Instr("W", x, bytes, 1, 0)
Xchg(x, bytes) == Instr("XCHG", x, bytes, 2, 0)
Cas(x, bytes) == Instr("CAS", x, bytes, 1, 0)

Sync(i) == [i EXCEPT !.sync = TRUE]         \* acquire loads, release stores
If(v, i) == [i EXCEPT !.guard = {v}]        \* run if v was read last

B == {0}

-----------------------------------------------------------------------------
(* Accesses of one size: relaxed ones to word 1, others to word 2 as well. *)

Accesses1 == {R(1, B), W(1, B), Xchg(1, B), Cas(1, B)}
Accesses2 == {Sync(R(2, B)), Sync(W(2, B))}

(* Two threads with two accesses each, and programs with a branch. *)
TwoThreads ==
    {<< <<i, j>>, <<k, l>>, <<>> >> : i, j, k, l \in Accesses1 \cup Accesses2}
    \cup
    {<< <<r, If(v, i), W(1, B)>>, <<k, l>>, <<>> >> :
        r \in {R(1, B), Cas(1, B)}, v \in {0, 1}, i \in {W(1, B), W(2, B)},
        k, l \in {W(1, B), R(2, B), Xchg(1, B)}}

(* Three threads: races on one word, and releases through two writers. *)
ThreeThreads ==
    {<< <<i, j>>, <<k>>, <<l>> >> : i, j, k, l \in Accesses1}
    \cup
    {<< <<i, j>>, <<k>>, <<l, m>> >> :
        i \in {W(1, B), Sync(W(2, B))}, j, k \in {Sync(W(2, B)), Sync(Xchg(2, B)), Xchg(2, B)},
        l, m \in {Sync(R(2, B)), R(1, B)}}

(* Programs with several backward revisits, some of them of RMWs. *)
RevisitTrees ==
    {<< <<i, j>>, <<k, l>>, <<>> >> : i, k \in {R(1, B), Cas(1, B)}, j, l \in Accesses1}
    \cup
    {<< <<i>>, <<j>>, <<k>> >> : i, j, k \in Accesses1}

-----------------------------------------------------------------------------
(* Accesses of one or two bytes; at most one store per thread. *)

Sizes == {{0}, {1}, {0, 1}}
ReadsOrWrites == {R(1, s) : s \in Sizes} \cup {W(1, s) : s \in Sizes}

MixedSizes ==
    {<< <<i>>, <<j>>, <<k>> >> : i, j, k \in ReadsOrWrites}
    \cup
    {<< <<R(1, a), W(1, b)>>, <<W(1, c)>>, <<W(1, d)>> >> : a, b, c, d \in Sizes}

(* The same with more accesses or stores per thread, or with RMWs. *)
AnySizes ==
    {<< <<i>>, <<j>>, <<Xchg(1, a)>> >> :
        i, j \in ReadsOrWrites \cup {Xchg(1, b) : b \in Sizes}, a \in Sizes}
    \cup
    {<< <<R(1, a), W(1, b)>>, <<R(1, c)>>, <<R(1, d), W(1, e)>> >> : a, b, c, d, e \in Sizes}
    \cup
    {<< <<R(1, {0, 1})>>, <<R(1, a), W(1, b)>>, <<W(1, c), W(1, d)>> >> : a, b, c, d \in Sizes}

AllPrograms == TwoThreads \cup ThreeThreads \cup RevisitTrees \cup MixedSizes \cup AnySizes

-----------------------------------------------------------------------------
(* A store of both bytes behind a store to byte 1 of its own thread, and   *)
(* an RMW on a byte of a word with stores of both sizes.                   *)
SplitPrograms == {<< <<W(1, {0})>>, <<W(1, {1}), W(1, {0, 1})>>, <<>> >>,
                  << <<W(1, {0})>>, <<W(1, {0, 1})>>, <<Xchg(1, {1})>> >>}
=============================================================================
