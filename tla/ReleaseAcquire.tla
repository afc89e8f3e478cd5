--------------------------- MODULE ReleaseAcquire ---------------------------
(***************************************************************************)
(* What the exploration is meant to enumerate: the executions of a program *)
(* that are consistent with the release-acquire model, by definition and   *)
(* without any exploration.  Coherence, reads-from and atomicity are       *)
(* stated byte by byte, as accesses may have different sizes.              *)
(***************************************************************************)
EXTENDS ExecutionGraph

(* The labels of a thread that executes the first n of its instructions    *)
(* and whose compare-and-swaps fail exactly at the instructions in fail.   *)
PathLabels(instrs, n, fail) ==
    FlattenSeq([k \in 1..n |->
        LET i == instrs[k]
            lab(op) == [op |-> op, rmw |-> IF i.op \in {"XCHG", "CAS"} THEN i.op ELSE "none",
                        loc |-> i.loc, bytes |-> i.bytes, val |-> i.val,
                        sync |-> i.sync, pc |-> k]
        IN  CASE i.op \in {"R", "W"} -> <<lab(i.op)>>
              [] i.op \in {"XCHG", "CAS"} /\ k \notin fail -> <<lab("R"), lab("W")>>
              [] OTHER -> <<lab("R")>>])

Paths(instrs) ==
    UNION {{[labels |-> PathLabels(instrs, n, fail), n |-> n, fail |-> fail] :
               fail \in SUBSET {k \in 1..n : instrs[k].op = "CAS"}} :
             n \in 0..Len(instrs)}

(* The events of one path per thread. *)
EventsOf(paths) ==
    UNION {{<<t, k>> : k \in DOMAIN paths[t].labels} : t \in DOMAIN paths}

LabelOf(paths, e) == paths[e[1]].labels[e[2]]

Compose(R, S) == {<<z[1][1], z[2][2]>> : z \in {z \in R \X S : z[1][2] = z[2][1]}}

Closure(R) ==
    LET through(v, S) == S \cup ({p[1] : p \in {p \in S : p[2] = v}} \X
                                 {p[2] : p \in {p \in S : p[1] = v}})
    IN  FoldSet(through, R, {p[1] : p \in R})

Irreflexive(R) == \A p \in R : p[1] # p[2]

(* The value thread t has read by its instruction k, if it was all v. *)
ReadsAll(paths, rf, e, v) ==
    \A b \in LabelOf(paths, e).bytes :
        v = IF rf[<<e, b>>] = InitPos THEN 0 ELSE LabelOf(paths, rf[<<e, b>>]).val

(* The paths are those the values of the reads lead to. *)
FollowsProgram(prog, paths, rf) ==
    \A t \in DOMAIN prog :
        LET reads == {k \in DOMAIN paths[t].labels : paths[t].labels[k].op = "R"}
            guardOK(i) ==
                LET before == {k \in reads : paths[t].labels[k].pc < i}
                IN  \A v \in prog[t][i].guard : ReadsAll(paths, rf, <<t, Max(before)>>, v)
        IN  /\ \A i \in 1..paths[t].n : guardOK(i)
            /\ paths[t].n < Len(prog[t]) => ~guardOK(paths[t].n + 1)
            /\ \A k \in reads :
                 LET i == paths[t].labels[k].pc
                 IN  prog[t][i].op = "CAS" =>
                       (i \in paths[t].fail <=> ~ReadsAll(paths, rf, <<t, k>>, prog[t][i].exp))

(* Relations on the events of an execution. *)
Po(E) == {p \in E \X E : p[1][1] = p[2][1] /\ p[1][2] < p[2][2]}

RfPairs(rf) == {<<rf[d], d[1]>> : d \in {d \in DOMAIN rf : rf[d] # InitPos}}

(* The load and the store of each read-modify-write. *)
RMWPairs(paths) ==
    {p \in Po(EventsOf(paths)) :
        /\ LabelOf(paths, p[1]).op = "R" /\ LabelOf(paths, p[2]).op = "W"
        /\ LabelOf(paths, p[1]).pc = LabelOf(paths, p[2]).pc}

(* Happens-before: program order, and a release store with an acquire read *)
(* that reads from it, directly or through the RMWs that follow it.        *)
HappensBefore(paths, rf) ==
    LET chain == Closure(RfPairs(rf) \cup Compose(RfPairs(rf), RMWPairs(paths)))
        sw == {p \in chain : LabelOf(paths, p[2]).op = "R"
                             /\ LabelOf(paths, p[1]).sync /\ LabelOf(paths, p[2]).sync}
    IN  Closure(Po(EventsOf(paths)) \cup sw)

(* Coherence order co, a list of stores per word, agrees with rf and hb. *)
IsCoherent(paths, rf, hb, co) ==
    LET L(e) == LabelOf(paths, e)
        at(w) == IF w = InitPos THEN 0 ELSE SelectInSeq(co[L(w).loc], LAMBDA e : e = w)
        \* the coherence position a byte of an event stands at
        pos(e, b) == IF L(e).op = "W" THEN at(e) ELSE at(rf[<<e, b>>])
        shared(p) == IF L(p[1]).loc = L(p[2]).loc THEN L(p[1]).bytes \cap L(p[2]).bytes ELSE {}
    IN  \* nothing happens before what it is coherence-after
        /\ \A p \in hb : \A b \in shared(p) :
             IF L(p[2]).op = "W" THEN pos(p[1], b) < pos(p[2], b)
                                 ELSE pos(p[1], b) <= pos(p[2], b)
        \* no tearing: of a store it reads from, a read has seen all the bytes
        /\ \A d \in DOMAIN rf : rf[d] # InitPos =>
             \A b \in shared(<<d[1], rf[d]>>) : at(rf[d]) <= pos(d[1], b)
        \* atomicity: no store between what an RMW reads and what it writes
        /\ \A p \in RMWPairs(paths) : \A b \in L(p[1]).bytes :
             /\ pos(p[1], b) < pos(p[2], b)
             /\ \A w \in Range(co[L(p[1]).loc]) :
                   b \in L(w).bytes => at(w) <= pos(p[1], b) \/ pos(p[2], b) <= at(w)

(* The consistent executions in which the threads follow the given paths. *)
ExecutionsOn(prog, paths) ==
    LET E == EventsOf(paths)
        L(e) == LabelOf(paths, e)
        W == {e \in E : L(e).op = "W"}
        bytes == {d \in E \X Byte : L(d[1]).op = "R" /\ d[2] \in L(d[1]).bytes}
        from(d) == {InitPos} \cup {w \in W : L(w).loc = L(d[1]).loc /\ d[2] \in L(w).bytes}
        choose(d, fs) == UNION {{f @@ (d :> w) : w \in from(d)} : f \in fs}
        rfs == {rf \in FoldSet(choose, {<<>>}, bytes) :
                  /\ FollowsProgram(prog, paths, rf)
                  /\ Irreflexive(Closure(Po(E) \cup RfPairs(rf)))}
        order(x, fs) ==
            UNION {{f @@ (x :> p) : p \in SetToSeqs({w \in W : L(w).loc = x})} : f \in fs}
        cos == FoldSet(order, {<<>>}, Word)
        coPairs(co) ==
            UNION {{<<co[x][p[1]], co[x][p[2]]>> : p \in
                      {p \in (DOMAIN co[x]) \X (DOMAIN co[x]) :
                         p[1] < p[2] /\ Overlaps(L(co[x][p[1]]), L(co[x][p[2]]))}} : x \in Word}
        events == [e \in E |-> [op |-> L(e).op, loc |-> L(e).loc, bytes |-> L(e).bytes,
                                val |-> IF L(e).op = "R" THEN 0 ELSE L(e).val]]
    IN  UNION {
          LET hb == HappensBefore(paths, rf)
          IN  {[ev |-> events, rf |-> {<<d[1], d[2], rf[d]>> : d \in bytes},
                co |-> coPairs(co)] : co \in {c \in cos : IsCoherent(paths, rf, hb, c)}}
          : rf \in rfs}

(* The consistent executions of a program. *)
Executions(prog) ==
    LET pick(t, fs) == UNION {{f @@ (t :> p) : p \in Paths(prog[t])} : f \in fs}
    IN  UNION {ExecutionsOn(prog, paths) : paths \in FoldSet(pick, {<<>>}, DOMAIN prog)}
=============================================================================
