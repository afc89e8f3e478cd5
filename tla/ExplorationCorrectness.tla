----------------------- MODULE ExplorationCorrectness -----------------------
(***************************************************************************)
(* What the exploration promises: its invariants, and that it enumerates   *)
(* the executions that the module ReleaseAcquire defines.                  *)
(***************************************************************************)
EXTENDS Exploration, ReleaseAcquire

(* The graphs on the execution stack, the ones a backward revisit has set *)
(* aside included.                                                         *)
Frames == Range(stack)

(* All the graphs that are still to be explored or revisited. *)
Graphs == {f.graph : f \in Frames} \cup Range(tasks)

(* Every graph the driver holds is well formed: a thread's labels are      *)
(* numbered without gaps after any cut or copy, and the coherence list of  *)
(* a word holds each of its stores exactly once, whatever sequence of      *)
(* addStoreToCO, removal, cut, copy and reordering produced it.            *)
TypeOK ==
    /\ phase \in {"run", "revisit", "done"}
    /\ moot \in BOOLEAN
    /\ count \in Nat
    /\ stack # <<>>
    /\ \A g \in Graphs :
         /\ \A e \in Pos(g) : e[1] \in Thread /\ e[2] \in 1..Size(g, e[1])
         /\ \A x \in Word :
              /\ IsInjective(g.co[x])
              /\ Range(g.co[x]) = {e \in Pos(g) : g.ev[e].op = "W" /\ g.ev[e].loc = x}

(* The rfs of a read partition its bytes among stores of the graph that    *)
(* write them.  A cut or a copy drops the rfs from deleted stores, so that *)
(* repairDanglingReads() and the new rfs of a revisit must together leave  *)
(* no read with a byte from nowhere, from a deleted store or from two.     *)
RfsCoverReads ==
    \A g \in Graphs : \A r \in Reads(g) :
        LET rf == g.ev[r].rf
        IN  /\ UNION {p[2] : p \in Range(rf)} = g.ev[r].bytes
            /\ \A i, j \in DOMAIN rf : i # j => rf[i][2] \cap rf[j][2] = {}
            /\ \A p \in Range(rf) : p[1] # InitPos =>
                 /\ p[1] \in Pos(g) /\ g.ev[p[1]].op = "W"
                 /\ g.ev[p[1]].loc = g.ev[r].loc /\ p[2] \subseteq g.ev[p[1]].bytes

(* Stamps number the labels 1, 2, 3, ... in an order that extends program  *)
(* order.  getViewFromStamp() and cutToStamp() rely on it, although        *)
(* compressStampsAfter() renumbers a graph thread after thread and not in  *)
(* the order in which the labels were added.                               *)
StampsFollowProgramOrder ==
    \A g \in Graphs :
        /\ {g.ev[e].stamp : e \in Pos(g)} = 1..(g.stamp - 1)
        /\ Cardinality(Pos(g)) = g.stamp - 1
        /\ \A e \in Pos(g) : Succ(e) \in Pos(g) => g.ev[e].stamp < g.ev[Succ(e)].stamp

(* A work item refers only to labels that restrictGraph() keeps when the   *)
(* item is taken, and the label its stamp names is still the one it was    *)
(* made for: the graph is cut, extended and restamped many times between   *)
(* addToWorklist() and getNextItem().                                      *)
QueuedItemsFresh ==
    \A f \in Frames : \A q \in Range(f.queue) :
        LET g == f.graph
            past == ViewFromStamp(g, q.stamp)
        IN  /\ q.pos \in past
            /\ q.kind = "read" => /\ g.ev[q.pos].stamp = q.stamp
                                  /\ {p[1] : p \in Range(q.rfs)} \subseteq past \cup {InitPos}
            /\ q.kind = "back" => /\ q.rev \in past /\ g.ev[q.rev].stamp = q.stamp
                                  /\ q.view \subseteq past
                                  /\ {p[1] : p \in Range(q.rfs)} \subseteq q.view \cup {InitPos}
            /\ q.kind = "mo" => g.ev[q.pos].stamp = q.stamp /\ q.succ \in past
            /\ q.kind = "moSeq" => g.ev[q.pos].stamp = q.stamp
                                  /\ Range(q.seq) = past \cap Range(g.co[g.ev[q.pos].loc])

(* A store that calcRevisits() may delete was added after the read that is *)
(* revisited, in the left-to-right order of the threads: the assumption    *)
(* behind enumerateKeepCandidates(), whose BUG_ON stops the verification   *)
(* when a candidate to be kept is to the left of the read.                 *)
KeptStoresAreLater ==
    phase = "run" =>
      \A s \in {e \in Pos(G) : G.ev[e].op = "W" /\ G.ev[e].stamp = G.stamp - 1} :
        \A r \in Revisitable(G, s) :
          L2R(r, s) =>
            \A w \in Range(Co(G, G.ev[r])) :
                \/ w \in ViewFromStamp(G, G.ev[r].stamp) \cup PrefixView(G, s)
                \/ ~L2R(w, r)

(* Programs on which the driver is expected to be exact.  A word that is   *)
(* accessed with several sizes is read and written by relaxed plain        *)
(* accesses only, and no thread stores to it twice.  What is lost without  *)
(* these restrictions is the subject of AlwaysExhaustive.                  *)
AccessesTo(p, x) == UNION {{<<t, k>> : k \in {k \in DOMAIN p[t] : p[t][k].loc = x}} : t \in DOMAIN p}

OneSize(p, x) ==
    \A a, b \in AccessesTo(p, x) : p[a[1]][a[2]].bytes = p[b[1]][b[2]].bytes

IsRegular(p) ==
    LET instr(a) == p[a[1]][a[2]]
    IN  \A x \in Word :
          \/ OneSize(p, x)
          \/ /\ \A a \in AccessesTo(p, x) : instr(a).op \in {"R", "W"} /\ ~instr(a).sync
             /\ \A a, b \in AccessesTo(p, x) :
                  (a # b /\ a[1] = b[1]) => "R" \in {instr(a).op, instr(b).op}

(* Every execution the driver completes is one that the release-acquire    *)
(* memory model allows.                                                    *)
OnlyConsistent == (phase = "done" /\ IsRegular(prog)) => explored \subseteq Executions(prog)

(* When explore() returns, every execution of the program that the memory  *)
(* model allows has been completed: no revisit was skipped by the          *)
(* maximality tests, lost with a popped execution or cut off too early.    *)
Exhaustive == (phase = "done" /\ IsRegular(prog)) => Executions(prog) \subseteq explored

(* No execution is completed twice: result.explored counts executions.     *)
(* This is what isMaximalExtension() is for.                               *)
NoDuplicates == count # Cardinality(explored) => ~IsRegular(prog)

(* explore() "Exhaustively explores all consistent executions of a         *)
(* program" (GenMCDriver.hpp), whatever the sizes of the accesses.         *)
AlwaysExhaustive == phase = "done" => Executions(prog) \subseteq explored

(* Whatever is cut, copied, restamped and repaired, a graph stays one that *)
(* the next handler can work on.                                           *)
GraphsWellFormed == TypeOK /\ RfsCoverReads /\ StampsFollowProgramOrder
=============================================================================
