---------------------------- MODULE ThreadOps ----------------------------
(***************************************************************************)
(* Thread creation, join, mutexes, barriers, spinloops and assumptions as  *)
(* the interpreter (Execution.cpp) and the driver (GenMCDriver.cpp) run    *)
(* them: one execution at a time, in which every instruction of a thread   *)
(* adds labels to the execution graph, or finds them there when the graph  *)
(* of a revisited execution is replayed.  Reads read the coherence-maximal *)
(* store; at the end of an execution a store may revisit an earlier read,  *)
(* which cuts the graph and starts all threads again.                      *)
(*                                                                         *)
(* A program is [main |-> code, f1 |-> code, ...], code being a sequence   *)
(* of instructions [op, x, v].  Weak-memory choices (other stores to read  *)
(* from, other coherence placements) are the business of Exploration.      *)
(***************************************************************************)
EXTENDS Integers, Sequences, FiniteSets, FiniteSetsExt

CONSTANTS
    Cases,          \* [prog, conf]: programs under test with their options,
                    \* conf being [mixer |-> BOOLEAN, policy |-> schedule policy]
    MaxRevisits     \* bound on the backward revisits of a behaviour

VARIABLES
    prog,           \* the program
    conf,           \* getConf()
    graph,          \* [ev: thread -> labels, ts: timestamp, last: lastAdded]
    ee,             \* the interpreter's threads: stack, position, return value
    cur,            \* [t, at]: the thread inside an instruction, and its next event
    resched,        \* readToReschedule
    moot,           \* isMoot()
    err,            \* the error reported, or "OK"
    phase,          \* "run" | "end" | "bug": run(), between executions, BUG()
    revisits        \* revisits made so far

vars == <<prog, conf, graph, ee, cur, resched, moot, err, phase, revisits>>

Init0 == <<0, 0>>                              \* Event::getInit()
Idle == [t |-> -1, at |-> "none"]

Mem == {"Write", "LockCasWrite", "UnlockWrite", "TrylockCasWrite",
        "BInitWrite", "BIncFaiWrite", "BDestroyWrite"}
Reads == {"Read", "LockCasRead", "TrylockCasRead", "BIncFaiRead", "BWaitRead"}
CasReads == {"LockCasRead", "TrylockCasRead"}
RMWWrites == {"LockCasWrite", "TrylockCasWrite", "BIncFaiWrite"}
Blocks == {"JoinBlock", "ReadOptBlock", "LockNotAcqBlock", "BarrierBlock",
           "UserBlock", "SpinloopBlock"}
Terminators == Blocks \union {"ThreadFinish"}

(***************************************************************************)
(* The graph.                                                              *)
(***************************************************************************)
Tids(G) == DOMAIN G.ev
Lab(G, p) == G.ev[p[1]][p[2] + 1]
LastLab(G, t) == G.ev[t][Len(G.ev[t])]
LastPos(G, t) == <<t, Len(G.ev[t]) - 1>>
Positions(G) == UNION {{t} \X (0 .. (Len(G.ev[t]) - 1)) : t \in Tids(G)}

Stores(G, x) == {p \in Positions(G) : Lab(G, p).k \in Mem /\ Lab(G, p).x = x}

CoMax(G, x) ==
    IF Stores(G, x) = {} THEN Init0
    ELSE CHOOSE p \in Stores(G, x) :
            \A q \in Stores(G, x) : Lab(G, q).st <= Lab(G, p).st

WriteValue(G, p) == IF p = Init0 THEN 0 ELSE Lab(G, p).v

ReadValue(G, p) == WriteValue(G, Lab(G, p).rf)

New(k, x, v) == [k |-> k, x |-> x, v |-> v, arg |-> 0, rf |-> Init0,
                 other |-> Init0, st |-> 0, rev |-> TRUE, pre |-> {}]

\* The porf-prefix: po-predecessor, store read, creating or finishing event.
Prefix(G, t, lab) ==
    {<<t, Len(G.ev[t])>>}
    \union (IF G.ev[t] = <<>> THEN {} ELSE LastLab(G, t).pre)
    \union (IF lab.rf = Init0 THEN {} ELSE Lab(G, lab.rf).pre)
    \union (IF lab.other = Init0 THEN {} ELSE Lab(G, lab.other).pre)

\* addLabelToGraph(): the label gets the next stamp and becomes lastAdded.
AddLabel(G, t, lab) ==
    [G EXCEPT !.ev[t] = Append(@, [lab EXCEPT !.st = G.ts, !.pre = Prefix(G, t, lab)]),
              !.ts = @ + 1,
              !.last = <<t, Len(G.ev[t])>>]

\* blockThread(): lastAdded is left alone.
BlockThread(G, t, lab) == [AddLabel(G, t, lab) EXCEPT !.last = G.last]

\* unblockThread() of every thread whose last label satisfies P
UnblockAll(G, P(_)) ==
    [G EXCEPT !.ev = [t \in Tids(G) |->
        IF P(LastLab(G, t)) THEN SubSeq(G.ev[t], 1, Len(G.ev[t]) - 1)
        ELSE G.ev[t]]]

Empty == [ev |-> [t \in {0} |-> <<New("Init", "none", 0)>>], ts |-> 1, last |-> Init0]

(***************************************************************************)
(* The interpreter's threads.                                              *)
(***************************************************************************)
Fresh(f, a) == [fn |-> f, arg |-> a, pc |-> 1, n |-> 0, reg |-> 0, alive |-> TRUE]

Code(t) == prog[ee[t].fn]
AtEnd(t) == ee[t].pc > Len(Code(t))
Instr(t) == IF AtEnd(t) THEN [op |-> "ret", x |-> "none", v |-> 0] ELSE Code(t)[ee[t].pc]
Pos(t) == <<t, ee[t].n + 1>>
Driven(t) == ee[t].n + 1 < Len(graph.ev[t])      \* isExecutionDrivenByGraph()
Found(t) == Lab(graph, Pos(t))

IsSchedulable(t) == ee[t].alive /\ LastLab(graph, t).k \notin Terminators
Schedulable == {t \in Tids(graph) : t \in DOMAIN ee /\ IsSchedulable(t)}

\* The outcome of one event of thread t: the graph becomes G, t's position
\* advances, and the instruction goes on with event `at' or is over.
Step(t, G, at, reg) ==
    /\ graph' = G
    /\ cur' = IF at = "none" THEN Idle ELSE [t |-> t, at |-> at]
    /\ ee' = [ee EXCEPT ![t].n = @ + 1, ![t].reg = reg,
                        ![t].pc = IF at = "none" THEN @ + 1 ELSE @]

Steady == UNCHANGED <<prog, conf, phase, revisits>>
NoError == err' = err /\ moot' = moot /\ resched' = resched

(***************************************************************************)
(* Scheduling.                                                             *)
(***************************************************************************)
LoadOps == {"load", "lock", "trylock", "barrierwait"}
IsNextThreadInstLoad(t) == Instr(t).op \in LoadOps

ScheduleNextLTR == {t \in Schedulable : \A u \in Schedulable : t <= u}

InGraph == {t \in Schedulable : Driven(t)}
Writers == {t \in Schedulable : ~IsNextThreadInstLoad(t)}
First(S) == {t \in S : \A u \in S : t <= u}

ScheduleNextWF ==
    IF InGraph # {} THEN First(InGraph)
    ELSE IF Writers # {} THEN First(Writers) ELSE First(Schedulable)

ScheduleNextWFR ==
    IF InGraph # {} THEN First(InGraph)
    ELSE IF Writers # {} THEN Writers ELSE Schedulable

ScheduleNextRandom == Schedulable

ScheduleNormal ==
    CASE conf.policy = "ltr" -> ScheduleNextLTR
      [] conf.policy = "wf" -> ScheduleNextWF
      [] conf.policy = "wfr" -> ScheduleNextWFR
      [] conf.policy = "arbitrary" -> ScheduleNextRandom

\* scheduleAtomicity(): an RMW whose read was the last label added goes first.
Atomicity ==
    LET l == Lab(graph, graph.last) IN
    IF \/ l.k = "BIncFaiRead"
       \/ l.k \in CasReads /\ ReadValue(graph, graph.last) = 0
    THEN {graph.last[1]} ELSE {}

ReadOptBlocked == {t \in Tids(graph) : LastLab(graph, t).k = "ReadOptBlock"}

\* scheduleNext(): the threads it may return in this state
ScheduleNext ==
    IF moot \/ err # "OK" THEN {}
    ELSE IF Atomicity # {} THEN Atomicity ELSE ScheduleNormal

\* Thread t runs: it is inside an instruction, or the scheduler picks it.
Runs(t, op, at) ==
    /\ phase = "run" /\ t \in DOMAIN ee
    /\ IF cur = Idle THEN at = "none" /\ t \in ScheduleNext
       ELSE cur = [t |-> t, at |-> at]
    /\ Instr(t).op = op

\* rescheduleReads(): a read removed by the lock optimisation runs after all.
RescheduleReads ==
    /\ phase = "run" /\ cur = Idle /\ ~moot /\ err = "OK"
    /\ ScheduleNext = {}
    /\ \E t \in First(ReadOptBlocked) :
         /\ resched' = LastPos(graph, t)
         /\ graph' = UnblockAll(graph, LAMBDA l : l = LastLab(graph, t))
         /\ cur' = [t |-> t, at |-> "again"]
    /\ UNCHANGED <<ee, moot, err>> /\ Steady

(***************************************************************************)
(* Threads.                                                                *)
(***************************************************************************)
\* handleThreadCreate(): the child's number is that of the begin label left
\* behind by an earlier execution, if there is one.
ChildId(t) ==
    LET old == {c \in Tids(graph) : graph.ev[c][1].other = Pos(t) /\ c # 0}
    IN  IF old # {} THEN Min(old) ELSE Cardinality(Tids(graph))

StartLabel(t, c, f, a) == [New("ThreadStart", f, c) EXCEPT !.other = Pos(t), !.arg = a]

WithStart(G, t, c, f, a) ==
    AddLabel([G EXCEPT !.ev = [u \in Tids(G) \union {c} |->
                                 IF u = c THEN <<>> ELSE G.ev[u]]],
             c, StartLabel(t, c, f, a))

\* addNewThread(): a known thread number must keep its function (BUG_ON).
AddNewThread(c, f) == c \in DOMAIN ee => ee[c].fn = f

CreateThread(t) ==
    /\ Runs(t, "create", "none")
    /\ IF Driven(t) THEN
          /\ Step(t, graph, "none", Found(t).v)
          /\ phase' = phase
       ELSE LET f == Instr(t).x
                a == ee[t].reg
                c == ChildId(t)
                G == AddLabel(graph, t, [New("ThreadCreate", f, c) EXCEPT !.arg = a])
            IN /\ graph' = WithStart(G, t, c, f, a)
               /\ cur' = Idle
               /\ ee' = [u \in DOMAIN ee \union {c} |->
                           IF u = c THEN Fresh(f, a)
                           ELSE IF u = t THEN [ee[t] EXCEPT !.n = @ + 1, !.pc = @ + 1,
                                                            !.reg = c]
                           ELSE ee[u]]
               /\ phase' = IF AddNewThread(c, f) THEN phase ELSE "bug"
    /\ NoError /\ UNCHANGED <<prog, conf, revisits>>

\* handleThreadJoin(): wait for the child, with position and instruction reset.
\* Seeded fault: a join that has to wait does not block its thread.
FaultBusyJoin(t) ==
    /\ Runs(t, "join", "none")
    /\ LET c == Instr(t).v IN
       IF Driven(t) THEN Step(t, graph, "none", 0)
       ELSE IF LastLab(graph, c).k # "ThreadFinish" THEN UNCHANGED <<graph, ee, cur>>
       ELSE Step(t, AddLabel(graph, t, [New("ThreadJoin", "none", c)
                                          EXCEPT !.other = LastPos(graph, c)]), "none", 0)
    /\ NoError /\ Steady

\* Seeded fault: the position of a join that blocks is not reset.
FaultJoinThread(t) ==
    /\ Runs(t, "join", "none")
    /\ LET c == Instr(t).v IN
       IF Driven(t) THEN Step(t, graph, "none", 0)
       ELSE IF LastLab(graph, c).k # "ThreadFinish" THEN
          /\ graph' = BlockThread(graph, t, New("JoinBlock", "none", c))
          /\ ee' = [ee EXCEPT ![t].n = @ + 1]
          /\ UNCHANGED cur
       ELSE Step(t, AddLabel(graph, t, [New("ThreadJoin", "none", c)
                                          EXCEPT !.other = LastPos(graph, c)]), "none", 0)
    /\ NoError /\ Steady

JoinThread(t) ==
    /\ Runs(t, "join", "none")
    /\ LET c == Instr(t).v IN
       IF Driven(t) THEN Step(t, graph, "none", 0) /\ err' = err
       ELSE IF LastLab(graph, c).k # "ThreadFinish" THEN
          /\ graph' = BlockThread(graph, t, New("JoinBlock", "none", c))
          /\ UNCHANGED <<cur, ee, err>>
       ELSE
          /\ Step(t, AddLabel(graph, t, [New("ThreadJoin", "none", c)
                                           EXCEPT !.other = LastPos(graph, c)]),
                  "none", 0)
          /\ err' = IF c = t THEN "InvalidJoin" ELSE err
    /\ UNCHANGED <<moot, resched>> /\ Steady

\* handleThreadFinish(): relieve the threads that wait for t.
\* Seeded fault: a finished thread relieves nobody.
FaultFinish(G, t) == AddLabel(G, t, New("ThreadFinish", "none", 0))

Finish(G, t) ==
    UnblockAll(AddLabel(G, t, New("ThreadFinish", "none", 0)),
               LAMBDA l : l.k = "JoinBlock" /\ l.v = t)

FinishThread(t) ==
    /\ Runs(t, "ret", "none") \/ Runs(t, "exit", "none")
    /\ graph' = IF Driven(t) THEN graph ELSE Finish(graph, t)
    /\ ee' = [ee EXCEPT ![t].n = @ + 1, ![t].alive = FALSE]
    /\ UNCHANGED cur /\ NoError /\ Steady

\* callKillThread(): the stack is dropped and no label is added.
KillThread(t) ==
    /\ Runs(t, "kill", "none")
    /\ ee' = [ee EXCEPT ![t].alive = FALSE]
    /\ UNCHANGED <<cur, graph>> /\ NoError /\ Steady

\* A branch on the last value: skip the next instruction unless it is v.
Branch(t) ==
    /\ Runs(t, "unless", "none")
    /\ ee' = [ee EXCEPT ![t].pc = @ + IF ee[t].reg = Instr(t).v THEN 2 ELSE 1]
    /\ UNCHANGED <<cur, graph>> /\ NoError /\ Steady

(***************************************************************************)
(* Loads and stores.                                                       *)
(***************************************************************************)
\* Seeded fault: the first of the options is taken, not the maximal one.
FaultRfOption(x) ==
    LET S == Stores(graph, x) IN
    IF S = {} THEN Init0
    ELSE CHOOSE p \in S : \A q \in S : Lab(graph, p).st <= Lab(graph, q).st

\* handleLoad(): "Coherence-maximal is at the end" of the options
RfOption(x) == CoMax(graph, x)

\* The graph after handleLoad() of kind k, and the value it returns
Loaded(t, k, x) == IF Driven(t) THEN graph ELSE AddLabel(graph, t, [New(k, x, 0) EXCEPT !.rf = RfOption(x)])
LoadValue(t, x) == IF Driven(t) THEN ReadValue(graph, Pos(t))
                   ELSE WriteValue(graph, RfOption(x))

\* checkReconsiderReadOpts(): a store wakes the reads removed for its location.
Reconsider(G, x) == UnblockAll(G, LAMBDA l : l.k = "ReadOptBlock" /\ l.x = x)

Stored(t, k, x, v) ==
    IF Driven(t) THEN graph ELSE Reconsider(AddLabel(graph, t, New(k, x, v)), x)

Load(t) ==
    /\ Runs(t, "load", "none")
    /\ Step(t, Loaded(t, "Read", Instr(t).x), "none", LoadValue(t, Instr(t).x))
    /\ NoError /\ Steady

Store(t) ==
    /\ Runs(t, "store", "none")
    /\ Step(t, Stored(t, "Write", Instr(t).x, Instr(t).v), "none", 0)
    /\ NoError /\ Steady

\* The thread stores its argument.
StoreArg(t) ==
    /\ Runs(t, "storearg", "none")
    /\ Step(t, Stored(t, "Write", Instr(t).x, ee[t].arg), "none", 0)
    /\ NoError /\ Steady

\* getPreviousVisibleAccessLabel()
PrevAccess(t) ==
    LET S == {i \in 2 .. Len(graph.ev[t]) : graph.ev[t][i].k \in Mem \union Reads}
    IN  IF S = {} THEN New("Init", "none", 0) ELSE graph.ev[t][Max(S)]

\* handleBlock(): block, and give the execution up if the read that blocked
\* the thread cannot be revisited any more.
HandleBlock(t, k) ==
    /\ Step(t, IF Driven(t) THEN graph ELSE AddLabel(graph, t, New(k, "none", 0)),
            "none", ee[t].reg)
    /\ moot' = (moot \/ (PrevAccess(t).k \in Reads /\ ~PrevAccess(t).rev))
    /\ UNCHANGED <<err, resched>> /\ Steady

Skip(t) ==
    /\ ee' = [ee EXCEPT ![t].pc = @ + 1]
    /\ UNCHANGED <<cur, graph>> /\ NoError /\ Steady

Assume(t) ==
    /\ Runs(t, "assume", "none")
    /\ IF ee[t].reg = Instr(t).v THEN Skip(t) ELSE HandleBlock(t, "UserBlock")

SpinStart(t) ==
    /\ Runs(t, "spinstart", "none")
    /\ Step(t, IF Driven(t) THEN graph
               ELSE AddLabel(graph, t, New("SpinStart", "none", 0)), "none", ee[t].reg)
    /\ NoError /\ Steady

SpinEnd(t) ==
    /\ Runs(t, "spinend", "none")
    /\ IF ee[t].reg = Instr(t).v THEN Skip(t) ELSE HandleBlock(t, "SpinloopBlock")

(***************************************************************************)
(* Mutexes: 0 is free, 1 is held, -1 is destroyed.                         *)
(***************************************************************************)
\* checkInitializedMem(ReadLabel): what reading value v from rf is reported as
LoadError(k, rf, v) ==
    CASE k = "LockCasRead" /\ v = -1 -> "UninitializedMem"
      [] k = "BIncFaiRead" /\ rf = Init0 -> "UninitializedMem"
      [] k = "BIncFaiRead" /\ rf # Init0 /\ v = 0 -> "AccessFreed"
      [] OTHER -> "OK"

\* removeCASReadIfBlocks(): a lock() that would wait leaves a ReadOptBlock
\* in place of its read, unless the read is being rescheduled.
RemoveIfBlocks(t, v) == ~conf.mixer /\ v = 1 /\ resched # Pos(t)

LockRead(t) ==
    /\ Runs(t, "lock", "none") \/ Runs(t, "lock", "again")
    /\ LET x == Instr(t).x
           v == LoadValue(t, x)
       IN
       IF ~Driven(t) /\ RemoveIfBlocks(t, v) THEN
          /\ graph' = [BlockThread(graph, t, New("ReadOptBlock", x, 0)) EXCEPT !.last = Pos(t)]
          /\ cur' = Idle
          /\ UNCHANGED <<ee, err, resched>>
       ELSE IF ~Driven(t) /\ LoadError("LockCasRead", RfOption(x), v) # "OK" THEN
          /\ graph' = Loaded(t, "LockCasRead", x)
          /\ err' = LoadError("LockCasRead", RfOption(x), v)
          /\ cur' = Idle
          /\ UNCHANGED <<ee, resched>>
       ELSE
          /\ Step(t, Loaded(t, "LockCasRead", x), IF v = 0 THEN "write" ELSE "block", 0)
          /\ resched' = IF resched = Pos(t) THEN Init0 ELSE resched
          /\ err' = err
    /\ moot' = moot /\ Steady

LockWrite(t) ==
    /\ Runs(t, "lock", "write")
    /\ Step(t, Stored(t, "LockCasWrite", Instr(t).x, 1), "none", 0)
    /\ NoError /\ Steady

LockBlock(t) == Runs(t, "lock", "block") /\ HandleBlock(t, "LockNotAcqBlock")

TrylockRead(t) ==
    /\ Runs(t, "trylock", "none")
    /\ LET x == Instr(t).x
           v == LoadValue(t, x)
       IN Step(t, Loaded(t, "TrylockCasRead", x), IF v = 0 THEN "write" ELSE "none",
               IF v = 0 THEN 0 ELSE 1)
    /\ NoError /\ Steady

TrylockWrite(t) ==
    /\ Runs(t, "trylock", "write")
    /\ Step(t, Stored(t, "TrylockCasWrite", Instr(t).x, 1), "none", 0)
    /\ NoError /\ Steady

\* getMatchingLock(): backwards from the unlock, a lock of x that no later
\* unlock of x belongs to
Count(t, from, kinds, x) ==
    Cardinality({j \in from .. Len(graph.ev[t]) :
                   graph.ev[t][j].k \in kinds /\ graph.ev[t][j].x = x})

MatchingLock(t, x) ==
    \E j \in 2 .. Len(graph.ev[t]) :
        Count(t, j, {"LockCasWrite", "TrylockCasWrite"}, x)
          > Count(t, j, {"UnlockWrite"}, x)

Unlock(t) ==
    /\ Runs(t, "unlock", "none")
    /\ Step(t, Stored(t, "UnlockWrite", Instr(t).x, 0), "none", 0)
    /\ err' = IF ~Driven(t) /\ ~MatchingLock(t, Instr(t).x) THEN "InvalidUnlock" ELSE err
    /\ UNCHANGED <<moot, resched>> /\ Steady

\* callMutexInit() and callMutexDestroy()
MutexSet(t) ==
    /\ Runs(t, "mutexinit", "none") \/ Runs(t, "mutexdestroy", "none")
    /\ Step(t, Stored(t, "Write", Instr(t).x, IF Instr(t).op = "mutexinit" THEN 0 ELSE -1),
            "none", 0)
    /\ NoError /\ Steady

(***************************************************************************)
(* Barriers: the threads still to arrive; the last one resets it.          *)
(***************************************************************************)
\* getBarrierInitValue(): the first store to the barrier is its initialization
BarrierInitValue(G, x) ==
    LET S == {p \in Stores(G, x) : Lab(G, p).k \in {"BInitWrite", "BDestroyWrite"}}
    IN  Lab(G, CHOOSE p \in S : \A q \in S : Lab(G, p).st <= Lab(G, q).st).v

BarrierInit(t) ==
    /\ Runs(t, "barrierinit", "none")
    /\ Step(t, Stored(t, "BInitWrite", Instr(t).x, Instr(t).v), "none", 0)
    /\ err' = IF /\ ~Driven(t)
                 /\ \/ Instr(t).v = 0
                    \/ \E p \in Stores(graph, Instr(t).x) : Lab(graph, p).k = "BInitWrite"
              THEN "InvalidBInit" ELSE err
    /\ UNCHANGED <<moot, resched>> /\ Steady

BarrierArrive(t) ==
    /\ Runs(t, "barrierwait", "none")
    /\ LET x == Instr(t).x
           v == LoadValue(t, x)
           e == IF Driven(t) THEN "OK" ELSE LoadError("BIncFaiRead", RfOption(x), v)
       IN /\ IF e = "OK" THEN Step(t, Loaded(t, "BIncFaiRead", x), "inc", v)
             ELSE graph' = Loaded(t, "BIncFaiRead", x) /\ cur' = Idle /\ UNCHANGED ee
          /\ err' = IF e = "OK" THEN err ELSE e
    /\ UNCHANGED <<moot, resched>> /\ Steady

\* tryOptimizeBarrierRevisits(): the threads blocked at the barrier of the
\* store at p read the store instead, in place.
ReleaseBlocked(G, p) ==
    LET B == {t \in Tids(G) : /\ LastLab(G, t).k = "BarrierBlock"
                              /\ G.ev[t][Len(G.ev[t]) - 1].x = Lab(G, p).x}
        Again(t) ==
            LET base == [G EXCEPT !.ev[t] = SubSeq(@, 1, Len(@) - 2),
                                  !.ts = @ + Cardinality({u \in B : u < t})]
            IN  AddLabel(base, t, [New("BWaitRead", Lab(G, p).x, 0) EXCEPT !.rf = p])
    IN  [ev |-> [t \in Tids(G) |-> IF t \in B THEN Again(t).ev[t] ELSE G.ev[t]],
         ts |-> G.ts + Cardinality(B),
         last |-> IF B = {} THEN G.last ELSE Again(Max(B)).last]

BarrierIncrement(t) ==
    /\ Runs(t, "barrierwait", "inc")
    /\ LET x == Instr(t).x
           init == BarrierInitValue(graph, x)
           v == IF ee[t].reg = 1 THEN init ELSE ee[t].reg - 1
           G == Stored(t, "BIncFaiWrite", x, v)
       IN Step(t, IF ~Driven(t) /\ ~conf.mixer /\ v = init THEN ReleaseBlocked(G, Pos(t))
                  ELSE G, "wait", v)
    /\ NoError /\ Steady

\* handleLoad() of the last part of barrier_wait(): block unless reset
BlockIfWaiting(G, t, x) ==
    IF ReadValue(G, LastPos(G, t)) # BarrierInitValue(G, x)
    THEN BlockThread(G, t, New("BarrierBlock", x, 0)) ELSE G

BarrierWait(t) ==
    /\ Runs(t, "barrierwait", "wait")
    /\ Step(t, IF Driven(t) THEN graph
               ELSE BlockIfWaiting(Loaded(t, "BWaitRead", Instr(t).x), t, Instr(t).x),
            "none", 0)
    /\ NoError /\ Steady

BarrierDestroy(t) ==
    /\ Runs(t, "barrierdestroy", "none")
    /\ Step(t, Stored(t, "BDestroyWrite", Instr(t).x, 0), "none", 0)
    /\ NoError /\ Steady

(***************************************************************************)
(* The end of an execution, and the next one.                              *)
(***************************************************************************)
IsExecutionBlocked == \E t \in Tids(graph) : LastLab(graph, t).k \in Blocks

SpinBlocked == {t \in Tids(graph) : LastLab(graph, t).k = "SpinloopBlock"}

\* threadReadsMaximal(): the reads of the loop body, back to its SpinStart
\* Seeded fault: the last read of the body is skipped.
FaultLoopReads(t) ==
    LET n == Len(graph.ev[t])
        top == Max({i \in 1 .. (n - 1) : graph.ev[t][i].k = "SpinStart"})
    IN  {i \in top .. (n - 2) : graph.ev[t][i].k \in Reads}

LoopReads(t) ==
    LET n == Len(graph.ev[t])
        top == Max({i \in 1 .. (n - 1) : graph.ev[t][i].k = "SpinStart"})
    IN  {i \in top .. (n - 1) : graph.ev[t][i].k \in Reads}

ThreadReadsMaximal(t) ==
    \A i \in LoopReads(t) :
        graph.ev[t][i].rf = CoMax(graph, graph.ev[t][i].x)

CheckLiveness ==
    SpinBlocked # {} /\ \A t \in SpinBlocked : ThreadReadsMaximal(t)

EndExecution ==
    /\ phase = "run" /\ cur = Idle
    /\ ScheduleNext = {}
    /\ moot \/ err # "OK" \/ ReadOptBlocked = {}
    /\ phase' = "end"
    /\ err' = IF ~moot /\ err = "OK" /\ IsExecutionBlocked /\ CheckLiveness
              THEN "Liveness" ELSE err
    /\ UNCHANGED <<prog, conf, graph, ee, cur, resched, moot, revisits>>

\* The labels of the graph after read r was revisited by store w, in the
\* view of the read's predecessors and the store's prefix; begin labels stay.
Kept(G, r, w, p) == p[2] = 0 \/ Lab(G, p).st <= Lab(G, r).st \/ p \in Lab(G, w).pre

CopyGraph(G, r, w) ==
    [G EXCEPT !.last = r, !.ev = [t \in Tids(G) |->
        LET kept == {i \in 1 .. Len(G.ev[t]) : Kept(G, r, w, <<t, i - 1>>)} IN
        [i \in 1 .. Cardinality(kept) |->
            [G.ev[t][i] EXCEPT
                !.rev = @ /\ <<t, i - 1>> \notin Lab(G, w).pre,
                !.rf = IF <<t, i - 1>> = r THEN w ELSE @,
                !.pre = IF <<t, i - 1>> = r THEN @ \union Lab(G, w).pre ELSE @]]]]

\* completeRevisitedRMW(): the write of an RMW whose read now succeeds
CompleteRMW(G, r) ==
    LET l == Lab(G, r)
        v == ReadValue(G, r)
    IN  CASE l.k = "LockCasRead" /\ v = 0 -> AddLabel(G, r[1], New("LockCasWrite", l.x, 1))
          [] l.k = "TrylockCasRead" /\ v = 0 -> AddLabel(G, r[1], New("TrylockCasWrite", l.x, 1))
          [] l.k = "BIncFaiRead" ->
                AddLabel(G, r[1], New("BIncFaiWrite", l.x,
                                      IF v = 1 THEN BarrierInitValue(G, l.x) ELSE v - 1))
          [] l.k = "BWaitRead" -> BlockIfWaiting(G, r[1], l.x)
          [] OTHER -> G

\* handleExecutionStart(): the threads whose stack is set up again
Restarts(G, t) ==
    LET p == G.ev[t][1].other IN
    \/ t = 0
    \/ /\ p[2] < Len(G.ev[p[1]]) /\ Lab(G, p).k = "ThreadCreate"
       /\ LastLab(G, t).k # "ThreadFinish"

Revisits(G) ==
    {<<r, w>> \in Positions(G) \X Positions(G) :
        /\ Lab(G, w).k \in Mem /\ Lab(G, r).k \in Reads /\ Lab(G, r).x = Lab(G, w).x
        /\ Lab(G, r).rev /\ Lab(G, r).st < Lab(G, w).st /\ r[1] < w[1]
        /\ r \notin Lab(G, w).pre}

Revisit ==
    /\ phase = "end" /\ err = "OK" /\ conf.mixer /\ revisits < MaxRevisits
    /\ \E rw \in Revisits(graph) :
         LET r == rw[1]
             G == CompleteRMW(CopyGraph(graph, r, rw[2]), r)
             e == LoadError(Lab(G, r).k, Lab(G, r).rf, ReadValue(G, r))
         IN /\ graph' = G
            /\ ee' = [t \in DOMAIN ee |->
                        [ee[t] EXCEPT !.pc = 1, !.n = 0, !.reg = 0,
                                      !.alive = Restarts(G, t)]]
            /\ err' = e
            /\ phase' = IF e = "OK" THEN "run" ELSE "end"
    /\ cur' = Idle /\ resched' = Init0 /\ moot' = FALSE
    /\ revisits' = revisits + 1
    /\ UNCHANGED <<prog, conf>>

Init ==
    /\ \E c \in Cases : prog = c.prog /\ conf = c.conf
    /\ graph = Empty
    /\ ee = [t \in {0} |-> Fresh("main", 0)]
    /\ cur = Idle /\ resched = Init0 /\ moot = FALSE /\ err = "OK"
    /\ phase = "run" /\ revisits = 0

Terminated == phase # "run" /\ UNCHANGED vars

Next ==
    \/ \E t \in DOMAIN ee :
         \/ CreateThread(t) \/ JoinThread(t) \/ FinishThread(t) \/ KillThread(t)
         \/ Branch(t) \/ Load(t) \/ Store(t) \/ StoreArg(t)
         \/ Assume(t) \/ SpinStart(t) \/ SpinEnd(t)
         \/ LockRead(t) \/ LockWrite(t) \/ LockBlock(t)
         \/ TrylockRead(t) \/ TrylockWrite(t) \/ Unlock(t) \/ MutexSet(t)
         \/ BarrierInit(t) \/ BarrierArrive(t) \/ BarrierIncrement(t)
         \/ BarrierWait(t) \/ BarrierDestroy(t)
    \/ RescheduleReads \/ EndExecution \/ Revisit \/ Terminated

Spec == Init /\ [][Next]_vars /\ WF_vars(Next)

(***************************************************************************)
(* Properties.                                                             *)
(***************************************************************************)
(* The state has its type: every read reads a store to its location that is *)
(* still in the graph, and stamps increase along program order.            *)
TypeOK ==
    /\ phase \in {"run", "end", "bug"} /\ moot \in BOOLEAN /\ revisits \in 0 .. MaxRevisits
    /\ \A p \in Positions(graph) :
         LET l == Lab(graph, p) IN
         /\ l.st < graph.ts
         /\ l.k \in Reads => l.rf = Init0 \/ l.rf \in Stores(graph, l.x)
         /\ p[2] > 1 => Lab(graph, <<p[1], p[2] - 1>>).st < l.st

Holds(t, x) ==
    Count(t, 1, {"LockCasWrite", "TrylockCasWrite"}, x) > Count(t, 1, {"UnlockWrite"}, x)

(* A mutex is held by at most one thread of the graph, through locks,      *)
(* trylocks, foreign or repeated unlocks (which handleStore() must report) *)
(* and revisits that cut the graph in the middle of a critical section.    *)
MutualExclusion ==
    err = "OK" =>
      \A x \in {Lab(graph, p).x : p \in Positions(graph)} :
        Cardinality({t \in Tids(graph) : Holds(t, x)}) <= 1

(* The write of a lock, trylock or barrier arrival directly follows, in    *)
(* coherence, the store its read reads from, also when the write was added *)
(* by a revisit (completeRevisitedRMW()).                                  *)
RMWsAtomic ==
    \A p \in Positions(graph) :
        Lab(graph, p).k \in RMWWrites =>
            LET rf == Lab(graph, <<p[1], p[2] - 1>>).rf
                S == Stores(graph, Lab(graph, p).x)
                from == IF rf = Init0 THEN -1 ELSE Lab(graph, rf).st
            IN  \A q \in S : ~(from < Lab(graph, q).st /\ Lab(graph, q).st < Lab(graph, p).st)

(* No join is lost: a thread waiting in pthread_join() waits for a thread  *)
(* that has not finished, in the order finish-then-join, join-then-finish  *)
(* and across the cuts of a revisit.                                       *)
NoLostJoin ==
    \A t \in Tids(graph) :
        LET l == LastLab(graph, t) IN
        l.k = "JoinBlock" => LastLab(graph, l.v).k # "ThreadFinish"

\* The stores of the barrier x up to the one at p, and how many make a round
Arrivals(x, p) == {q \in Stores(graph, x) : /\ Lab(graph, q).k = "BIncFaiWrite"
                                            /\ Lab(graph, q).st <= Lab(graph, p).st}

(* Nobody leaves barrier_wait() early: a thread with an event after its    *)
(* BWaitRead has read the reset value, and every arrival of that round and *)
(* the earlier ones is in its porf-prefix.                                 *)
BarrierHolds ==
    \A p \in Positions(graph) :
        LET l == Lab(graph, p)
            after == <<p[1], p[2] + 1>>
        IN  /\ l.k = "BWaitRead"
            /\ after \in Positions(graph) /\ Lab(graph, after).k # "BarrierBlock"
            => /\ Cardinality(Arrivals(l.x, l.rf)) % BarrierInitValue(graph, l.x) = 0
               /\ Arrivals(l.x, l.rf) \subseteq l.pre

(* With in-place barrier revisits (BAM) nobody is left behind: once an     *)
(* execution is over, a thread blocked at a barrier is one whose round     *)
(* never completed.                                                        *)
BarrierReleases ==
    phase = "end" /\ ~conf.mixer =>
      \A t \in Tids(graph) :
        LET l == LastLab(graph, t) IN
        l.k = "BarrierBlock" =>
            \A p \in Stores(graph, l.x) :
                Lab(graph, p).k = "BIncFaiWrite" /\ Lab(graph, p).v = BarrierInitValue(graph, l.x)
                => Lab(graph, p).st < graph.ev[t][Len(graph.ev[t]) - 2].st

(* No waiter is left at a free mutex: the reads removed by the lock        *)
(* optimisation are run again, and no thread ends an execution waiting for *)
(* a mutex that nobody holds.                                              *)
NoLostLock ==
    phase = "end" /\ ~conf.mixer /\ err = "OK" =>
      /\ ReadOptBlocked = {}
      /\ \A t \in Tids(graph) :
           LastLab(graph, t).k = "LockNotAcqBlock" =>
             WriteValue(graph, CoMax(graph, graph.ev[t][Len(graph.ev[t]) - 1].x)) # 0

\* The label the next event of thread t's instruction makes
Expected(t) ==
    LET op == Instr(t).op
        at == IF cur.t = t THEN cur.at ELSE "none"
    IN  CASE op = "create" -> {"ThreadCreate"}
          [] op = "join" -> {"ThreadJoin"}
          [] op \in {"ret", "exit"} -> {"ThreadFinish"}
          [] op = "load" -> {"Read"}
          [] op \in {"store", "storearg", "mutexinit", "mutexdestroy"} -> {"Write"}
          [] op = "assume" -> {"UserBlock"}
          [] op = "spinstart" -> {"SpinStart"}
          [] op = "spinend" -> {"SpinloopBlock"}
          [] op = "lock" /\ at \in {"none", "again"} -> {"LockCasRead"}
          [] op = "lock" /\ at = "write" -> {"LockCasWrite"}
          [] op = "lock" /\ at = "block" -> {"LockNotAcqBlock"}
          [] op = "trylock" /\ at = "none" -> {"TrylockCasRead"}
          [] op = "trylock" /\ at = "write" -> {"TrylockCasWrite"}
          [] op = "unlock" -> {"UnlockWrite"}
          [] op = "barrierinit" -> {"BInitWrite"}
          [] op = "barrierwait" /\ at = "none" -> {"BIncFaiRead"}
          [] op = "barrierwait" /\ at = "inc" -> {"BIncFaiWrite"}
          [] op = "barrierwait" /\ at = "wait" -> {"BWaitRead"}
          [] op = "barrierdestroy" -> {"BDestroyWrite"}
          [] OTHER -> {}

Silent == {"unless", "assume", "spinend", "kill"}

(* Interpreter and graph stay aligned: a thread is never ahead of the      *)
(* graph, and an event that is replayed finds the label its instruction    *)
(* made before, although joins and removed locks were undone and redone.   *)
ReplayAgrees ==
    phase = "run" =>
      \A t \in Schedulable :
        /\ ee[t].n < Len(graph.ev[t])
        /\ Driven(t) /\ Instr(t).op \notin Silent => Found(t).k \in Expected(t)

(* Thread numbers are stable: the creating label, the begin label and the  *)
(* interpreter agree on number, function and argument of every thread,     *)
(* although begin labels survive the cut that removed their creation.      *)
ThreadsAgree ==
    phase # "bug" =>
      \A p \in Positions(graph) :
        LET l == Lab(graph, p) IN
        l.k = "ThreadCreate" =>
            /\ l.v \in Tids(graph) \intersect DOMAIN ee
            /\ graph.ev[l.v][1].other = p
            /\ graph.ev[l.v][1].x = l.x /\ graph.ev[l.v][1].arg = l.arg
            /\ ee[l.v].fn = l.x /\ ee[l.v].arg = l.arg

(* A liveness error is a real one: whoever spins has read, in its last     *)
(* iteration, only values that are final, and nobody else can run.         *)
LivenessErrorReal ==
    err = "Liveness" =>
      /\ Schedulable = {} /\ ReadOptBlocked = {}
      /\ \A t \in SpinBlocked : \A i \in 1 .. (Len(graph.ev[t]) - 1) :
           (/\ graph.ev[t][i].k = "Read"
            /\ \A j \in (i + 1) .. Len(graph.ev[t]) : graph.ev[t][j].k \notin {"SpinStart"})
           => \A p \in Stores(graph, graph.ev[t][i].x) :
                 Lab(graph, p).st <= (IF graph.ev[t][i].rf = Init0 THEN -1
                                      ELSE Lab(graph, graph.ev[t][i].rf).st)

(* Every execution comes to its end: blocking, undoing and rescheduling    *)
(* never run in circles (run() is one loop that always takes a next step). *)
EveryExecutionEnds == phase = "run" ~> phase # "run"

(* Nobody passes a lock, a trylock or a barrier that is not open to it,    *)
(* through all revisits of the reads and completions of the RMWs of        *)
(* callMutexLock(), callMutexTrylock() and callBarrierWait().              *)
CriticalSections == RMWsAtomic /\ MutualExclusion /\ BarrierHolds

(* Nobody waits for what has happened: a thread that finished, a mutex     *)
(* that was released, a barrier whose round is complete.                   *)
NoLostWakeup == NoLostJoin /\ NoLostLock /\ BarrierReleases

(* An execution that is replayed after a revisit is the one in the graph:  *)
(* same labels, same threads with the same functions and arguments.        *)
ReplayFaithful == TypeOK /\ ReplayAgrees /\ ThreadsAgree
=============================================================================
