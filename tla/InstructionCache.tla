-------------------------- MODULE InstructionCache --------------------------
(***************************************************************************)
(* Instruction caching (cacheEventLabel and tryOptimizeScheduling of       *)
(* src/GenMCDriver.cpp).  What a thread executes next is a function of the *)
(* values it has read; the driver therefore remembers, per thread and per  *)
(* sequence of values, the labels that followed, and in a later execution  *)
(* adds them without running the interpreter, which catches up by replay.  *)
(* Between executions a revisit cuts the graph and changes a value, and a  *)
(* driver that hands a graph to the thread pool parts with its cache.      *)
(***************************************************************************)
EXTENDS EventLabel, Trie

CONSTANTS
    Threads,        \* the threads of the program
    Code,           \* Code[t][vals]: the classes of the labels t adds after
                    \* reading vals, up to the next label with a value
    Child,          \* the thread a join of t waits for
    Values,         \* the values a read can return
    MaxRevisits     \* bound on revisits, and on hand-overs to the pool

ASSUME CodeAssumption ==
    /\ \A t \in Threads : Child[t] \in Threads /\ <<0>> \in DOMAIN Code[t]
    /\ 0 \in Values

VARIABLES
    rtti,       \* the classes of labels, fixed when the program is compiled
    graph,      \* the labels of each thread
    pos,        \* how many of them the interpreter has executed
    cache,      \* seenPrefixes
    serving,    \* the cached labels being dispatched; <<>> if none are
    over,       \* "moot" if this execution is given up, "halt" if exploration is
    left,       \* revisits and hand-overs left
    bug         \* a BUG_ON has fired
vars == << rtti, graph, pos, cache, serving, over, left, bug >>

-----------------------------------------------------------------------------
(* The graph.                                                              *)

LabelIs(c, lab) == c \in rtti[lab.class].isa
ValueLabels(labs) == {i \in DOMAIN labs : rtti[labs[i].class].hasValue}
KnownToExtract(lab) == \E c \in ExtractedClasses : LabelIs(c, lab)
LastValue(labs) == Max(ValueLabels(labs))

\* The values of a thread's labels, in program order.
ExtractValPrefix(labs) ==
    LET valued == SelectSeq(labs, KnownToExtract)
    IN [i \in DOMAIN valued |-> valued[i].val]

\* What the program does after labs: the class of its next label.
NextClass(t, labs) ==
    LET vals == ExtractValPrefix(labs)
    IN Code[t][vals][Len(labs) - LastValue(labs) + 1]

Finished(g, t) == LabelIs("ThreadFinishLabel", Last(g[t]))
Blocked(g, t) == LabelIs("BlockLabel", Last(g[t]))
Schedulable(g, t) == ~rtti[Last(g[t]).class].terminator
Idle == serving = <<>> /\ (over # "no" \/ \A t \in Threads : ~Schedulable(graph, t))
\* scheduleNext picks t, in the run loop.
RunsNext(t) == serving = <<>> /\ over = "no" /\ ~bug /\ Schedulable(graph, t)

StartLabel == [class |-> "ThreadStartLabel", val |-> 0,
               info |-> {"stamp", "prefixView"}, via |-> "start"]

\* A label as its constructor leaves it; "info" names the graph-related
\* fields that no longer have their default values.
Fresh(class) == [class |-> class, info |-> {}]

-----------------------------------------------------------------------------
(* Caching.                                                                *)

\* A clone of the label, reset.
CachedLabel(class, i, info) ==
    [class |-> class, idx |-> i, info |-> info \ rtti[class].reset]

\* The labels fromIdx+1 .. toIdx of a thread, the last of which is lab.
CachedLabels(labs, lab, fromIdx, toIdx) ==
    [k \in 1..(toIdx - fromIdx) |->
        IF fromIdx + k = toIdx THEN CachedLabel(lab.class, toIdx, lab.info)
        ELSE CachedLabel(labs[fromIdx + k].class, fromIdx + k, labs[fromIdx + k].info)]

\* The payload of a node of thread t's trie; nothing without a node.
Payload(c, t, node) == IF node = 0 THEN <<>> ELSE c[t][node].dat

\* A key nobody has inserted: the labels since the last value are inserted.
Inserted(c, t, added) ==
    [cache |-> [c EXCEPT ![t] = added.trie], bug |-> added.res # "added"]

\* What cacheEventLabel does for a label that becomes number toIdx, after
\* "last", the last one with a value, when the trie has "data" for vals.
CacheAfter(c, t, labs, lab, vals, node, data, last, toIdx) ==
    CASE data # <<>> /\ Last(data).idx >= toIdx -> [cache |-> c, bug |-> FALSE]
      [] node = 0 ->
           Inserted(c, t, AddSeq(c[t], vals, CachedLabels(labs, lab, last, toIdx)))
      [] node # 0 /\ data = <<>> ->
           [cache |-> [c EXCEPT ![t] = SetData(@, vals,
                          CachedLabels(labs, lab, last, toIdx))],
            bug |-> last >= toIdx]
      [] OTHER ->
           [cache |-> [c EXCEPT ![t] = SetData(@, vals,
                          data \o CachedLabels(labs, lab, Last(data).idx, toIdx))],
            bug |-> Last(data).idx + 1 # toIdx]

CacheAtKey(c, t, labs, lab, vals, node) ==
    CacheAfter(c, t, labs, lab, vals, node, Payload(c, t, node), LastValue(labs),
               Len(labs) + 1)
CacheUnder(c, t, labs, lab, vals) ==
    CacheAtKey(c, t, labs, lab, vals, Lookup(c[t], vals))

\* cacheEventLabel, for a label about to become the next of thread t.
CacheEventLabel(g, c, t, lab) ==
    CacheUnder(c, t, g[t], lab, ExtractValPrefix(g[t]))

-----------------------------------------------------------------------------
(* Handlers.  A handler works on S, the graph, the cache and the BUG flag, *)
(* and gets a label and the handler's name "via".                          *)

\* "expandable" and "expanded" are given to the label, the rest the graph sets.
Placed(lab, val, via) ==
    LET given == {"expandable", "expanded"}
    IN [class |-> lab.class, val |-> val, via |-> via,
        info |-> (rtti[lab.class].fields \ given) \cup (lab.info \cap given)]

AddPlaced(S, t, new, cached) ==
    [graph |-> [S.graph EXCEPT ![t] = Append(@, new)],
     cache |-> cached.cache, bug |-> S.bug \/ cached.bug]

\* addLabelToGraph.
AddLabel(S, t, lab, val, via) ==
    AddPlaced(S, t, Placed(lab, val, via), CacheEventLabel(S.graph, S.cache, t, lab))

\* blockThread bypasses the cache: whether a join, a barrier or a lock must
\* wait depends on other threads, not on the values this one has read.
BlockThread(S, t, class) ==
    [S EXCEPT !.graph[t] =
        Append(@, [class |-> class, val |-> 0, info |-> {}, via |-> "blockThread"])]

HandleThreadJoin(S, t, lab, via) ==
    IF ~Finished(S.graph, Child[t]) THEN BlockThread(S, t, "JoinBlockLabel")
    ELSE AddLabel(S, t, lab, Last(ExtractValPrefix(S.graph[Child[t]])), via)

\* A finished thread releases the one blocked on joining it.
HandleThreadFinish(S, t, lab, via) ==
    LET waits(u) == Child[u] = t /\ Last(S.graph[u]).class = "JoinBlockLabel"
        free == [u \in Threads |-> IF waits(u) THEN Front(S.graph[u]) ELSE S.graph[u]]
    IN AddLabel([S EXCEPT !.graph = free], t, lab, 0, via)

\* A block may be expanded unless another was; the label is marked before it
\* is cached.
HandleOptional(S, t, lab, via) ==
    LET taken == \E u \in Threads : \E i \in DOMAIN S.graph[u] :
                    /\ LabelIs("OptionalLabel", S.graph[u][i])
                    /\ "expandable" \in S.graph[u][i].info
    IN AddLabel(S, t,
                [lab EXCEPT !.info = @ \cup (IF taken THEN {"expandable"} ELSE {})],
                0, via)

\* Seeded fault: a label the graph has is added again.
FaultHandle(S, t, i, lab, via) ==
    CASE via = "handleThreadJoin" -> HandleThreadJoin(S, t, lab, via)
      [] via = "handleThreadFinish" -> HandleThreadFinish(S, t, lab, via)
      [] via = "handleOptional" -> HandleOptional(S, t, lab, via)
      [] OTHER -> AddLabel(S, t, lab, 0, via)

\* handleX: nothing for a label the graph already has.
Handle(S, t, i, lab, via) ==
    IF i <= Len(S.graph[t]) THEN S
    ELSE CASE via = "handleThreadJoin" -> HandleThreadJoin(S, t, lab, via)
           [] via = "handleThreadFinish" -> HandleThreadFinish(S, t, lab, via)
           [] via = "handleOptional" -> HandleOptional(S, t, lab, via)
           [] via = "BUG" -> [S EXCEPT !.bug = TRUE]
           [] OTHER -> AddLabel(S, t, lab, 0, via)

-----------------------------------------------------------------------------
(* The run loop of the interpreter.                                        *)

\* Seeded fault: a cached sequence the graph already has is served again.
FaultCachedSuccessors(g, c, t) ==
    Payload(c, t, Lookup(c[t], ExtractValPrefix(g[t])))

BeyondGraph(data, len) == IF data = <<>> \/ Last(data).idx < len + 1 THEN <<>> ELSE data

\* The labels cached after the values thread t has read, if they reach
\* beyond what the graph has.
CachedSuccessors(g, c, t) ==
    BeyondGraph(Payload(c, t, Lookup(c[t], ExtractValPrefix(g[t]))), Len(g[t]))

Now == [graph |-> graph, cache |-> cache, bug |-> bug]
Become(S) == graph' = S.graph /\ cache' = S.cache /\ bug' = S.bug

\* A handler may give up the execution: handleStore after the write of an update that
\* violates atomicity, handleBlock after a block that follows a read added out of order.
\* Which they are, the stores and stamps of the graph decide.
MayMoot == {"FaiWriteLabel", "CasWriteLabel", "UserBlockLabel", "SpinloopBlockLabel"}
Outcomes(S, t) ==
    {over} \cup {"moot" : c \in {c \in MayMoot : LabelIs(c, Last(S.graph[t]))}}

\* tryOptimizeScheduling finds labels to add for the scheduled thread.
FromCache(t) ==
    /\ RunsNext(t)
    /\ CachedSuccessors(graph, cache, t) # <<>>
    /\ serving' = [thread |-> t, labels |-> CachedSuccessors(graph, cache, t)]
    /\ UNCHANGED << rtti, graph, pos, cache, over, left, bug >>

\* It dispatches them in order, until the thread blocks, the execution is moot,
\* exploration halts or none is left; no other thread and no revisit comes
\* between.
Dispatched ==
    /\ serving # <<>> /\ ~bug
    /\ LET t == serving.thread
           lab == Head(serving.labels)
       IN \E S \in {Handle(Now, t, lab.idx, lab, rtti[lab.class].handler)} :
            /\ Become([S EXCEPT !.bug = @ \/ "stamp" \in lab.info])
            /\ over' \in Outcomes(S, t)
            /\ serving' = IF Blocked(S.graph, t) \/ over' # "no" \/ Len(serving.labels) = 1
                          THEN <<>> ELSE [serving EXCEPT !.labels = Tail(@)]
    /\ UNCHANGED << rtti, pos, left >>

\* The interpreter executes an instruction whose label the graph has.
Replay(t) ==
    /\ RunsNext(t)
    /\ CachedSuccessors(graph, cache, t) = <<>>
    /\ pos[t] < Len(graph[t])
    /\ pos' = [pos EXCEPT ![t] = @ + 1]
    /\ UNCHANGED << rtti, graph, cache, over, left, bug, serving >>

\* ... or one that is new.
Execute(t) ==
    /\ RunsNext(t)
    /\ CachedSuccessors(graph, cache, t) = <<>>
    /\ pos[t] = Len(graph[t])
    /\ LET c == NextClass(t, graph[t])
       IN \E S \in {Handle(Now, t, pos[t] + 1, Fresh(c), InterpreterHandlers[c])} :
          /\ Become(S)
          /\ over' \in Outcomes(S, t)
          /\ pos' = [pos EXCEPT ![t] = IF S.graph[t] # graph[t] /\ ~Blocked(S.graph, t)
                                       THEN @ + 1 ELSE @]
    /\ UNCHANGED << rtti, left, serving >>

\* A revisit of the i-th label of t, with the other threads cut to prefixes
\* in which every join still finds its child finished.
Cut(t, i, lab, keep) ==
    LET cut == [u \in Threads |->
                  IF u = t THEN Append(SubSeq(graph[t], 1, i - 1), lab)
                  ELSE SubSeq(graph[u], 1, keep[u])]
    IN /\ \A u \in Threads :
             (\E k \in DOMAIN cut[u] : cut[u][k].class = "ThreadJoinLabel")
                => Finished(cut, Child[u])
       /\ graph' = cut
       /\ pos' = [u \in Threads |-> 1]
       /\ over' = "no"
       /\ left' = left - 1
       /\ UNCHANGED << rtti, cache, bug, serving >>

KeptPrefixes(t) == {keep \in [Threads -> 1..Max({Len(graph[u]) : u \in Threads})] :
                  /\ \A u \in Threads : keep[u] <= Len(graph[u])
                  /\ keep[t] = 1}

RevisitRead(t) ==
    /\ Idle /\ over # "halt" /\ left > 0 /\ ~bug
    /\ \E i \in DOMAIN graph[t], v \in Values, keep \in KeptPrefixes(t) :
         /\ LabelIs("ReadLabel", graph[t][i]) /\ graph[t][i].val # v
         /\ Cut(t, i, [graph[t][i] EXCEPT !.val = v], keep)

RevisitOptional(t) ==
    /\ Idle /\ over # "halt" /\ left > 0 /\ ~bug
    /\ \E i \in DOMAIN graph[t], keep \in KeptPrefixes(t) :
         /\ LabelIs("OptionalLabel", graph[t][i])
         /\ "expandable" \notin graph[t][i].info
         /\ Cut(t, i, [graph[t][i] EXCEPT !.val = 1,
                                          !.info = @ \cup {"expandable", "expanded"}],
                keep)

\* extractState: the cache goes with the graph handed to the pool, and the
\* driver continues with what it has, and an empty cache.
Submit ==
    /\ Idle /\ over # "halt" /\ left > 0 /\ ~bug
    /\ cache' = [t \in Threads |-> EmptyTrie]
    /\ left' = left - 1
    /\ UNCHANGED << rtti, graph, pos, over, bug, serving >>

\* Another driver, or an error of this one, halts exploration.
Halt ==
    /\ over # "halt" /\ ~bug /\ over' = "halt"
    /\ UNCHANGED << rtti, graph, pos, cache, serving, left, bug >>

Init ==
    /\ rtti = [c \in Concrete |-> RTTI(c)]
    /\ graph = [t \in Threads |-> << StartLabel >>]
    /\ pos = [t \in Threads |-> 1]
    /\ cache = [t \in Threads |-> EmptyTrie]
    /\ serving = <<>>
    /\ over = "no"
    /\ left = MaxRevisits
    /\ bug = FALSE

Run == Dispatched \/ \E t \in Threads : FromCache(t) \/ Replay(t) \/ Execute(t)
\* No thread to run, and nothing left to revisit.
Done == Idle /\ (left = 0 \/ over = "halt") /\ UNCHANGED vars
Next == \/ Run
        \/ \E t \in Threads : RevisitRead(t) \/ RevisitOptional(t)
        \/ Submit \/ Halt
        \/ Done

\* The interpreter's loop goes on while a thread can be scheduled.  This is
\* weak fairness of Run, which is enabled whenever ~Idle (the deadlock check
\* shows it), without the ENABLED that TLC would evaluate in every state.
Spec == Init /\ [][Next]_vars /\ ([]<>(Idle \/ bug) \/ []<><<Run>>_vars)

-----------------------------------------------------------------------------
(* Properties.                                                             *)

TypeOK ==
    /\ \A t \in Threads : \A i \in DOMAIN graph[t] :
         graph[t][i].class \in DOMAIN rtti /\ graph[t][i].val \in Values
    /\ \A t \in Threads : pos[t] \in 1..Len(graph[t])
    /\ left \in 0..MaxRevisits
    /\ over \in {"no", "moot", "halt"}

\* Whether labels come from the cache or from the interpreter, every thread's
\* part of the graph is what the program does on the values it reads there:
\* serving a label recorded under other values, or twice, would show.
GraphFollowsProgram ==
    \A t \in Threads : \A i \in 2..Len(graph[t]) :
        LET next == NextClass(t, SubSeq(graph[t], 1, i - 1))
        IN graph[t][i].class = IF graph[t][i].class = "JoinBlockLabel"
                                  /\ next = "ThreadJoinLabel"
                               THEN "JoinBlockLabel" ELSE next

\* No thread stays blocked on a join whose thread has finished: a JoinBlock
\* recorded in one execution is never served in another (blockThread).
NoStaleBlock ==
    \A t \in Threads :
        Last(graph[t]).class = "JoinBlockLabel" => ~Finished(graph, Child[t])

\* Below every key of the cache stand, without a gap, the labels the program
\* adds after those values, also where splitting an edge made a key of a
\* prefix nobody recorded.
CacheAgrees ==
    \A t \in Threads : \A vals \in DOMAIN Code[t] :
        LET node == Lookup(cache[t], vals)
        IN node # 0 => \A k \in DOMAIN cache[t][node].dat :
             LET lab == cache[t][node].dat[k]
             IN /\ k \in DOMAIN Code[t][vals] /\ lab.class = Code[t][vals][k]
                /\ lab.idx = cache[t][node].dat[1].idx + k - 1

\* A cached label carries no stamp, view, reader, reads-from edge, allocation or
\* deallocation of the graph it was taken from, which the clone's reset() must see to.
\* Only "expandable" is exempt: OptionalLabel does not override reset(), so that an
\* optional block that could not be expanded in one execution stays so in the cache.
CachedLabelsReset ==
    \A t \in Threads : \A n \in DOMAIN cache[t] : \A k \in DOMAIN cache[t][n].dat :
        cache[t][n].dat[k].info \subseteq {"expandable"}

\* No BUG_ON of cacheEventLabel, addSeq or the dispatcher fires: the labels of
\* a key are recorded in order, whatever revisits and hand-overs came between.
NoBug == ~bug

\* isa<> and the class hierarchy agree, for all 70 classes of labels: classof
\* compares positions in the enumeration, so a kind inserted outside its
\* interval is not of its base class; and a label has a value for the cache
\* exactly if extractValPrefix knows how to take it.
ClassofMatchesHierarchy ==
    \A c \in DOMAIN rtti :
        /\ rtti[c].isa = rtti[c].above
        /\ "DskAccessLabel" \in rtti[c].isa <=> rtti[c].kind \in DskCastCases
        /\ rtti[c].hasValue <=> rtti[c].isa \cap ExtractedClasses # {}

\* The classes of labels the interpreter passes to a handler of their own while the
\* visitor knows none: writes of metadata, journal and directory are visited as writes
\* and not as disk writes, an RCU synchronisation as a fence, and the rest hits BUG().
WithoutVisitor == {"DskMdWriteLabel", "DskJnlWriteLabel", "DskDirWriteLabel",
                   "RCUSyncLabelLKMM", "RCULockLabelLKMM", "RCUUnlockLabelLKMM"}

\* A label is processed by the same handler whether the interpreter or the cache
\* provides it, unless its class is one the visitor does not know.
HandledAlike ==
    \A t \in Threads : \A i \in 2..Len(graph[t]) :
        graph[t][i].via # "blockThread" /\ graph[t][i].class \notin WithoutVisitor
            => graph[t][i].via = InterpreterHandlers[graph[t][i].class]

\* Every execution ends: the loop never keeps serving labels the graph has.
EveryExecutionEnds == []<>(Idle \/ bug)

\* The graph is one the program has, and no assertion of the driver fails.
GraphAsProgram == TypeOK /\ GraphFollowsProgram /\ NoBug

\* What the cache keeps and serves is the program's and, apart from the expandability of
\* an optional block, of no execution.
CacheFaithful == CacheAgrees /\ CachedLabelsReset /\ NoStaleBlock

\* Classes of labels are told apart as the hierarchy says, and the dispatcher sends each
\* class the interpreter creates, save those it has no visitor for, to the handler the
\* interpreter calls for it.
DispatchAgrees ==
    /\ ClassofMatchesHierarchy
    /\ HandledAlike
    /\ \A c \in DOMAIN InterpreterHandlers \ WithoutVisitor : rtti[c].handler = InterpreterHandlers[c]
=============================================================================
