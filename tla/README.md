# RustMC: a TLA+ verification project

RustMC is a stateless model checker for Rust programs. It compiles a crate to
LLVM bitcode, finds the test functions in it and runs every test under GenMC,
which enumerates the executions of the test that the release-acquire memory
model allows. RustMC runs GenMC with `--mixer`, an extension for accesses of
different sizes to the same memory (`tools/rustmc-config.sh`).

A checker is trusted when it says "no errors". What it has to get right is

* that it explores every consistent execution of a test (otherwise it misses
  bugs), none that is inconsistent (otherwise it reports bugs that do not
  exist), and none twice (otherwise it does not end in useful time);
* that spreading the exploration over threads changes none of that;
* that what it reports about one execution - a race, a use of freed memory, a
  thread that waits for ever, a value - is what the execution is;
* that what it leaves out to be fast - executions behind a failed assume,
  instructions it remembers, iterations of a spinloop - is nothing new.

Paths below are relative to the root of the repository; `G` is
`src/GenMCDriver.cpp`, `EG` is `src/ExecutionGraph.cpp`, `RA` is
`src/RADriver.cpp`, `EX` is `src/Execution.cpp`.

## Inventory

| Component | State | Operations | Interacts with |
|---|---|---|---|
| Thread pool (`src/ThreadPool.*`) | task queue, `remainingTasks_`, `shouldHalt_`, `stateMtx_`, `stateCV_`, workers, futures | constructor, `submit`, `popTask`, the worker loop, `halt`, `waitForTasks`, destructor | one driver per worker; `verify()` |
| Exploration driver (`G`, `Revisit.hpp`, `WorkSet.hpp`) | stack of executions (graph, work queue, choices), moot and halt flags, result | `explore`, `handleLoad`, `handleStore`, other event handlers, `calcRevisits`, forward and backward revisits, `handleExecutionEnd`, `reportError` | graph, memory model, interpreter, pool |
| Execution graph (`EG`, `EventLabel.hpp`, `GraphIterators.hpp`) | labels per thread, reads-from, coherence lists per 8-byte word, stamps | add and change labels, cut to a stamp, copy up to a view, renumber stamps | driver, memory model |
| Memory model (`RA`, views) | views of the labels | views, coherent stores and placings, race checks | graph, driver |
| Interpreter (`EX`, `Interpreter.cpp`) | LLVM stacks and registers per thread, thread-local memory | evaluates instructions, calls the driver for every access; library calls for threads, mutexes, barriers and files | driver |
| Blocking operations (`G`, `EX`) | blocked threads, the read to reschedule, schedule policy | create, join, finish, kill, lock, trylock, unlock, barriers, spinloops, assume, reschedule, replay | graph, interpreter |
| Memory checks (`G`, `RA`, `GraphIterators.hpp`) | links between allocations, accesses, frees, creates and joins; views | checks of every new label for races and invalid accesses | graph, memory model |
| Instruction cache (`G`, `Trie.hpp`, `LabelVisitor.hpp`) | one trie per thread: values read to labels | record, look up, serve, hand over to the pool | driver, interpreter |
| File system (`EX`) | directory, inodes, file descriptions, locks, journal state in the memory of the program under test | open, creat, close, link, unlink, rename, truncate, read, write, lseek, fsync, sync | driver |
| Load annotation (`src/InstAnnotator.cpp`, `SExpr*`, passes) | an expression per load | annotate, instantiate, filter stores; loop entry test; recognise spinloops, block spinning threads | interpreter, driver |
| Rust front-end (`main.cpp`, `RustTestDiscovery.cpp`, `tools/`) | tests, trace files, exit codes | discovery, fork and timeout per test, counting of results | driver, cargo |
| Options: bounds, symmetry, IPR, BAM, helper, estimation | see source | see source | driver |
| Other LLVM passes (`src/Static`) | the module | rewrites | front-end |

What is hard here:

* *Concurrency.* Workers pop without the mutex under which tasks are counted
  and pushed; an idle worker concludes from a counter that everything is done;
  wakeups can be lost or spurious; several drivers may fail at once. Each worker
  must be counted on exactly until the last task is finished.
* *Revisits.* The driver works on one graph that is cut, extended, copied and
  renumbered again and again, while work items made for earlier versions of it
  wait in queues. Whether a revisit takes place depends on a global condition
  (`isMaximalExtension`) that must accept exactly one of the many graphs from
  which the same execution can be reached.
* *Mixed sizes.* A read may take its bytes from several stores, stores to a
  word are kept in one list although those to disjoint bytes have no order, and
  parts of the code still handle only the first store of a read.
* *Handing over.* A state given to the pool is less than the driver's state.
* *Files as memory.* The front-end decides what passed from text that a script,
  `genmc` and a forked child wrote into files, some of which survive from one
  invocation to the next; deadlines, signals and failed tools cut in anywhere.
* *Waiting inside a replay.* A blocked thread is a label at the end of its
  part of the graph, which other threads remove, while the same graph is cut by
  revisits and run again by an interpreter that must find its labels in place.
* *State kept twice.* Readers, allocations, creates and joins are linked in both
  directions, views are stored in labels, labels are cloned into a cache: each
  is copied, cut and reset one at a time.
* *A file system without big locks.* Reads and lookups run without the lock
  under which writes and renames run; sizes in memory and on disk move apart.
* *Two evaluators.* The interpreter, the folding of constants, and the
  evaluator of annotations compute the same operations by different code.

`PROJECT.json` lists these hazards at the lines where they bite, with the
properties that cover them.

## Modules

| Module | Models |
|---|---|
| `ParallelExploration` | what `verify()` promises: the revisit tree is explored item by item, and the verdict is that of an explored item, or clean if all were explored and none is erroneous |
| `ThreadPool` | the pool, the parts of the driver that talk to it, and `verify()`; properties at the end |
| `ThreadPoolProofs` | theorems about `ThreadPool`: types, the count of remaining tasks, leaving |
| `ThreadPoolWorkProofs` | theorems about where the work is, the refinement and the total |
| `MCThreadPool` | a small revisit tree for TLC |
| `ExecutionGraph` | labels, reads-from, coherence, stamps; cutting, copying, renumbering, repairing |
| `RADriver` | views and the choices of a new access under release-acquire |
| `Exploration` | the driver: interpreter steps, handlers, revisits, work queue, offloading |
| `ReleaseAcquire` | the reference: all consistent executions of a program, defined by axioms and enumerated without any revisiting |
| `ExplorationCorrectness` | invariants of the exploration and its agreement with the reference |
| `GraphProofs` | the inductive invariant of a graph and of a work item; lemmas about sorting, and about adding labels, setting reads-from and placing stores |
| `CutProofs` | lemmas about cutting a graph: `cutToStamp()`, `compressStampsAfter()`, `repairDanglingReads()`, copying up to a view |
| `ExplorationProofs` | lemmas about the driver's actions; the theorems about `Exploration` |
| `MCExploration` | families of programs for TLC |
| `TestRunner` | the front-end: `cargo-rustmc`, `rustmc_pipeline.sh`, the test loop of `main()` |
| `TestRunnerProofs` | theorems about `TestRunner` |
| `MCTestRunner` | a crate with a library and an integration test for TLC |
| `ThreadOps`, `MCThreadOps` | threads, joins, mutexes, barriers, spinloops and assumes under replay; ten programs |
| `GraphIterators`, `MemorySafety`, `MCMemorySafety` | the iterators over a graph and its links; allocation, hazard pointers and races on them; programs that are correct and faulty |
| `EventLabel`, `Trie`, `InstructionCache`, `MCInstructionCache` | the class hierarchy of labels and what `reset()` does; the trie; the cache on top of both; three threads |
| `FileSystem`, `MCFileSystem` | the file system calls, event by event; twelve pairs of threads, five ways to mount |
| `FileSystemProofs` | lemmas about `FileSystem`: its inductive invariant; types, locks and offsets |
| `FileSystemDiskProofs` | contents, sizes and versions; names and renames; the theorems about `FileSystem` |
| `InterpreterValues`, `Interpreter`, `MCInterpreter` | the operations on values; instructions, constant expressions and thread-local memory; operands of small types |
| `SExpr`, `InstAnnotator`, `SpinAssume`, `LoadAnnotation`, `MCLoadAnnotation` | expressions; the annotator; the spinloop pass; a thread that runs an annotated function, with the loop entry test and the driver's handlers for spinloops; some forty functions |

`Exploration` extends `RADriver`, which extends `ExecutionGraph`.
`ExplorationCorrectness` puts `Exploration` next to `ReleaseAcquire`. `ThreadPool`
instantiates `ParallelExploration` with a refinement mapping. `InstructionCache` composes
`EventLabel` and `Trie`, `MemorySafety` builds on `GraphIterators`, and
`LoadAnnotation` composes the annotator with the interpreter's and the driver's use of
it. Operators named `Fault...` are slips that a maintainer could make; each is
used to see that a property notices it and is not part of any specification.

The parts are modelled side by side: `Exploration` has the weak-memory choices and no
blocking, `ThreadOps` has blocking and reads the coherence-maximal store first,
`MemorySafety` leaves the choice of a store open. What one of them takes for
granted is what another one checks.

### ThreadPool

A step is what happens between two accesses to state other threads see. The
program counters of a worker are the program points of `popTask`, of the
lambda in `addWorker`, of `explore`, `backwardRevisit`, `reportError` and
`submit`; those of the main thread follow the constructor, `waitForTasks`, the
destructor and the loop over the futures. `stateMtx_` is a variable only for
`submit`, whose critical section has several steps because `tryPop` runs without
that mutex; the other critical sections touch the shared state once and are
single steps that need it to be free. `notify_one` and `notify_all` are those of
`std::condition_variable`, and `wait` may wake spuriously. `size()` is called by
workers while the constructor still adds to the vector: until all are added,
the comparison with it may have either result.

What a driver explores is abstracted to a tree of items: running an item
discovers its children. Children reached by forward revisits stay with the
driver, backward revisits may be submitted. An erroneous item discovers any subset of its
children, as does a run cut short by another driver's halt. The trace of
the driver's own stack and queue is a set: the pool's properties do not depend
on their order.

### Exploration

A graph is a record of labels by position, coherence lists by word, and the
next stamp. The values of memory are 0, 1 and 2; an access covers byte 0, byte 1
or both bytes of a word, which is enough for accesses to be equal, disjoint,
nested and partly covered. A label holds what the algorithm looks at: kind, RMW
kind, word, bytes, value, whether it is an acquire load or a release store,
stamp, reads-from, the flags `addedMax` and `revisitable`, and the prefix view
that `updateMMViews()` computes when the label is added and that is copied with it. Views are sets of
positions; the lists of readers are derived from the reads-from.

A program is a list of accesses per thread; an instruction may be guarded by
the value read last, so that what a thread does depends on what it reads. The
interpreter's replay of a graph is implicit: the next label of a thread is a
function of its labels in the graph. Every action is a whole handler:

* `HandleLoad`, `HandleStore`: add a label, choose the maximal reads-from or
  place, queue the others (`enumerateRfOptions`, `calcCoOrderings`), queue
  backward revisits (`calcRevisits`), moot the execution if an RMW breaks
  atomicity;
* `EndExecution`: count the execution unless it is moot;
* `ForwardRevisitRead`, `ForwardRevisitWrite`, `BackwardRevisit`: take the
  latest item of the highest stamp, restrict the graph and apply it, completing
  the RMW where the read has become one;
* `SubmitRevisit`, `InitFromState`: hand the graph of a backward revisit to the
  pool, and explore a task of the pool. Drivers share only the pool's queue, so that
  one driver that takes the tasks in turn stands for all of them; the pool's own
  concurrency is the subject of `ThreadPool`;
* `PopExecution`, `EndExploration`.

The order in which `calcRevisits` adds items of equal stamp is fixed
arbitrarily; the results that the properties speak of do not depend on it.

### TestRunner

The script runs one target after the other: `Start` (clean up, build),
`SkipTarget` or `Link`, then `genmc`, then `MarkTraces`, and `Report` at the end.
`genmc` is `Discover`, a `BeginTest` per test with `Reap` or `Deadline` as its
end, and `GenmcReturns`. The child goes through `ChildVerifies`,
`ChildPrintsResult` and `ChildExits`, or ends in `ChildAborts` or `ChildCrashes`; it
interleaves with `genmc`, so that the deadline may come before, between or after
its writes, also when it is already dead. A trace is the set of lines the scripts
grep for. Bitcode files are pairs of a target and a configuration; `Rank` and `Size`
give the order in which the shell and `sort` see them, and `Stem` the part of the
name that is looked for. Function names are lists of the pieces between double
underscores, because the pipeline cuts the name of a trace there. How a test
behaves under `genmc` is drawn once per test in `Init`. `cargo`, `llvm-link`, `fork`
and `genmc` before its first test may fail, `MaxFaults` times in all. The trace
directory, which the script has just created, is taken to be writable. The
pipeline always passes `--per-test-timeout` and `--mixer`, which turns estimation off;
other uses of `genmc` are not modelled, and the filter is part of `TestsOf`.

### ThreadOps

A program is code per function; an instruction adds one label or several, and
between two labels of one instruction the thread is in `cur`, because the
interpreter schedules anew only at the next instruction. Every handler
begins by looking for its label in the graph (`isExecutionDrivenByGraph`), so that
the same action adds a label in a first run and finds it in a replay. A
blocked thread has a block label last; `HandleThreadFinish`, stores to a mutex
and the last arrival at a barrier remove those of others. `RescheduleReads`
is what the driver does when nothing else can run. `Revisit` is the part of
a backward revisit that matters here: cut to the stamp of the read, read from
the store, complete the RMW as `completeRevisitedRMW` does, start all
threads again. The schedule policies are those of `scheduleNext`: left to
right, writes first, writes first with a random choice, arbitrary.

### GraphIterators and MemorySafety

A label has the fields the checks look at: kind, ordering, object, offset and
length, reads-from and readers, allocation, accesses and free of an object,
create and join of a thread, hazard pointer, two views and a stamp. One action per
handler; it adds the label, computes its views, and runs `checkErrors` in the
order of the code, the first error ending the exploration. Revisits cut or
copy the graph with everything stored in its labels. An object is an address
that is handed out once, as `getFreshAddr` does. Which stores at its address a read takes is open
up to coherence; main threads create their threads before they read. `HandleStore` includes the warning
that `calcCoOrderings` itself prints (`WarnsOfPlacing`): whether the new store can be placed in front of another one
depends on the coherence order, which is open up to what the stores have seen of each other.

### EventLabel, Trie and InstructionCache

`EventLabel` gives each class of label its place in the enumeration of kinds, its bases, the handler
that its visitor reaches and the one the interpreter calls, and the fields that `reset()` restores.
The trie is a function from nodes to labels on edges, children and payload; `Query` has the four
results of the code and the width of its length. A step of `InstructionCache` adds one label, by the
interpreter or from the cache; `serving` holds the labels of a cached sequence, which
`tryOptimizeScheduling` dispatches one by one; it stops when a handler blocks the thread or moots
the execution, or another driver has halted the exploration (`over`). `DispatchAgrees` speaks of the
classes whose visitor has a handler of its own; `WithoutVisitor` lists the others (see *Instruction
cache* below). `RevisitRead` and `RevisitOptional` cut the graph and change a value, and `Submit`, a
hand-over to the pool, moves the cache away.

### FileSystem

A call is a program of events; the thread's position in it is part of `th`. Every
write that a thread without the lock can observe - a directory entry, a
transaction flag, a byte, a size in memory, a size on disk, a lock - is a step of its own, the zeroing of a
hole, the early raise of the size on disk and the end of a block included; the module's header lists what is merged.
`LockFailed` is the result by which `executeWriteFS` says that it did not get the inode's lock, 42 in
the code. A write of as many bytes returns the same (`LostWrite`): the model keeps the position lock and the offset
and returns nothing, as the code does, and remembers the description in `lost`. A thread that finds a lock taken is rolled back to
the start of the call, which is a wait for the lock. History variables (`want`,
`moved`, `ver`, `synced`, `mdwrite`) say what POSIX prescribes and what was made durable.

### InterpreterValues and Interpreter

Integers are numbers below 2^w, vectors are tuples, floats are grid points and NaN.
`Evaluate` runs one instruction and, where the code has one, the same
operation as a constant expression; the switches of `getConstantExprValue` and `executeCmpInst` are modelled apart
from the visit methods. `Meaning` is what LLVM allows an instruction to yield, defined class by class and
without the operators of the model; `ValuesExact` compares the instruction with it, `FoldingExact`
the constant expression. An amount of a shift beyond the width, for which LLVM promises nothing, is
masked by the code; `ShiftsByRule` says so for widths that are powers of two. `TLSAccess` stores and loads
integers of several widths and pointers in thread-local memory, which the
code keeps in one entry per byte for integers and one entry for a pointer.

### SExpr, InstAnnotator, SpinAssume and LoadAnnotation

A function is a set of basic blocks; expressions are trees. `LoadAnnotationAnalysis` follows
an assume back to the loads it depends on and the annotator walks forward from
each of them, depth first, with a status per instruction as in the code, turning
branches, phis and selects into an expression whose only unknown is the load.
The thread then runs the function; at an annotated load the model lets it
read dropped stores too and remembers that it did. Pointers and SVals have three
bits.

`SpinAssume` is `SpinAssumePass`: the header's phis must come from loads and CASes of one variable, a back edge
is a spin if no instruction on its paths has an effect (failed CASes, stores to local memory and calls
of clean functions have none), or if its effects cancel, an increment and a decrement or a lock and its unlock.
The thread meets the calls that the pass inserts, and the driver's handlers decide there from what was
written since the header was last entered (`iter`) whether to block it. It goes on where it is blocked, so that the
properties can say what was cut off. Pointers are variables; dominance is
reachability; which calls are clean and which variables escape is part of the function, because another pass computes it.

## What the runs check

| Run | Instance | Shows |
|---|---|---|
| `pool_accounting` | 3 workers, 5 items, no error | counter exact, nothing lost, nothing twice, no early exit, exact total, over all interleavings |
| `pool_errors` | 3 workers, 4 items, 2 erroneous, weak fairness | the pool implements `ParallelExploration`; `verify()` returns, a queued task is taken |
| `exploration` | 2 or 3 threads, 2 words, accesses of 1 and 2 bytes; a pool for the programs in `Pooled` | graphs well formed, reads complete, stamps valid, queued work fresh, no `BUG_ON`; for regular programs exactly the consistent executions, each once, also when revisits are handed over |
| `exploration_split` | two programs | disagreements 1 and 2 below |
| `thread_ops` | 10 programs of 3 threads, 4 policies, `--mixer` or not, 3 revisits | critical sections exclude each other, RMWs stay atomic across revisits, nobody waits for a thread that has finished, a mutex that is free or a barrier that is complete, no barrier lets a thread through early, the interpreter stays aligned with the graph, non-termination is reported only if it is real, every execution ends |
| `memory_safety` | 2 or 3 threads, one heap object, globals, 2 revisits | an error or a warning is reported iff the graph has one by the definition of happens-before; links agree in both directions; stored views are happens-before |
| `memory_safety_twice` | a thread that frees an object twice | disagreement 3 below |
| `instruction_cache` | 3 threads, 2 values, 3 revisits or hand-overs | what the cache serves is what the program would do; nothing of an earlier execution remains in it but a known flag; `isa<>` agrees with the classes, and the dispatcher calls the interpreter's handler |
| `file_system` | 2 threads, 12 programs, 5 mounts, 5 bytes in blocks of 3, `LockFailed` is 4 | POSIX content, what unlocked reads return, sizes, no uninitialised byte, atomic rename, offsets, durability of synchronous writes, locks released and every call returns but for lost writes |
| `interpreter_values` | integers of up to 4 bits, 2 lanes, 4 accesses to thread-local memory | every class of instruction yields what LLVM allows, and so does the constant expression; thread-local memory is bytes for accesses of one kind |
| `load_annotation` | some 40 functions, values of 2 and 3 bits | dropped stores lead to blocked executions only; kept ones unblock; threaded loops are entered; an iteration that is cut as a spin has no effect and is followed by another one |
| `front_end` | 2 targets, 3 tests with 5 behaviours each, 2 configurations, 2 invocations, 1 failure, weak fairness | passed means verified now, failures are reported, the summary agrees with the report, traces have one writer, a hanging child does not keep the invocation from ending |

*Bounds.* Three workers are needed for one to sleep, one to submit and one to finish; five items
give a chain, a fork, a forward revisit and more tasks than the pool accepts (`OffloadFactor` is 1
instead of 8 so that a pool of three can be full). Two accesses per thread are the least for a read
to be revisited while a later access of its thread is deleted and added again, three threads the
least for a prefix with a third party; two bytes are the least for overlap without equality.
Programs are finite, so that the state space of each is finite without further bounds. For the
front-end, two invocations are the least for anything stale, two targets for a stale `combined.bc`,
and two tests in one of them for a child to outlive its turn; one failure at a time shows every
error path. In `ThreadOps` and `MemorySafety` the revisits are bounded because they repeat without
end in a model that does not choose among them: two are the least for a revisit of a revisited
graph, three for one of a lock that two others took. A file of five bytes has a full and a partial
block and a maximum that can be exceeded by one write; 4 stands in it where the code's 42 stands in
a file of 64. Three revisits of the cache are the least for a path that is recorded, left, and
served.

Several properties are conjunctions of named parts, each with its own
comment in the module: `GraphsWellFormed` in `ExplorationCorrectness`, `ValuesExact` in
`Interpreter`, `FilesAsPosix`, `DiskConsistent` and `DiskOrder` in `FileSystem`,
`CriticalSections`, `NoLostWakeup` and `ReplayFaithful` in `ThreadOps`, `GraphAsProgram`,
`CacheFaithful` and `DispatchAgrees` in `InstructionCache`, `ErrorsExact` and
`LinksAndViewsExact` in `MemorySafety`, `FilterSound` and `LoopPassesSound` in `LoadAnnotation`,
`RunExactlyOnce` and `Progress` in `ThreadPool`.

*Regular programs.* `Exhaustive`, `OnlyConsistent` and `NoDuplicates` speak of programs
(`IsRegular`) in which a word that is accessed with several sizes has only relaxed plain accesses
and at most one store per thread; all programs with one size per word are
regular. The other ones are explored in the same run, where the structural
invariants hold for them too, and disagree with the reference as described below.

*Deadlock* is checked in all runs but `front_end` and `load_annotation`: the others have an explicit final
stuttering step, so that a deadlock is a real one. The front-end stops when
its invocations are used up, and the function of `load_annotation` when it returns.

*Fairness.* `pool_errors`: weak fairness of the main thread and of each
worker, that is of a scheduler that runs every thread that can run. A
thread waiting for a mutex that is released again and again could starve under
weak fairness; the pool passes because the mutex is contended finitely often.
Spurious wakeups are not assumed to happen. In `front_end` the script and `genmc`
go on and time passes, which makes the deadline an action that eventually
happens; nothing is assumed of the child. In `thread_ops` and `instruction_cache` the
driver is one sequential loop that only has to go on. In `file_system` each thread of the
program under test is fair: the exploration continues every thread of an execution that can
continue.

## Disagreements found

With a run of their own:

1. `exploration_split`: `W{0} || W{1}; W{0,1}`. The exploration is not what the comment on `explore()`
   says ("Exhaustively explores all  consistent executions of a program",
   `src/GenMCDriver.hpp:497`). The places offered to a
   store are a suffix of the word's list (`RA:885`). The store to byte 1 is
   last in the list and happens before the new one, so that the store to byte
   0, which is in front of it by accident, is taken to be settled as well.
2. `exploration_split`: `W{0} || W{0,1} || XCHG{1}`. `completeRevisitedRMW`
   (`G:3566`) moves one of two overlapping stores behind the RMW and the other
   one in front of it, which changes their order.
3. `memory_safety_twice`: no double free is ever reported, although there is an
   error for it. The check looks at the other labels at the location of the
   `free()`, and a free has no location (`hasLocation` excludes it), so
   that there are none (`GraphIterators.hpp:990`).

1 and 2 need accesses of different sizes to one word; for accesses of one size the
run `exploration` found none. Longer mixed-size programs show missed and repeated
executions for the same reasons. Two more of the kind, left out of the instances: an
acquire load that reads from two release stores synchronises with the first only
(`GraphIterators.hpp:752`); and with a pool, `State` does not carry the moot flag (`G:193`,
`G:3762`), so that an execution in which `XCHG{0} || XCHG{0,1} || XCHG{1}` breaks
atomicity is explored by the driver that gets it.

*Front-end.* The model has these behaviours, and its properties allow for them. The deps
directory is kept between invocations and searched by stem, so that bitcode
built with other features or for other targets is verified ("genmc only ever
sees what cargo built", `tools/cargo-rustmc:91`). Integration tests of the same file
name in two members share a stem: one binary is verified for both ("so their
unit/integration tests are verified too", `tools/cargo-rustmc:195`). The statuses of
`llvm-link` and of `genmc` are not looked at (`tools/rustmc_pipeline.sh:90` and `:30`): the
target's tests are missing from the report and the exit status is 0. An
out-of-scope test that verifies is counted as passed, because the report looks
for the success line first (`tools/cargo-rustmc:318`). Expected panics are matched by
the bare function name cut out of the name of the trace
(`tools/rustmc_pipeline.sh:42-44`): the panic of an unannotated namesake is excused, and a
function name with a double underscore is not recognised. A `#[should_panic]` test
that never panics is reported as passed.

*Threads and memory.* A thread that joins itself blocks instead of getting
`VE_InvalidJoin`, and `handleThreadJoin` uses the child's last label before it checks the
child's number. `callMutexTrylock` does not look whether the mutex was destroyed. A function
different from the earlier one, spawned at the same position after a revisit, meets a
`BUG_ON` (`Interpreter.cpp:144`). Freeing memory that was never allocated
dereferences a null pointer in `handleFree` (`err = "Crash"` in `MemorySafety`). A second free
overwrites the link of the first. Joins and starts of threads act as acquire
fences in `calculate0`. A race of two accesses that overlap but begin at different addresses is not reported as
an error, because start addresses are compared; two such stores still cause the warning of
`calcCoOrderings`.

*Instruction cache.* The dispatcher, which "Calls the appropriate Driver handler for a particular label kind"
(`DriverHandlerDispatcher.hpp:34`), sends cached metadata, journal and directory writes to `handleStore`
(`LabelVisitor.hpp:279`), while the interpreter calls `handleDskWrite` for them; labels of RCU and LAPOR end in `BUG()`.
`DispatchAgrees` leaves these classes out. `OptionalLabel` has no `reset()`, so that a cached optional block that was
marked stays marked (`EventLabel.hpp:560`), although `reset()` "Resets all graph-related info" (`EventLabel.hpp:330`);
`CachedLabelsReset` exempts this flag, and without the exemption it fails. The length that `Trie` computes
is an `int8_t` (`Trie.hpp:100`): two keys of one edge that agree on 128 values or more
and then differ give a negative length. `TrylockCasWriteLabel` drops
its attributes (`EventLabel.hpp:1599`).

*File system.* `callWriteFS` takes the result 42 for a failed lock and returns (`EX:4688`). A
successful write of 42 bytes, below the default limit of 64, has the same result: its lock is kept,
its offset does not move, it returns no value, and the next call on the description waits for ever.
The run `file_system` has such a write (of 4 bytes) and `LocksReleased`, `OffsetExact` and
`EveryCallReturns` make exactly this exception. `pwrite` returns 42 to the program if the inode's
lock is not acquired and `write` returns 0 on `EFBIG`; a truncation to exactly the maximal size is
refused; `lseek` accepts a negative `SEEK_SET`; `close` leaves the descriptor mapped.
`ModuleInfo.cpp:103-104` copies `blockSize` twice.

*Values.* Pointers stored in thread-local memory and loaded as integers read
the bytes stored before (`EX:1592-1609`); binary operations of constant
expressions ignore vectors, so that the instance has none of them; `visitVAArgInst` never advances.

*Annotations.* The evaluator of annotations computes at 64 bits whatever the type
(`SExprVisitor.tcc:351`, `:379`, `:418`), `visitNotExpr` negates the pointer and not the value, the
remainders divide, and casts are dropped. The functions of `load_annotation` use the operations on
which it agrees with the interpreter; with signed or wrapping operations of narrow types
`NoExecutionLost` does not hold, although the filter is to "Keep values that do not lead to
blocking" (`G:2064`). The phis of a block are substituted one after the other, those of a loop of
one block not at all; `kill_thread` counts as an instruction without effect. A loop whose only block
locks, reads, unlocks and then branches is taken for a lock loop without effect
(`SpinAssumePass.cpp:554`), since a block postdominates itself: the thread is blocked before the
unlock whatever it read, also when it would leave the loop, and `StaysInLoop` does not hold. Loops
of one block with an increment and a decrement are accepted in the same way. The instance has no
such loops. In `--mixer` mode the filter is skipped (`G:2231`).

## What is proved

`ThreadPoolProofs` proves, for every number of workers, every revisit tree and
every offload factor (assumption `PoolAssumption`: the constants have their
types, and the special values are not items):

* `TypeCorrect`: `Spec => []TypeOK`. The unsigned `remainingTasks_` is never
  decremented at 0.
* `RemainingIsAccurate`: `Spec => []RemainingAccurate`. The counter equals the
  number of queued tasks, tasks being worked on and tasks announced by a
  `submit` in progress. On this the pool's decision to stop rests.
* `NoWorkerLeavesEarly`: `Spec => []NoEarlyExit`. Without a halt, a worker has left
  only when nothing is queued, running or counted.

Neither of the first two is inductive alone: the counter stays non-negative only because it is
accurate, and accuracy needs the types. `Accounting` joins them with the control
part: a worker is in `submit`'s critical section iff it holds the mutex, it has an
item in its hands wherever it uses one, and the constructor starts all workers,
in order, before the main thread goes on. `ControlStep` and
`CountStep` go through the actions one by one; `WorkerSets` and `PopBack` say how the
counted sets and the queue change. For the third theorem `DoneMeansZero` is added:
once a worker has left without a halt the count is 0. It stays 0 because only a busy
worker, or the main thread before there are workers, changes it (`DoneStep`), and
an accurate count of 0 leaves nothing queued or running (`ZeroMeansIdle`).

`ThreadPoolWorkProofs` goes on from there:

* `EveryItemOnce`: `Spec => []RunExactlyOnce`. A discovered item is in the queue, in the
  hands or in the local queue of one worker, or was run; it is in one of these places only.
* `PoolImplementsExploration`: `Spec => ImplementsExploration`. Every step of workers,
  drivers and `verify()` is a step of `ParallelExploration` or changes nothing of it.
* `TotalIsExact`: `Spec => []TotalExact`. The number of executions that `verify()` adds up
  when it reports no error is the number of items.

`WorkInv` has the two parts `Places` and `Books`. `Places` says where an item can be.
`RunExactlyOnce` alone is not inductive: that a new item is nowhere else needs `AllDiscovered`, by
which whatever is queued, held or run is the root or a revisit of an execution that was run. `Books`
is what the workers report: an error comes from an erroneous item that was run, none that was run
goes unnoticed, and without an error the pool halts only when nothing remains; and the result of
`verify()` is that of the workers collected so far. `StepMovesWork` reduces the actions to six ways
to move work; `PlacesStep` and `BooksStep` then need only these. For the refinement, the step that
sets the verdict is the only delicate one: `AllExplored` combines `NoWorkerLeavesEarly` with
`NoneMissing` to conclude that nothing is left to explore. The total rests on `Credited`, a
partition of the executed items among the workers. It is not a variable of the model, so the
invariant quantifies over it, and `CreditRun` and `CreditCollect` construct the next one.
`TotalIsExact` also uses `TreeAssumption`: a set of items with the root and the children of its
members has all items. That is what an item is, an execution that the driver can reach by revisits,
and it excludes cycles and unreachable items among the constants.

`TestRunnerProofs` proves, for every workspace, every selection and timing, and
every number of invocations and failures (`FrontEndAssumption`: the constants have
their types):

* `FrontEndTypeCorrect`: `Spec => []TypeOK`, by which `genmc` has a child exactly
  while it waits for one;
* `TracesHaveOneWriter`: `Spec => SingleWriter`: a child that was given up never writes
  again, and no test writes into another one's trace.

The invariant `IInv` adds that the child is the first of the tests still to be
done, that its trace exists, and that the index of the target is in range; one
lemma each goes through the steps of the script, of `genmc` and of the child.

* `PassesAreVerified`, `FailuresAreReported` and `SummaryIsRight`: `Spec => []P` for
  `PassMeansVerified`, `FailuresReported` and `SummaryAgrees`.

They follow from one invariant, `ReportInv`, beside `IInv`: what stands in a trace file is true of
the last verification of that test in this invocation (`TracesTrue`), a test that was started has a
trace and a good outcome is that of a good test (`OutcomesTrue`), a child about to print a success
has verified its test (`ChildPrintsTruth`), and the report is what the traces say (`ReportTrue`).
The difficulty is in the order of the steps: a trace is emptied before the child runs, the child may
be killed between two lines, and the mark of a timeout is appended after it. So the invariant speaks
of unfinished traces too.

`FileSystemProofs` and `FileSystemDiskProofs` prove, for every set of threads, names and
inodes, every block size and size limit, every value of `LockFailed`, every way to mount and all programs of the modelled calls
(`FSAssumption`: block size and limit are positive, inode 1 exists, `Free` is no thread,
programs are sequences of typed calls):

* `FilesArePosix`: `Spec => []FilesAsPosix`. A file nobody is writing holds what POSIX
  prescribes, shared offsets are exact where the position lock is free, and no call returns with a lock held. The exception is stated:
  a write of `LockFailed` bytes does not return and keeps the lock and the offset of its description. A read takes no inode
  lock; it never returns a byte nobody has written, and it returns what POSIX prescribes if no block and no truncation came
  between its load of the size and its end (`ReadsAsWritten`).
* `DiskIsConsistent`: `Spec => []DiskConsistent`. The sizes in memory and on disk agree
  between writers, the size on disk never covers a byte that was not written, and
  ordered data and synchronous writes reach the disk in time.
* `DiskStepsOrdered`: `Spec => DiskOrder`. The disk changes only under the lock over it,
  and no write lowers the size on disk.
* `RenamesAreAtomic`: `Spec /\ PlainCalls => []RenameAtomic`. In a program that neither links
  files nor renames one to `f` (with either, finding a file under `g` and then under `f` is right),
  a thread that has found an inode under the new name does not find it under the old one later.

All but the last follow from `InvHolds`: `Spec => []FSInv`. The properties are not inductive
because they hold between critical sections, and calls interleave event by event. `FSInv` adds:

* `Locked`: at which program points a thread holds the directory, an inode or the lock of a
  description, and nobody else does, and which descriptions a lost write has left locked;
* `OffsetLoaded`: the position a call works with is the offset of its description, so
  that storing it back loses no other call's move;
* `WritesOnTheWay`: the state of a file in the middle of a block-wise write. `Progress`: blocks of a write end where
  the file's blocks end, or with the write. `DataOnTheWay`: what
  is behind the writer and beside it is as POSIX prescribes, what is ahead of it is in its
  buffer. `SizeOnTheWay`: the size on disk, which delayed allocation
  raises early, is ahead by no more than the rest of the block in which the file ended;
* what a read has copied so far, from the size it loaded and the bytes that were there;
* `Versions`: which versions an `fsync` has covered.

Types, locks, offsets, contents and versions each have a lemma that carries them
over a step that does not concern them, and one lemma per group of
actions (names, directory, descriptors, reads, writes). Where an action does several
things to an inode, a lemma `...Effect` first states what it leaves behind. That `write()` never lowers the size on disk needs
`NextBlock` and `CloseGrows`: after the first block the next one starts at a block's end, and
the size that was raised early ends there or before.

`RenamesAreAtomic` needs an invariant of its own on top of `FSInv`, `NamesInv`. A rename has two
halves, which write the new name and clear the old one, and `open()` without `O_CREAT` loads its entry without the
directory's lock; it is the flag `dirTrans`, read before the entry, that keeps it from seeing both.
But the flag may be raised between the two loads, so that a thread does find the new name too
early. `NamedOnce`: an inode has two names only between the halves of a rename.
`FoundLate`: while `f` still names an inode that a thread has found under another name, the rename of `f` is
between its halves, and that thread has not passed the flag since. `SeenInOrder` then follows when `f` is looked up.

`GraphProofs`, `CutProofs` and `ExplorationProofs` prove, for any number of threads and words,
all programs of the modelled instructions and every choice of the programs that run
with a pool (`ProgramAssumption`: programs are finite lists of typed instructions):

* `GraphsStayWellFormed`: `Spec => [](Uniform(prog) => GraphsWellFormed)`. Whatever the
  cuts, copies, renumberings, repairs and revisits do, the labels of a thread are numbered without
  gaps, coherence lists every store once, each byte of a read comes from one store of the graph, and
  the stamps number the labels along program order. This holds of every graph on the
  execution stack, at any depth, and of the graphs that wait in the pool.
* `ItemsStayFresh`: `Spec => [](Uniform(prog) => QueuedItemsFresh)`. A work item that is
  taken long after it was queued, when the graph was cut and grew again several times,
  names the labels it was made for, and its own cut keeps all it refers to.

`Uniform(prog)` says that all accesses to a word have one size, as in a program without
mixed-size accesses. Both theorems follow from `ExplorationInvariant`:
`Spec => [](Uniform(prog) => ExplorationInv)`. `ExplorationInv` says `GraphOK` of every graph and
`ItemOK` of every queued item. `GraphsWellFormed` is not inductive: a cut to a
stamp keeps whole reads-from, gap-free threads and good stamps only if nothing that is kept
depends on what is lost. `GraphOK` adds:

* `ViewsClosed`: the prefix view stored in a label is a set of labels of the graph, closed under program order,
  under the reads-from of its members and under their own views, so that a copy up to a view is a
  graph again;
* `CutsClean`: a label that is still revisitable depends only on labels with smaller
  stamps, and so does everything stamped before it. It is false of the other labels: a
  backward revisit keeps the prefix of the revisiting store, whose labels are renumbered
  and may read from later stamps. These labels are not revisitable any more, and
  `ItemOK` says that no item is queued for them, which rests on the
  `setRevisitStatus(false)` for that prefix;
* `Sized`, by which a read has one store in its reads-from.

The argument goes by operations. `AddLabelOK`, `SetRfOK`, `AddStoreOK` and `RemoveStoreOK` treat growing
graphs; in between, a read without reads-from or a store without a place is in the set `D` of
`GraphBut(Z, g, D)`. `RestrictedOK` and `CopiedOK` treat cutting to a stamp and copying up
to a view: what remains is related to the old graph label by label (`Trimmed`), and
`repairDanglingReads()` finds at most the revisited read. `ItemKept` carries an item
over to a changed graph that agrees with the old one up to the item's stamp, `RevisitReadOK` joins
these for a revisit, and `...Inv` has one lemma per action. `Nth`, `Sorted` and `Picked` are defined
by counting instead of recursion, so that `SortedEnumerates` and its corollaries are provable.

With mixed sizes the two invariants are checked by TLC only. There a cut may take away one of the
stores of a read and keep the read, which `repairDanglingReads()` then fills from other
stores; `CutsClean` does not hold, and the invariant would have to say which bytes are
given by whom after each repair.

Only model-checked:

* liveness (`Progress`, `InvocationEnds`, `EveryCallReturns`, `EveryExecutionEnds`), since fairness
  and `ENABLED` are out of the prover's reach;
* of `ExplorationCorrectness`: `OnlyConsistent`, `Exhaustive` and `NoDuplicates`, which compare the set of all
  executions explored with an enumerated reference; `KeptStoresAreLater`, and the two proved invariants for
  programs with mixed sizes;
* the properties of `Interpreter` and `LoadAnnotation`: they compare recursively defined
  expressions and folds with a reference, which needs induction over data;
* `RenameAtomic` for programs with links, or that give the name `f` back;
* the properties of `InstructionCache`, because the trie is defined by recursion over
  its nodes, and those of `ThreadOps` and `MemorySafety`, so far.

## Not modelled

* *Options that `--mixer` turns off*, with which RustMC always runs: bounds, symmetry
  reduction, IPR, BAM (but for the barrier revisits of `ThreadOps`), helper, estimation. Without `--mixer`
  `calcRevisits` has no keep set to iterate over (`G:3455`) and never revisits
  backwards, so that only the `--mixer` exploration is modelled.
* *Recovery after a crash.* `RADriver::isRecAcyclic` returns true for every graph
  (`RA:803-813`); there is nothing to check in this repository.
* *LLVM passes* other than those named: rewrites of the module by sequential
  compiler code. Of the modelled ones, the rewriting done by the inversion of a loop and IPR's conditions on CASes are left out,
  and the instances have no nested loops and no phi fed by a CAS before its loop on the same variable.
* *Front-end*: how discovery follows `call_once` to a test function, the
  parsing of options, `genmc` without `--per-test-timeout`.
* *Interpreter*: variable arguments, memory intrinsics, I/O of the program under
  test, the address allocator.
* *Graph*: LAPOR and RCU labels, printing.
* *Containers*: adjacency lists, sets and maps are used through their meaning.

## Plan

Done: the pool and its proofs; graph, memory model, exploration and reference; the
proofs that the exploration keeps graphs and work items well formed; the
front-end and its proofs; blocking operations; memory checks; instruction cache;
file system and its proofs; values and thread-local memory; load annotations, loop entry and spinloops.

Left, in this order:

1. Proofs: `IteratorsConverse` of `MemorySafety`, whose labels store their views, so that an
   inductive invariant can say that a view is closed under program order;
   `ThreadsAgree` and `NoLostJoin` of `ThreadOps`; the invariants of graphs for programs with
   mixed sizes.
2. Composition of `ThreadOps` with the weak-memory choices of `Exploration`, with a
   reference semantics that has blocking.
3. The resolution of test functions in `RustTestDiscovery.cpp`.
4. The bounds of `ContextBoundDecider` and `RoundBoundDecider` against a
   reference definition.

