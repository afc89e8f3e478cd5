----------------------------- MODULE TestRunner -----------------------------
(***************************************************************************)
(* The Rust test front-end: tools/cargo-rustmc with rustmc_pipeline.sh,    *)
(* the discovery of tests (RustTestDiscovery.cpp) and the loop of main()   *)
(* that verifies each test in a forked child under a deadline.             *)
(*                                                                         *)
(* Three processes take steps: the script, genmc (the script waits for it, *)
(* so that both share the program counter pc) and the forked child.  What  *)
(* they leave behind are files: bitcode in the deps directory, which       *)
(* survives an invocation, the linked combined.bc, and one trace per test, *)
(* of which only the lines the script greps for are kept.                  *)
(***************************************************************************)
EXTENDS Integers, Sequences, FiniteSets

CONSTANTS
    Target,       \* the test targets of the workspace
    Order,        \* the targets in the order the script verifies them
    Unit,         \* the targets that are unit-test binaries
    Stem,         \* the name of a target's bitcode, without its hash
    Config,       \* feature selections; a bitcode file's hash depends on them
    Rank,         \* where the shell's glob sorts a bitcode file
    Size,         \* its size
    Test,         \* the test functions
    TestsOf,      \* the tests of a target that match RUST_TEST_FILTER, sorted
    Fn,           \* the bare name of a test function, split at every "__"
    ShouldPanic,  \* the tests annotated #[should_panic]
    Unsupported,  \* the tests listed in rustmc-unsupported-tests.txt
    Selections,   \* the target selections (--lib, --test ...) a user may pass
    Verdicts,     \* the ways in which a test may behave under genmc
    MaxRuns,      \* bound: invocations of the script
    MaxFaults,    \* bound: failures of llvm-link, fork and genmc itself
    None

Bitcode == Target \X Config

(* A test as compiled: its symbol carries a hash that depends on the       *)
(* configuration.  The trace file is named after the demangled symbol with *)
(* ':' replaced by '_'; the hash keeps these names apart, so that a trace  *)
(* is identified by the compiled test.                                     *)
Compiled == Test \X Config

Verdict == {"ok", "error", "panic", "abort", "crash"}

Line == {"complete", "unsuccessful", "panicked", "ERROR", "TIMEOUT",
         "expectedPanic", "unsupported"}

ASSUME FrontEndAssumption ==
    /\ Order \in Seq(Target)
    /\ Unit \subseteq Target
    /\ Rank \in [Bitcode -> Nat]
    /\ Size \in [Bitcode -> Nat]
    /\ TestsOf \in [Target -> Seq(Test)]
    /\ ShouldPanic \cup Unsupported \subseteq Test
    /\ DOMAIN Stem = Target
    /\ DOMAIN Fn = Test
    /\ \A t \in Test : Fn[t] # <<>>
    /\ Selections \subseteq SUBSET Target
    /\ Verdicts \subseteq Verdict
    /\ MaxRuns \in Nat
    /\ MaxFaults \in Nat
    /\ None \notin Bitcode \cup Compiled

VARIABLES
    verdict,    \* how each test behaves: fixed, verification is deterministic
    pc,         \* where the script or genmc is
    runs,       \* invocations so far
    faults,     \* external failures so far
    built,      \* the bitcode cargo selected in this invocation
    deps,       \* the bitcode in DEPS_DIR
    next,       \* index in Order of the target to verify
    combined,   \* what $WORKDIR/combined.bc was linked from
    todo,       \* programEntryFuns still to verify
    child,      \* the forked child
    overall,    \* overallResult
    traces,     \* the trace files and their lines
    outcome,    \* history: how the last verification of a test ended
    report,     \* the line the script prints for each trace
    exit        \* exit status of the last invocation

scriptVars == <<runs, built, deps, next, combined, report, exit>>
vars == <<verdict, pc, faults, todo, child, overall, traces, outcome,
          scriptVars>>

NoChild == [phase |-> "none", test |-> None, status |-> "none"]

Empty == [f \in {} |-> {}]      \* an empty directory

(* Every variable has its type, and genmc has a child exactly while it     *)
(* waits for one: no child is left behind by a test.                       *)
TypeOK ==
    /\ verdict \in [Test -> Verdicts]
    /\ pc \in {"idle", "select", "genmc", "test", "wait", "mark", "exited"}
    /\ runs \in 0..MaxRuns
    /\ faults \in 0..MaxFaults
    /\ built \subseteq Bitcode
    /\ deps \subseteq Bitcode
    /\ next \in 1..(Len(Order) + 1)
    /\ combined \in Bitcode \cup {None}
    /\ todo \in Seq(Compiled)
    /\ child \in [phase : {"none", "verifying", "printing", "exiting", "dead"},
                  test : Compiled \cup {None},
                  status : {"none", "zero", "nonzero", "signal"}]
    /\ pc = "wait" <=> child.phase # "none"
    /\ overall \in {0, 1}
    /\ DOMAIN traces \subseteq Compiled
    /\ \A f \in DOMAIN traces : traces[f] \subseteq Line
    /\ outcome \in [Compiled -> {"none", "started", "ok", "bad"}]
    /\ DOMAIN report \subseteq Compiled
    /\ exit \in {0, 1}

Init ==
    /\ verdict \in [Test -> Verdicts]
    /\ pc = "idle" /\ runs = 0 /\ faults = 0 /\ exit = 0
    /\ built = {} /\ deps = {} /\ next = 1 /\ combined = None
    /\ todo = <<>> /\ child = NoChild /\ overall = 0
    /\ traces = Empty /\ report = Empty
    /\ outcome = [t \in Compiled |-> "none"]

(* An external tool fails, at most MaxFaults times.                        *)
Fail == faults < MaxFaults /\ faults' = faults + 1

----------------------------------------------------------------------------
(* The script.                                                             *)

FaultClean == traces' = traces                      \* old traces stay
Clean == traces' = Empty

(* A new invocation removes the traces and the work directory, not the     *)
(* deps directory, and lets cargo build the selected targets.              *)
Start(T, c) ==
    /\ pc \in {"idle", "exited"}
    /\ runs < MaxRuns
    /\ runs' = runs + 1
    /\ Clean
    /\ combined' = None
    /\ built' = T \X {c}
    /\ deps' = deps \cup built'
    /\ next' = 1
    /\ report' = Empty
    /\ outcome' = [t \in Compiled |-> "none"]
    /\ pc' = "select"
    /\ UNCHANGED <<verdict, faults, todo, child, overall, exit>>

(* cargo fails after having written some of the bitcode: die().            *)
BuildFails(T, c) ==
    /\ pc \in {"idle", "exited"}
    /\ runs < MaxRuns
    /\ runs' = runs + 1
    /\ Fail
    /\ Clean
    /\ combined' = None
    /\ built' \in SUBSET (T \X {c})
    /\ deps' = deps \cup built'
    /\ report' = Empty
    /\ outcome' = [t \in Compiled |-> "none"]
    /\ exit' = 1
    /\ pc' = "exited"
    /\ UNCHANGED <<verdict, next, todo, child, overall>>

(* <stem>-*.bc in the deps directory, whoever built it.                    *)
Candidates(g) == {b \in deps : Stem[b[1]] = Stem[g]}

(* The first of them exporting main for an integration test, the largest   *)
(* one for the unit tests.                                                 *)
SelectedBitcode(g) ==
    {b \in Candidates(g) : \A d \in Candidates(g) :
        IF g \in Unit THEN Size[b] >= Size[d] ELSE Rank[b] <= Rank[d]}

(* A target without bitcode is passed over.                                *)
SkipTarget ==
    /\ pc = "select" /\ next <= Len(Order)
    /\ Candidates(Order[next]) = {}
    /\ next' = next + 1
    /\ UNCHANGED <<verdict, pc, faults, todo, child, overall, traces, outcome,
                   runs, built, deps, combined, report, exit>>

(* link_and_disassemble: a failing llvm-link leaves the combined.bc of the *)
(* previous target where it is, and its status is not looked at.           *)
Link ==
    /\ pc = "select" /\ next <= Len(Order)
    /\ Candidates(Order[next]) # {}
    /\ \/ combined' \in SelectedBitcode(Order[next]) /\ faults' = faults
       \/ combined' = combined /\ Fail
    /\ pc' = "genmc"
    /\ UNCHANGED <<verdict, todo, child, overall, traces, outcome,
                   runs, built, deps, next, report, exit>>

FaultMarked(f) ==                                   \* whatever the trace says
    traces[f] \cup {"expectedPanic"}

(* The function name recovered from the name of a trace: what follows the  *)
(* last "__" in front of the hash.                                         *)
RecoveredFn(t) == <<Fn[t][Len(Fn[t])]>>

(* expected_panics.txt: the bare names of all annotated functions.         *)
ExpectedPanics == {Fn[t] : t \in ShouldPanic}

(* The lines appended to a trace when genmc has returned, whatever it      *)
(* returned: a panic is expected if the name recovered is in the list.     *)
Marked(f) ==
    traces[f]
    \cup {l \in {"expectedPanic"} : /\ "panicked" \in traces[f]
                                    /\ RecoveredFn(f[1]) \in ExpectedPanics}
    \cup {l \in {"unsupported"} : f[1] \in Unsupported}

MarkTraces ==
    /\ pc = "mark"
    /\ traces' = [f \in DOMAIN traces |-> Marked(f)]
    /\ next' = next + 1
    /\ pc' = "select"
    /\ UNCHANGED <<verdict, faults, todo, child, overall, outcome,
                   runs, built, deps, combined, report, exit>>

FaultClassify(f) ==                                 \* a timeout is no failure
    IF "complete" \in traces[f] THEN "ok"
    ELSE IF "TIMEOUT" \in traces[f] THEN "skip"
    ELSE "FAILED"

(* What the report says of a trace: the first pattern that matches.        *)
Classify(f) ==
    IF "complete" \in traces[f] THEN "ok"
    ELSE IF "expectedPanic" \in traces[f] THEN "expected panic"
    ELSE IF "unsupported" \in traces[f] THEN "skip"
    ELSE "FAILED"

Report ==
    /\ pc = "select" /\ next > Len(Order)
    /\ report' = [f \in DOMAIN traces |-> Classify(f)]
    /\ exit' = IF \E f \in DOMAIN traces : Classify(f) = "FAILED" THEN 1 ELSE 0
    /\ pc' = "exited"
    /\ UNCHANGED <<verdict, faults, todo, child, overall, traces, outcome,
                   runs, built, deps, next, combined>>

(* summarize_results: the traces of each category.                         *)
SummarySuccess == {f \in DOMAIN traces : "complete" \in traces[f]}
SummaryExpected == {f \in DOMAIN traces : "expectedPanic" \in traces[f]}

----------------------------------------------------------------------------
(* genmc.                                                                  *)

(* discoverRustTests: the tests of the linked binary.                      *)
Discovered ==
    [i \in 1..Len(TestsOf[combined[1]]) |-> <<TestsOf[combined[1]][i], combined[2]>>]

(* genmc loads the bitcode, discovers the tests and transforms the module. *)
(* Without a file or without a test it returns at once.  There is no       *)
(* estimation phase: --mixer turns it off.                                 *)
Discover ==
    /\ pc = "genmc"
    /\ overall' = 0
    /\ IF combined = None \/ Discovered = <<>>
       THEN todo' = <<>> /\ pc' = "mark"
       ELSE todo' = Discovered /\ pc' = "test"
    /\ UNCHANGED <<verdict, faults, child, traces, outcome, scriptVars>>

(* genmc dies before its first test, for instance in a transformation.     *)
GenmcDies ==
    /\ pc = "genmc"
    /\ combined # None
    /\ Fail
    /\ pc' = "mark"
    /\ UNCHANGED <<verdict, todo, child, overall, traces, outcome, scriptVars>>

(* O_CREAT | O_TRUNC *)
OpenTrace(t) ==
    traces' = [f \in DOMAIN traces \cup {t} |-> IF f = t THEN {} ELSE traces[f]]

(* The next entry function: its trace is opened and a child forked.  If    *)
(* fork fails, waitpid(-1) finds no child and the loop ends with status 0. *)
BeginTest ==
    /\ pc = "test" /\ todo # <<>>
    /\ OpenTrace(Head(todo))
    /\ outcome' = [outcome EXCEPT ![Head(todo)] = "started"]
    /\ \/ /\ child' = [NoChild EXCEPT !.phase = "verifying", !.test = Head(todo)]
          /\ pc' = "wait"
          /\ UNCHANGED <<todo, faults>>
       \/ /\ Fail
          /\ todo' = Tail(todo)
          /\ UNCHANGED <<child, pc>>
    /\ UNCHANGED <<verdict, overall, scriptVars>>

GenmcReturns ==
    /\ pc = "test" /\ todo = <<>>
    /\ pc' = "mark"
    /\ UNCHANGED <<verdict, faults, todo, child, overall, traces, outcome,
                   scriptVars>>

(* The loop reaps the child; only an exit status counts, a signal does not *)
Reap ==
    /\ pc = "wait" /\ child.phase = "dead"
    /\ overall' = IF child.status = "nonzero" THEN 1 ELSE overall
    /\ child' = NoChild
    /\ todo' = Tail(todo)
    /\ pc' = "test"
    /\ UNCHANGED <<verdict, faults, traces, outcome, scriptVars>>

Append1(f, l) == [traces EXCEPT ![f] = @ \cup {l}]

FaultDeadline ==                                    \* SIGKILL is forgotten
    /\ pc = "wait" /\ child.phase # "none"
    /\ traces' = Append1(child.test, "TIMEOUT")
    /\ todo' = Tail(todo)
    /\ pc' = "test"
    /\ UNCHANGED <<verdict, faults, child, overall, outcome, scriptVars>>

FaultBlockingWait ==                                \* waitpid without WNOHANG
    /\ pc = "wait" /\ child.phase = "dead"
    /\ traces' = Append1(child.test, "TIMEOUT")
    /\ child' = NoChild
    /\ todo' = Tail(todo)
    /\ pc' = "test"
    /\ UNCHANGED <<verdict, faults, overall, outcome, scriptVars>>

(* The deadline passes before a poll has seen the child's end, which may   *)
(* nevertheless have come: the child is killed, reaped and its status      *)
(* ignored.                                                                *)
Deadline ==
    /\ pc = "wait" /\ child.phase # "none"
    /\ traces' = Append1(child.test, "TIMEOUT")
    /\ child' = NoChild
    /\ todo' = Tail(todo)
    /\ pc' = "test"
    /\ UNCHANGED <<verdict, faults, overall, outcome, scriptVars>>

----------------------------------------------------------------------------
(* The child.                                                              *)

ChildVerdict == verdict[child.test[1]]

ChildUnchanged == UNCHANGED <<verdict, pc, faults, todo, overall, scriptVars>>

(* GenMCDriver::verify returns and its messages are printed.               *)
ChildVerifies ==
    /\ child.phase = "verifying"
    /\ ChildVerdict \in {"ok", "error", "panic"}
    /\ outcome' = [outcome EXCEPT ![child.test] =
                       IF ChildVerdict = "ok" THEN "ok" ELSE "bad"]
    /\ traces' = IF ChildVerdict = "panic"
                 THEN Append1(child.test, "panicked")
                 ELSE traces
    /\ child' = [child EXCEPT !.phase = "printing"]
    /\ ChildUnchanged

(* printVerificationResults: the line that says how it went.               *)
ChildPrintsResult ==
    /\ child.phase = "printing"
    /\ traces' = Append1(child.test,
                         IF ChildVerdict = "ok" THEN "complete" ELSE "unsuccessful")
    /\ child' = [child EXCEPT !.phase = "exiting"]
    /\ UNCHANGED outcome
    /\ ChildUnchanged

ChildExits ==
    /\ child.phase = "exiting"
    /\ child' = [child EXCEPT !.phase = "dead",
                     !.status = IF ChildVerdict = "ok" THEN "zero" ELSE "nonzero"]
    /\ UNCHANGED <<traces, outcome>>
    /\ ChildUnchanged

(* ERROR() or BUG(): a message and exit(), without a result line.          *)
ChildAborts ==
    /\ child.phase = "verifying" /\ ChildVerdict = "abort"
    /\ traces' = Append1(child.test, "ERROR")
    /\ child' = [child EXCEPT !.phase = "dead", !.status = "nonzero"]
    /\ UNCHANGED outcome
    /\ ChildUnchanged

(* A signal ends the child, for instance a failed assertion.               *)
ChildCrashes ==
    /\ child.phase = "verifying" /\ ChildVerdict = "crash"
    /\ child' = [child EXCEPT !.phase = "dead", !.status = "signal"]
    /\ UNCHANGED <<traces, outcome>>
    /\ ChildUnchanged

----------------------------------------------------------------------------
Invoke == \E T \in Selections, c \in Config : Start(T, c) \/ BuildFails(T, c)

(* What the script and genmc do without waiting for the user or the child. *)
Progress ==
    \/ SkipTarget \/ Link \/ MarkTraces \/ Report
    \/ Discover \/ GenmcDies \/ BeginTest \/ GenmcReturns \/ Reap \/ Deadline

Child ==
    \/ ChildVerifies \/ ChildPrintsResult \/ ChildExits
    \/ ChildAborts \/ ChildCrashes

Next == Invoke \/ Progress \/ Child

Spec == Init /\ [][Next]_vars

(* The script and genmc keep going and time passes; the child may hang.    *)
FairSpec == Spec /\ WF_vars(Progress)

----------------------------------------------------------------------------
(* The script's two reasons not to call a failed test a failure.           *)
Excused(t) ==
    \/ t[1] \in Unsupported
    \/ /\ verdict[t[1]] = "panic"
       /\ RecoveredFn(t[1]) \in ExpectedPanics

(* A test that the report calls ok, without the remark about a panic, was  *)
(* verified in this very invocation and no error was found: no stale trace *)
(* of an earlier invocation, no repeated target and no late deadline       *)
(* makes a test pass (report of cargo-rustmc, trace files of main()).      *)
PassMeansVerified ==
    pc = "exited" =>
        \A f \in DOMAIN report : report[f] = "ok" => outcome[f] = "ok"

(* If the last verification of a test in this invocation did not end well, *)
(* in an error, an abort, a crash, a timeout or a failed fork, the script  *)
(* exits with a non-zero status, unless the test is excused.               *)
FailuresReported ==
    pc = "exited" /\ exit = 0 =>
        \A t \in Compiled : outcome[t] \in {"started", "bad"} => Excused(t)

(* The traces the summary counts as successes and as expected panics are   *)
(* disjoint and together are the ones the report counts as passed.         *)
SummaryAgrees ==
    pc = "exited" =>
        /\ SummarySuccess \cap SummaryExpected = {}
        /\ SummarySuccess \cup SummaryExpected =
              {f \in DOMAIN report : report[f] \in {"ok", "expected panic"}}

(* While genmc runs, a trace file changes only by the hand of the test     *)
(* whose turn it is: a child that was given up never writes again, neither *)
(* into its own trace nor into a later report.                             *)
SingleWriter ==
    [][\A f \in DOMAIN traces \cap DOMAIN traces' :
           traces'[f] # traces[f] =>
               \/ pc = "mark"
               \/ pc \in {"test", "wait"} /\ todo # <<>> /\ f = Head(todo)]_vars

(* Every invocation comes to an end, although a child may hang.            *)
InvocationEnds == (pc = "select") ~> (pc = "exited")
=============================================================================
