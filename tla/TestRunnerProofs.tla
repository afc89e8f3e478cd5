-------------------------- MODULE TestRunnerProofs --------------------------
(* Theorems about the front-end, for any workspace and any test behaviour. *)
EXTENDS TestRunner, SequenceTheorems, TLAPS

(* While genmc waits, the child runs the first test still to be done, and  *)
(* its trace has been opened.                                              *)
ChildIsCurrent ==
    pc = "wait" => /\ todo # <<>>
                   /\ child.test = Head(todo)
                   /\ child.test \in DOMAIN traces

(* While a target is being verified, next is the index of a target.        *)
TargetInRange == pc \in {"genmc", "test", "wait", "mark"} => next <= Len(Order)

(* The inductive invariant: SingleWriter and the types rest on the link    *)
(* between the child, the list of tests and the open trace.                *)
IInv == TypeOK /\ ChildIsCurrent /\ TargetInRange

(* The part of TypeOK that fixes the shape of the traces directory.        *)
TracesOK == /\ DOMAIN traces \subseteq Compiled
            /\ \A f \in DOMAIN traces : traces[f] \subseteq Line

(* The initial states satisfy the invariant.                               *)
LEMMA InitIInv == Init => IInv
BY FrontEndAssumption DEF Init, IInv, TypeOK, ChildIsCurrent, TargetInRange, NoChild, Empty

(* Appending a line that the scripts look for keeps the directory's shape. *)
LEMMA AppendOK ==
    ASSUME TracesOK, NEW f \in DOMAIN traces, NEW l \in Line,
           traces' = Append1(f, l)
    PROVE  TracesOK' /\ DOMAIN traces' = DOMAIN traces
           /\ \A g \in DOMAIN traces : g # f => traces'[g] = traces[g]
BY DEF TracesOK, Append1

(* Opening a trace keeps the directory's shape and touches no other trace. *)
LEMMA OpenOK ==
    ASSUME TracesOK, NEW t \in Compiled, OpenTrace(t)
    PROVE  TracesOK' /\ DOMAIN traces' = DOMAIN traces \cup {t}
           /\ \A g \in DOMAIN traces : g # t => traces'[g] = traces[g]
BY DEF TracesOK, OpenTrace

(* The tests that discovery returns are compiled tests.                    *)
LEMMA DiscoveredType ==
    ASSUME combined \in Bitcode
    PROVE  Discovered \in Seq(Compiled)
<1>1. combined[1] \in Target /\ combined[2] \in Config
  BY DEF Bitcode
<1>2. TestsOf[combined[1]] \in Seq(Test)
  BY <1>1, FrontEndAssumption
<1> QED BY <1>1, <1>2 DEF Discovered, Compiled

(* Every step of the script keeps the invariant.                           *)
LEMMA ScriptStep ==
    ASSUME IInv,
           Invoke \/ SkipTarget \/ Link \/ MarkTraces \/ Report
    PROVE  IInv'
<1> USE DEF IInv, TypeOK, ChildIsCurrent, TargetInRange, scriptVars
<1>1. CASE Invoke
  <2> SUFFICES ASSUME NEW T \in Selections, NEW c \in Config,
                      Start(T, c) \/ BuildFails(T, c)
               PROVE  IInv'
    BY <1>1 DEF Invoke
  <2>1. T \X {c} \subseteq Bitcode
    BY FrontEndAssumption DEF Bitcode
  <2>2. runs' \in 0..MaxRuns
    BY FrontEndAssumption DEF Start, BuildFails
  <2>3. 1 \in 1..(Len(Order) + 1)
    BY FrontEndAssumption
  <2>4. CASE Start(T, c)
    BY <2>1, <2>2, <2>3, <2>4 DEF Start, Clean, Empty
  <2>5. CASE BuildFails(T, c)
    <3>1. faults' \in 0..MaxFaults
      BY <2>5, FrontEndAssumption DEF BuildFails, Fail
    <3> QED BY <2>1, <2>2, <2>5, <3>1 DEF BuildFails, Clean, Empty
  <2> QED BY <2>4, <2>5
<1>2. CASE SkipTarget
  BY <1>2, FrontEndAssumption DEF SkipTarget
<1>3. CASE Link
  <2>1. combined' \in Bitcode \cup {None}
    BY <1>3 DEF Link, SelectedBitcode, Candidates
  <2>2. faults' \in 0..MaxFaults
    BY <1>3, FrontEndAssumption DEF Link, Fail
  <2> QED BY <1>3, <2>1, <2>2 DEF Link
<1>4. CASE MarkTraces
  <2>1. next' \in 1..(Len(Order) + 1)
    BY <1>4, FrontEndAssumption DEF MarkTraces
  <2>2. DOMAIN traces' = DOMAIN traces /\ \A f \in DOMAIN traces : traces'[f] \subseteq Line
    BY <1>4 DEF MarkTraces, Marked, Line
  <2> QED BY <1>4, <2>1, <2>2 DEF MarkTraces
<1>5. CASE Report
  BY <1>5 DEF Report
<1> QED BY <1>1, <1>2, <1>3, <1>4, <1>5

(* Every step of genmc keeps the invariant.                                *)
LEMMA GenmcStep ==
    ASSUME IInv,
           Discover \/ GenmcDies \/ BeginTest \/ GenmcReturns \/ Reap \/ Deadline
    PROVE  IInv'
<1> USE DEF IInv, TypeOK, ChildIsCurrent, TargetInRange, scriptVars
<1>0. TracesOK
  BY DEF TracesOK
<1>1. CASE Discover
  <2>1. CASE combined = None \/ Discovered = <<>>
    <3>1. todo' = <<>> /\ pc' = "mark"
      BY <1>1, <2>1 DEF Discover
    <3> QED BY <1>1, <3>1 DEF Discover
  <2>2. CASE ~(combined = None \/ Discovered = <<>>)
    <3>1. todo' = Discovered /\ pc' = "test"
      BY <1>1, <2>2 DEF Discover
    <3>2. combined \in Bitcode
      BY <2>2
    <3>3. todo' \in Seq(Compiled)
      BY <3>1, <3>2, DiscoveredType
    <3> QED BY <1>1, <3>1, <3>3 DEF Discover
  <2> QED BY <2>1, <2>2
<1>2. CASE GenmcDies
  <2>1. faults' \in 0..MaxFaults
    BY <1>2, FrontEndAssumption DEF GenmcDies, Fail
  <2> QED BY <1>2, <2>1 DEF GenmcDies
<1>3. CASE BeginTest
  <2>1. Head(todo) \in Compiled /\ Tail(todo) \in Seq(Compiled)
    BY <1>3 DEF BeginTest
  <2>2. TracesOK' /\ DOMAIN traces' = DOMAIN traces \cup {Head(todo)}
    BY <1>0, <1>3, <2>1, OpenOK DEF BeginTest
  <2>3. faults' \in 0..MaxFaults
    BY <1>3, FrontEndAssumption DEF BeginTest, Fail
  <2>4. outcome' \in [Compiled -> {"none", "started", "ok", "bad"}]
    BY <1>3 DEF BeginTest
  <2>5. pc = "test" /\ child.phase = "none"
    BY <1>3 DEF BeginTest
  <2>6. CASE pc' = "wait"
    <3>1. child' = [NoChild EXCEPT !.phase = "verifying", !.test = Head(todo)]
          /\ todo' = todo /\ todo # <<>>
      BY <1>3, <2>5, <2>6 DEF BeginTest
    <3>2. /\ child' \in [phase : {"none", "verifying", "printing", "exiting", "dead"},
                          test : Compiled \cup {None},
                          status : {"none", "zero", "nonzero", "signal"}]
          /\ child'.phase = "verifying"
          /\ child'.test = Head(todo)
      BY <2>1, <3>1 DEF NoChild
    <3> QED BY <1>3, <2>2, <2>3, <2>4, <2>6, <3>1, <3>2 DEF BeginTest, TracesOK
  <2>7. CASE pc' # "wait"
    <3>1. pc' = pc /\ child' = child /\ todo' = Tail(todo)
      BY <1>3, <2>7 DEF BeginTest
    <3> QED BY <1>3, <2>1, <2>2, <2>3, <2>4, <2>5, <3>1 DEF BeginTest, TracesOK
  <2> QED BY <2>6, <2>7
<1>4. CASE GenmcReturns
  BY <1>4 DEF GenmcReturns
<1>5. CASE Reap
  <2>1. Tail(todo) \in Seq(Compiled)
    BY <1>5 DEF Reap
  <2> QED BY <1>5, <2>1 DEF Reap, NoChild
<1>6. CASE Deadline
  <2>1. Tail(todo) \in Seq(Compiled)
    BY <1>6 DEF Deadline
  <2>2. TracesOK'
    BY <1>0, <1>6, AppendOK DEF Deadline, Line
  <2> QED BY <1>6, <2>1, <2>2 DEF Deadline, NoChild, TracesOK
<1> QED BY <1>1, <1>2, <1>3, <1>4, <1>5, <1>6

(* Every step of the child keeps the invariant.                            *)
LEMMA ChildStep ==
    ASSUME IInv, Child
    PROVE  IInv'
<1> USE DEF IInv, TypeOK, ChildIsCurrent, TargetInRange, scriptVars, ChildUnchanged
<1>0. TracesOK
  BY DEF TracesOK
<1>1. child.phase # "none"
  BY DEF Child, ChildVerifies, ChildPrintsResult, ChildExits, ChildAborts, ChildCrashes
<1>2. pc = "wait" /\ child.test \in DOMAIN traces /\ child.test \in Compiled
  BY <1>1
<1>3. CASE ChildVerifies
  <2>1. TracesOK' /\ DOMAIN traces' = DOMAIN traces
    BY <1>0, <1>2, <1>3, AppendOK DEF ChildVerifies, Line, TracesOK
  <2>2. outcome' \in [Compiled -> {"none", "started", "ok", "bad"}]
    BY <1>3 DEF ChildVerifies
  <2> QED BY <1>2, <1>3, <2>1, <2>2 DEF ChildVerifies, TracesOK
<1>4. CASE ChildPrintsResult
  <2>1. TracesOK' /\ DOMAIN traces' = DOMAIN traces
    BY <1>0, <1>2, <1>4, AppendOK DEF ChildPrintsResult, Line
  <2> QED BY <1>2, <1>4, <2>1 DEF ChildPrintsResult, TracesOK
<1>5. CASE ChildExits
  BY <1>2, <1>5 DEF ChildExits
<1>6. CASE ChildAborts
  <2>1. TracesOK' /\ DOMAIN traces' = DOMAIN traces
    BY <1>0, <1>2, <1>6, AppendOK DEF ChildAborts, Line
  <2> QED BY <1>2, <1>6, <2>1 DEF ChildAborts, TracesOK
<1>7. CASE ChildCrashes
  BY <1>2, <1>7 DEF ChildCrashes
<1> QED BY <1>3, <1>4, <1>5, <1>6, <1>7 DEF Child

(* The invariant is inductive.                                             *)
LEMMA StepIInv == IInv /\ [Next]_vars => IInv'
<1> SUFFICES ASSUME IInv, [Next]_vars PROVE IInv'
  OBVIOUS
<1>1. CASE UNCHANGED vars
  BY <1>1 DEF IInv, TypeOK, ChildIsCurrent, TargetInRange, vars, scriptVars
<1>2. CASE Next
  BY <1>2, ScriptStep, GenmcStep, ChildStep DEF Next, Progress
<1> QED BY <1>1, <1>2

(* The front-end's variables keep their types, and genmc has a child       *)
(* exactly while it waits for one (fork, waitpid and SIGKILL in main()).   *)
THEOREM FrontEndTypeCorrect == Spec => []TypeOK
<1>1. IInv => TypeOK
  BY DEF IInv
<1> QED BY <1>1, InitIInv, StepIInv, PTL DEF Spec

(* A step under the invariant changes no trace but that of the test whose  *)
(* turn it is, except when the script marks the traces.                    *)
LEMMA StepSingleWriter ==
    ASSUME IInv, [Next]_vars,
           NEW f \in DOMAIN traces \cap DOMAIN traces',
           traces'[f] # traces[f], pc # "mark"
    PROVE  pc \in {"test", "wait"} /\ todo # <<>> /\ f = Head(todo)
<1>0. TracesOK
  BY DEF IInv, TypeOK, TracesOK
<1>1. traces' # traces
  OBVIOUS
<1>2. CASE Invoke
  BY <1>2 DEF Invoke, Start, BuildFails, Clean, Empty
<1>3. CASE BeginTest
  <2>1. Head(todo) \in Compiled
    BY <1>3 DEF BeginTest, IInv, TypeOK
  <2>2. f # Head(todo) => traces'[f] = traces[f]
    BY <1>0, <1>3, <2>1, OpenOK DEF BeginTest
  <2> QED BY <1>3, <2>2 DEF BeginTest
<1>4. CASE Deadline \/ ChildVerifies \/ ChildPrintsResult \/ ChildAborts
  <2>1. pc = "wait" /\ todo # <<>> /\ child.test = Head(todo)
        /\ child.test \in DOMAIN traces
    BY <1>4 DEF IInv, TypeOK, ChildIsCurrent, Deadline, ChildVerifies,
                ChildPrintsResult, ChildAborts
  <2>2. \E l \in Line : traces' = Append1(child.test, l)
    BY <1>1, <1>4 DEF Deadline, ChildVerifies, ChildPrintsResult, ChildAborts, Line
  <2>3. f # child.test => traces'[f] = traces[f]
    BY <1>0, <2>1, <2>2, AppendOK
  <2> QED BY <2>1, <2>3
<1> QED BY <1>1, <1>2, <1>3, <1>4
        DEF Next, Progress, Child, vars, scriptVars, SkipTarget, Link, MarkTraces,
            Report, Discover, GenmcDies, GenmcReturns, Reap, ChildExits, ChildCrashes

(* No child that was given up ever writes again, and no test writes into   *)
(* another one's trace (trace files, fork and SIGKILL in main()).          *)
THEOREM TracesHaveOneWriter == Spec => SingleWriter
<1>1. IInv /\ [Next]_vars =>
        [\A f \in DOMAIN traces \cap DOMAIN traces' :
           traces'[f] # traces[f] =>
               \/ pc = "mark"
               \/ pc \in {"test", "wait"} /\ todo # <<>> /\ f = Head(todo)]_vars
  BY StepSingleWriter
<1> QED BY <1>1, InitIInv, StepIInv, PTL DEF Spec, SingleWriter

----------------------------------------------------------------------------
(* What a trace says, and what the report makes of it.                     *)

(* The lines of a trace are about the last verification of its test: only  *)
(* a verification that ended well prints "complete", only a panicking test *)
(* has a panic in its trace, and the script's marks have their reasons.    *)
LinesTrue(f) ==
    /\ "complete" \in traces[f] => outcome[f] = "ok"
    /\ "panicked" \in traces[f] => verdict[f[1]] = "panic"
    /\ "expectedPanic" \in traces[f] => /\ "panicked" \in traces[f]
                                        /\ RecoveredFn(f[1]) \in ExpectedPanics
    /\ "unsupported" \in traces[f] => f[1] \in Unsupported

TracesTrue == \A f \in DOMAIN traces : LinesTrue(f)

(* A test that was started in this invocation has a trace, and a good      *)
(* outcome is that of a good test.                                         *)
OutcomesTrue ==
    /\ \A t \in Compiled : outcome[t] # "none" => t \in DOMAIN traces
    /\ \A t \in Compiled : outcome[t] = "ok" => verdict[t[1]] = "ok"

(* A child about to print its result has verified its test.                *)
ChildPrintsTruth ==
    child.phase = "printing" /\ verdict[child.test[1]] = "ok" => outcome[child.test] = "ok"

(* What the last invocation reported is what its traces say.               *)
ReportTrue ==
    pc = "exited" =>
        /\ DOMAIN report = DOMAIN traces
        /\ \A f \in DOMAIN traces : report[f] = Classify(f)
        /\ exit = 0 => \A f \in DOMAIN traces : Classify(f) # "FAILED"

(* The inductive invariant of the report, beside IInv.                     *)
ReportInv == TracesTrue /\ OutcomesTrue /\ ChildPrintsTruth /\ ReportTrue

(* At the start there are no traces, no outcomes and no report.            *)
LEMMA InitReport == Init => ReportInv
BY DEF Init, ReportInv, TracesTrue, OutcomesTrue, ChildPrintsTruth, ReportTrue, Empty, NoChild

(* Traces that are kept, with the outcomes and the verdicts, stay true.    *)
LEMMA KeptTrue ==
    ASSUME TracesTrue, OutcomesTrue, UNCHANGED <<verdict, traces, outcome>>
    PROVE  TracesTrue' /\ OutcomesTrue'
BY DEF TracesTrue, OutcomesTrue, LinesTrue, RecoveredFn, ExpectedPanics

(* An appended line is true if it is one of genmc's that says nothing, or  *)
(* if what it says holds.                                                  *)
LEMMA AppendTrue ==
    ASSUME TracesOK, TracesTrue, OutcomesTrue, NEW f \in DOMAIN traces,
           NEW l \in Line \ {"expectedPanic", "unsupported"},
           traces' = Append1(f, l), UNCHANGED verdict,
           outcome' = outcome,
           l = "complete" => outcome[f] = "ok",
           l = "panicked" => verdict[f[1]] = "panic"
    PROVE  TracesTrue' /\ OutcomesTrue'
<1>1. /\ DOMAIN traces' = DOMAIN traces
      /\ \A g \in DOMAIN traces : g # f => traces'[g] = traces[g]
      /\ traces'[f] = traces[f] \cup {l}
  BY DEF Append1
<1>2. ASSUME NEW g \in DOMAIN traces PROVE LinesTrue(g)'
  <2>1. LinesTrue(g)
    BY DEF TracesTrue
  <2>2. traces'[g] = traces[g] \/ (g = f /\ traces'[g] = traces[g] \cup {l})
    BY <1>1
  <2>3. /\ "complete" \in traces'[g] => "complete" \in traces[g] \/ (g = f /\ l = "complete")
        /\ "panicked" \in traces'[g] => "panicked" \in traces[g] \/ (g = f /\ l = "panicked")
        /\ "panicked" \in traces[g] => "panicked" \in traces'[g]
        /\ "expectedPanic" \in traces'[g] => "expectedPanic" \in traces[g]
        /\ "unsupported" \in traces'[g] => "unsupported" \in traces[g]
    BY <2>2
  <2> QED BY <2>1, <2>3 DEF LinesTrue, RecoveredFn, ExpectedPanics
<1> QED BY <1>1, <1>2 DEF TracesTrue, OutcomesTrue

(* A new invocation forgets the traces and the outcomes together.          *)
LEMMA InvokeReport ==
    ASSUME IInv, ReportInv, Invoke
    PROVE  ReportInv'
<1>1. PICK T \in Selections, c \in Config : Start(T, c) \/ BuildFails(T, c)
  BY DEF Invoke
<1>2. /\ traces' = Empty /\ report' = Empty /\ DOMAIN traces' = {} /\ DOMAIN report' = {}
      /\ outcome' = [t \in Compiled |-> "none"]
      /\ child' = child /\ pc # "wait"
  BY <1>1 DEF Start, BuildFails, Clean, Empty
<1>3. child'.phase # "printing"
  BY <1>2 DEF IInv, TypeOK
<1>4. TracesTrue' /\ OutcomesTrue'
  BY <1>2 DEF TracesTrue, OutcomesTrue
<1>5. ReportTrue'
  BY <1>2 DEF ReportTrue
<1> QED BY <1>3, <1>4, <1>5 DEF ReportInv, ChildPrintsTruth

(* The other steps of the script: a mark is put where there is a reason    *)
(* for it, and the report is drawn from the traces as they are.            *)
LEMMA ScriptReport ==
    ASSUME IInv, ReportInv, SkipTarget \/ Link \/ MarkTraces \/ Report
    PROVE  ReportInv'
<1>1. /\ child' = child /\ verdict' = verdict /\ outcome' = outcome
      /\ child.phase = "none"
  BY DEF SkipTarget, Link, MarkTraces, Report, IInv, TypeOK
<1>2. ChildPrintsTruth'
  BY <1>1 DEF ChildPrintsTruth
<1>3. CASE SkipTarget \/ Link
  <2>1. traces' = traces /\ pc' # "exited"
    BY <1>3 DEF SkipTarget, Link
  <2> QED BY <1>1, <1>2, <2>1, KeptTrue DEF ReportInv, ReportTrue
<1>4. CASE MarkTraces
  <2>1. DOMAIN traces' = DOMAIN traces /\ \A f \in DOMAIN traces : traces'[f] = Marked(f)
    BY <1>4 DEF MarkTraces
  <2>2. ASSUME NEW f \in DOMAIN traces PROVE LinesTrue(f)'
    <3>1. LinesTrue(f) /\ traces'[f] = Marked(f)
      BY <2>1 DEF ReportInv, TracesTrue
    <3>2. /\ \A l \in {"complete", "panicked"} : l \in traces'[f] <=> l \in traces[f]
          /\ "expectedPanic" \in traces'[f] =>
                \/ "expectedPanic" \in traces[f]
                \/ "panicked" \in traces[f] /\ RecoveredFn(f[1]) \in ExpectedPanics
          /\ "unsupported" \in traces'[f] =>
                "unsupported" \in traces[f] \/ f[1] \in Unsupported
      BY <3>1 DEF Marked
    <3> QED BY <1>1, <3>1, <3>2 DEF LinesTrue, RecoveredFn, ExpectedPanics
  <2>3. TracesTrue' /\ OutcomesTrue'
    BY <1>1, <2>1, <2>2 DEF TracesTrue, OutcomesTrue, ReportInv
  <2> QED BY <1>2, <1>4, <2>3 DEF MarkTraces, ReportInv, ReportTrue
<1>5. CASE Report
  <2>1. traces' = traces /\ \A f : Classify(f)' = Classify(f)
    BY <1>5 DEF Report, Classify
  <2>2. /\ report' = [f \in DOMAIN traces |-> Classify(f)]
        /\ exit' = 0 => \A f \in DOMAIN traces : Classify(f) # "FAILED"
    BY <1>5 DEF Report
  <2>3. ReportTrue'
    BY <2>1, <2>2 DEF ReportTrue
  <2> QED BY <1>1, <1>2, <2>1, <2>3, KeptTrue DEF ReportInv
<1> QED BY <1>3, <1>4, <1>5

(* The steps of genmc: the trace and the outcome of a test are reset       *)
(* together, and a timeout makes no false line.                            *)
LEMMA GenmcReport ==
    ASSUME IInv, ReportInv,
           Discover \/ GenmcDies \/ BeginTest \/ GenmcReturns \/ Reap \/ Deadline
    PROVE  ReportInv'
<1> USE DEF scriptVars
<1>0. TracesOK
  BY DEF IInv, TypeOK, TracesOK
<1>1. pc' # "exited" /\ verdict' = verdict
  BY DEF Discover, GenmcDies, BeginTest, GenmcReturns, Reap, Deadline
<1>2. ReportTrue'
  BY <1>1 DEF ReportTrue
<1>3. CASE Discover \/ GenmcDies \/ GenmcReturns
  <2>1. UNCHANGED <<verdict, traces, outcome, child>>
    BY <1>3 DEF Discover, GenmcDies, GenmcReturns
  <2> QED BY <1>2, <2>1, KeptTrue DEF ReportInv, ChildPrintsTruth
<1>4. CASE BeginTest
  <2>1. Head(todo) \in Compiled /\ child.phase = "none"
    BY <1>4 DEF BeginTest, IInv, TypeOK
  <2> DEFINE t == Head(todo)
  <2> HIDE DEF t
  <2>2. /\ DOMAIN traces' = DOMAIN traces \cup {t}
        /\ traces'[t] = {}
        /\ \A f \in DOMAIN traces : f # t => traces'[f] = traces[f]
    BY <1>4 DEF BeginTest, OpenTrace, t
  <2>3. outcome' = [outcome EXCEPT ![t] = "started"]
    BY <1>4 DEF BeginTest, t
  <2>4. outcome \in [Compiled -> {"none", "started", "ok", "bad"}] /\ t \in Compiled
    BY <2>1 DEF IInv, TypeOK, t
  <2>5. ASSUME NEW f \in DOMAIN traces' PROVE LinesTrue(f)'
    BY <1>0, <1>1, <2>2, <2>3, <2>4, <2>5
       DEF LinesTrue, ReportInv, TracesTrue, TracesOK, RecoveredFn, ExpectedPanics
  <2>6. OutcomesTrue'
    BY <1>1, <2>2, <2>3, <2>4 DEF ReportInv, OutcomesTrue
  <2>7. child' = child \/ child' = [NoChild EXCEPT !.phase = "verifying", !.test = Head(todo)]
    BY <1>4 DEF BeginTest
  <2>8. child'.phase # "printing"
    BY <2>1, <2>7 DEF NoChild
  <2> QED BY <1>2, <2>5, <2>6, <2>8 DEF ReportInv, TracesTrue, ChildPrintsTruth
<1>5. CASE Reap
  <2>1. UNCHANGED <<verdict, traces, outcome>> /\ child'.phase # "printing"
    BY <1>5 DEF Reap, NoChild
  <2> QED BY <1>2, <2>1, KeptTrue DEF ReportInv, ChildPrintsTruth
<1>6. CASE Deadline
  <2>1. child.test \in DOMAIN traces
    BY <1>6 DEF Deadline, IInv, ChildIsCurrent
  <2>2. /\ traces' = Append1(child.test, "TIMEOUT") /\ outcome' = outcome
        /\ child'.phase # "printing"
    BY <1>6 DEF Deadline, NoChild
  <2>3. TracesTrue' /\ OutcomesTrue'
    BY <1>0, <1>1, <2>1, <2>2, AppendTrue DEF Line, ReportInv
  <2> QED BY <1>2, <2>2, <2>3 DEF ReportInv, ChildPrintsTruth
<1> QED BY <1>3, <1>4, <1>5, <1>6

(* The steps of the child: it records its outcome before it prints it.     *)
LEMMA ChildReport ==
    ASSUME IInv, ReportInv, Child
    PROVE  ReportInv'
<1> USE DEF scriptVars, ChildUnchanged
<1>0. TracesOK
  BY DEF IInv, TypeOK, TracesOK
<1>1. child.phase # "none"
  BY DEF Child, ChildVerifies, ChildPrintsResult, ChildExits, ChildAborts, ChildCrashes
<1>2. /\ pc = "wait" /\ child.test \in DOMAIN traces /\ child.test \in Compiled
      /\ outcome \in [Compiled -> {"none", "started", "ok", "bad"}]
      /\ child \in [phase : {"none", "verifying", "printing", "exiting", "dead"},
                    test : Compiled \cup {None},
                    status : {"none", "zero", "nonzero", "signal"}]
  BY <1>0, <1>1 DEF IInv, TypeOK, ChildIsCurrent, TracesOK
<1>3. pc' # "exited" /\ verdict' = verdict
  BY <1>2 DEF Child, ChildVerifies, ChildPrintsResult, ChildExits, ChildAborts, ChildCrashes
<1>4. ReportTrue'
  BY <1>3 DEF ReportTrue
<1>5. CASE ChildVerifies
  <2> DEFINE t == child.test
  <2>1. child.phase = "verifying" /\ child' = [child EXCEPT !.phase = "printing"]
    BY <1>5 DEF ChildVerifies
  <2>2. child'.test = t
    BY <1>2, <2>1
  <2> HIDE DEF t
  <2>3. outcome' = [outcome EXCEPT ![t] = IF verdict[t[1]] = "ok" THEN "ok" ELSE "bad"]
    BY <1>5 DEF ChildVerifies, ChildVerdict, t
  <2>4. t \in DOMAIN traces /\ t \in Compiled
    BY <1>2 DEF t
  <2>5. /\ DOMAIN traces' = DOMAIN traces
        /\ \A f \in DOMAIN traces : f # t => traces'[f] = traces[f]
        /\ traces'[t] = traces[t] \/ (traces'[t] = traces[t] \cup {"panicked"} /\ verdict[t[1]] = "panic")
    BY <1>5, <2>4 DEF ChildVerifies, ChildVerdict, Append1, t
  <2>6. outcome[t] = "ok" => verdict[t[1]] = "ok"
    BY <2>4 DEF ReportInv, OutcomesTrue
  <2>7. ASSUME NEW f \in DOMAIN traces PROVE LinesTrue(f)'
    <3>1. LinesTrue(f) /\ f \in Compiled
      BY <1>0 DEF ReportInv, TracesTrue, TracesOK
    <3>2. CASE f = t
      BY <1>2, <1>3, <2>3, <2>4, <2>5, <2>6, <3>1, <3>2 DEF LinesTrue, RecoveredFn, ExpectedPanics
    <3>3. CASE f # t
      BY <1>2, <1>3, <2>3, <2>4, <2>5, <3>1, <3>3 DEF LinesTrue, RecoveredFn, ExpectedPanics
    <3> QED BY <3>2, <3>3
  <2>8. OutcomesTrue'
    BY <1>2, <1>3, <2>3, <2>4, <2>5 DEF ReportInv, OutcomesTrue
  <2>9. ChildPrintsTruth'
    BY <1>2, <1>3, <2>2, <2>3, <2>4 DEF ChildPrintsTruth
  <2> QED BY <1>4, <2>5, <2>7, <2>8, <2>9 DEF ReportInv, TracesTrue
<1>6. CASE ChildPrintsResult
  <2>1. PICK l \in {"complete", "unsuccessful"} :
           /\ traces' = Append1(child.test, l)
           /\ l = "complete" => verdict[child.test[1]] = "ok"
    BY <1>6 DEF ChildPrintsResult, ChildVerdict
  <2>2. child.phase = "printing" /\ outcome' = outcome
        /\ child' = [child EXCEPT !.phase = "exiting"]
    BY <1>6 DEF ChildPrintsResult
  <2>3. l = "complete" => outcome[child.test] = "ok"
    BY <2>1, <2>2 DEF ReportInv, ChildPrintsTruth
  <2>4. l \in Line \ {"expectedPanic", "unsupported"} /\ l # "panicked"
    BY <2>1 DEF Line
  <2>5. TracesTrue' /\ OutcomesTrue'
    BY <1>0, <1>2, <1>3, <2>1, <2>2, <2>3, <2>4, AppendTrue DEF ReportInv
  <2>6. child'.phase # "printing"
    BY <1>2, <2>2
  <2> QED BY <1>4, <2>5, <2>6 DEF ReportInv, ChildPrintsTruth
<1>7. CASE ChildAborts
  <2>1. /\ traces' = Append1(child.test, "ERROR") /\ outcome' = outcome
        /\ child' = [child EXCEPT !.phase = "dead", !.status = "nonzero"]
    BY <1>7 DEF ChildAborts
  <2>2. TracesTrue' /\ OutcomesTrue'
    BY <1>0, <1>2, <1>3, <2>1, AppendTrue DEF ReportInv, Line
  <2>3. child'.phase # "printing"
    BY <1>2, <2>1
  <2> QED BY <1>4, <2>2, <2>3 DEF ReportInv, ChildPrintsTruth
<1>8. CASE ChildExits \/ ChildCrashes
  <2>1. UNCHANGED <<traces, outcome>>
        /\ \E s : child' = [child EXCEPT !.phase = "dead", !.status = s]
    BY <1>8 DEF ChildExits, ChildCrashes
  <2>2. child'.phase # "printing"
    BY <1>2, <2>1
  <2> QED BY <1>3, <1>4, <2>1, <2>2, KeptTrue DEF ReportInv, ChildPrintsTruth
<1> QED BY <1>5, <1>6, <1>7, <1>8 DEF Child

(* Both invariants hold throughout.                                        *)
LEMMA ReportInvariant == Spec => [](IInv /\ ReportInv)
<1>1. IInv /\ ReportInv /\ [Next]_vars => IInv' /\ ReportInv'
  <2> SUFFICES ASSUME IInv, ReportInv, [Next]_vars PROVE ReportInv'
    BY StepIInv
  <2>1. CASE UNCHANGED vars
    <3>1. UNCHANGED <<verdict, pc, child, traces, outcome, report, exit>>
      BY <2>1 DEF vars, scriptVars
    <3> QED BY <3>1 DEF ReportInv, TracesTrue, LinesTrue, OutcomesTrue, ChildPrintsTruth,
                       ReportTrue, Classify, RecoveredFn, ExpectedPanics
  <2>2. CASE Next
    BY <2>2, InvokeReport, ScriptReport, GenmcReport, ChildReport DEF Next, Progress
  <2> QED BY <2>1, <2>2
<1> QED BY <1>1, InitIInv, InitReport, PTL DEF Spec

(* A test that the report calls ok was verified in this very invocation    *)
(* and no error was found: neither an earlier invocation's trace, nor a    *)
(* target verified twice, nor a late deadline makes a test pass (report of *)
(* cargo-rustmc, trace files of main()).                                   *)
THEOREM PassesAreVerified == Spec => []PassMeansVerified
<1>1. ReportInv => PassMeansVerified
  BY DEF ReportInv, ReportTrue, TracesTrue, LinesTrue, Classify, PassMeansVerified
<1> QED BY <1>1, ReportInvariant, PTL

(* A verification that ended in an error, an abort, a crash, a timeout or  *)
(* a failed fork makes the script exit with a non-zero status unless its   *)
(* test is excused (the report of cargo-rustmc).                           *)
THEOREM FailuresAreReported == Spec => []FailuresReported
<1>1. ReportInv => FailuresReported
  <2> SUFFICES ASSUME ReportInv, pc = "exited", exit = 0,
                      NEW t \in Compiled, outcome[t] \in {"started", "bad"}
               PROVE  Excused(t)
    BY DEF FailuresReported
  <2>1. t \in DOMAIN traces
    BY DEF ReportInv, OutcomesTrue
  <2>2. LinesTrue(t) /\ Classify(t) # "FAILED"
    BY <2>1 DEF ReportInv, TracesTrue, ReportTrue
  <2> QED BY <2>2 DEF LinesTrue, Classify, Excused
<1> QED BY <1>1, ReportInvariant, PTL

(* The summary's two categories are disjoint, since no test both ends well *)
(* and panics, and together are what the report lets pass                  *)
(* (summarize_results of cargo-rustmc).                                    *)
THEOREM SummaryIsRight == Spec => []SummaryAgrees
<1>1. IInv /\ ReportInv => SummaryAgrees
  <2> SUFFICES ASSUME IInv, ReportInv, pc = "exited" PROVE
         /\ SummarySuccess \cap SummaryExpected = {}
         /\ SummarySuccess \cup SummaryExpected =
               {f \in DOMAIN report : report[f] \in {"ok", "expected panic"}}
    BY DEF SummaryAgrees
  <2>1. DOMAIN report = DOMAIN traces /\ \A f \in DOMAIN traces : report[f] = Classify(f)
    BY DEF ReportInv, ReportTrue
  <2>2. ASSUME NEW f \in DOMAIN traces, "complete" \in traces[f], "expectedPanic" \in traces[f]
        PROVE  FALSE
    <3>1. f \in Compiled
      BY DEF IInv, TypeOK
    <3>2. LinesTrue(f)
      BY DEF ReportInv, TracesTrue
    <3>3. verdict[f[1]] = "ok" /\ verdict[f[1]] = "panic"
      BY <2>2, <3>1, <3>2 DEF LinesTrue, ReportInv, OutcomesTrue
    <3> QED BY <3>3
  <2>3. SummarySuccess \cap SummaryExpected = {}
    BY <2>2 DEF SummarySuccess, SummaryExpected
  <2>4. ASSUME NEW f \in DOMAIN traces
        PROVE  Classify(f) \in {"ok", "expected panic"} <=>
                  "complete" \in traces[f] \/ "expectedPanic" \in traces[f]
    BY DEF Classify
  <2> QED BY <2>1, <2>3, <2>4 DEF SummarySuccess, SummaryExpected
<1> QED BY <1>1, ReportInvariant, PTL
=============================================================================
