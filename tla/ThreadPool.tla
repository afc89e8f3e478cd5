----------------------------- MODULE ThreadPool -----------------------------
(***************************************************************************)
(* The thread pool of the parallel exploration: ThreadPool.{hpp,cpp}, the  *)
(* part of GenMCDriver that talks to it (explore, backwardRevisit,         *)
(* reportError, halt) and its user GenMCDriver::verify().                  *)
(*                                                                         *)
(* Every driver explores a part of the revisit tree: running an execution  *)
(* discovers the revisits that are its children.  A backward revisit may   *)
(* be handed to the pool, a forward revisit always stays with its driver.  *)
(* A step is what happens between two accesses to state other threads can  *)
(* see: the pool queue (under its own mutex), stateMtx_, the two atomics   *)
(* remainingTasks_ and shouldHalt_, and the condition variable stateCV_.   *)
(***************************************************************************)
EXTENDS Integers, Sequences, FiniteSets

CONSTANTS
    NumWorkers,     \* conf->threads
    OffloadFactor,  \* the 8 of backwardRevisit()
    Item, Root, Parent, Buggy, VE_OK, NoVerdict, \* see ParallelExploration
    Forward,        \* the items reached by a forward revisit
    NoItem          \* a worker has no item in its hands

ASSUME PoolAssumption ==
    /\ NumWorkers \in Nat \ {0}
    /\ OffloadFactor \in Nat
    /\ Root \in Item
    /\ Parent \in [Item \ {Root} -> Item]
    /\ Buggy \subseteq Item
    /\ VE_OK \notin Item
    /\ NoVerdict \notin Item \cup {VE_OK}
    /\ NoItem \notin Item
    /\ Forward \subseteq Item

(* The items are the executions that the exploration can reach: a set of   *)
(* them that has the root and the children of its members has them all.    *)
ASSUME TreeAssumption ==
    \A S \in SUBSET Item :
        /\ Root \in S
        /\ \A i \in Item \ {Root} : Parent[i] \in S => i \in S
        => S = Item

Worker == 1..NumWorkers

Unlocked == 0   \* stateMtx_ is free

Children(i) == {j \in Item \ {Root} : Parent[j] = i}

VARIABLES
    queue,        \* queue_: popped at the end it is pushed to
    remaining,    \* remainingTasks_
    poolHalt,     \* shouldHalt_
    mtx,          \* the worker inside a critical section of submit()
    spawned,      \* workers_.size()
    mainPc,       \* where the thread that runs verify() is
    pc,           \* where each worker is
    item,         \* the revisit a worker runs, hands over or is about to run
    local,        \* a worker's own work queue and execution stack
    drvHalt,      \* GenMCDriver::shouldHalt of each worker's driver
    status,       \* result.status of each driver
    explored,     \* result.explored of each driver
    executed,     \* history: the items some driver has run
    collected,    \* how many results verify() has added up
    result        \* the sum of these results

poolVars == <<queue, remaining, poolHalt, mtx>>
driverVars == <<item, local, drvHalt, status, explored, executed>>
mainVars == <<spawned, mainPc, collected, result>>
vars == <<poolVars, driverVars, mainVars, pc>>

MainPc == {"submit", "spawn", "wait", "destroy", "join", "collect", "end"}

WorkerPc == {"unborn", "tryPop", "lock", "waiting", "woken",
             "explore", "running", "reporting", "halting", "revisit",
             "submit", "push", "notify", "finish", "done"}

(* The program points at which a worker works on a task it has popped. *)
TaskPc == {"explore", "running", "reporting", "halting", "revisit",
           "submit", "push", "notify", "finish"}

Active == {w \in Worker : pc[w] \in TaskPc}

(* submit() has counted the task and not pushed it yet. *)
Pushing == {w \in Worker : pc[w] = "push"}

Waiting == {w \in Worker : pc[w] = "waiting"}

(* Every variable has its type.  In particular remainingTasks_, which any  *)
(* worker may decrement, stays non-negative, and the pool never has more   *)
(* workers than the constructor asks for.                                  *)
TypeOK ==
    /\ queue \in Seq(Item)
    /\ remaining \in Nat
    /\ poolHalt \in BOOLEAN
    /\ mtx \in Worker \cup {Unlocked}
    /\ spawned \in 0..NumWorkers
    /\ mainPc \in MainPc
    /\ pc \in [Worker -> WorkerPc]
    /\ item \in [Worker -> Item \cup {NoItem}]
    /\ local \in [Worker -> SUBSET Item]
    /\ drvHalt \in [Worker -> BOOLEAN]
    /\ status \in [Worker -> Item \cup {VE_OK}]
    /\ explored \in [Worker -> Nat]
    /\ executed \in SUBSET Item
    /\ collected \in 0..NumWorkers
    /\ result \in [status : Item \cup {VE_OK}, explored : Nat]

Init ==
    /\ queue = <<>> /\ remaining = 0 /\ poolHalt = FALSE /\ mtx = Unlocked
    /\ spawned = 0 /\ mainPc = "submit"
    /\ pc = [w \in Worker |-> "unborn"]
    /\ item = [w \in Worker |-> NoItem]
    /\ local = [w \in Worker |-> {}]
    /\ drvHalt = [w \in Worker |-> FALSE]
    /\ status = [w \in Worker |-> VE_OK]
    /\ explored = [w \in Worker |-> 0]
    /\ executed = {}
    /\ collected = 0
    /\ result = [status |-> VE_OK, explored |-> 0]

Goto(w, from, to) == pc[w] = from /\ pc' = [pc EXCEPT ![w] = to]

(* GenMCDriver::isHalting() *)
IsHalting(w) == drvHalt[w] \/ poolHalt

(* Seeded faults: each is a plausible slip in the definition it stands for *)
(* and is used only to see that a property notices it.                     *)
FaultQuitOrWait(w) ==                               \* an empty queue means done
    /\ mtx = Unlocked
    /\ Goto(w, "lock", "done")
    /\ UNCHANGED <<poolVars, driverVars, mainVars>>

FaultPopNothing(w) ==                               \* gives up on a queue in use
    /\ Goto(w, "tryPop", "lock")
    /\ UNCHANGED <<poolVars, driverVars, mainVars>>

FaultNoMoreItems(w) ==                              \* returns with items left
    /\ Goto(w, "revisit", "finish")
    /\ UNCHANGED <<poolVars, driverVars, mainVars>>

FaultSubmitCount(w) ==                              \* no incRemainingTasks()
    /\ mtx = Unlocked
    /\ Goto(w, "submit", "push")
    /\ mtx' = w
    /\ UNCHANGED <<queue, remaining, poolHalt, driverVars, mainVars>>

FaultAddWorker ==                                   \* one worker too many
    /\ mainPc = "spawn"
    /\ spawned' = spawned + 1
    /\ pc' = [pc EXCEPT ![spawned + 1] = "tryPop"]
    /\ UNCHANGED <<poolVars, driverVars, mainPc, collected, result>>

FaultPlus(res, st, n) ==                            \* the last result overwrites
    [status |-> st, explored |-> n]

-----------------------------------------------------------------------------
(* notify_all: every thread blocked in stateCV_.wait() leaves it. *)
NotifyAll(p) == [w \in Worker |-> IF p[w] = "waiting" THEN "woken" ELSE p[w]]

-----------------------------------------------------------------------------
(* popTask() and the worker's loop around it. *)

(* tryPopPoolQueue() finds a task, and initFromState() installs it. *)
PopTask(w) ==
    /\ queue # <<>>
    /\ Goto(w, "tryPop", "explore")
    /\ queue' = SubSeq(queue, 1, Len(queue) - 1)
    /\ item' = [item EXCEPT ![w] = queue[Len(queue)]]
    /\ local' = [local EXCEPT ![w] = {}]
    /\ UNCHANGED <<remaining, poolHalt, mtx, drvHalt, status, explored,
                   executed, mainVars>>

(* The queue is empty (and there is no other queue to steal from). *)
PopNothing(w) ==
    /\ queue = <<>>
    /\ Goto(w, "tryPop", "lock")
    /\ UNCHANGED <<poolVars, driverVars, mainVars>>

(* stateMtx_ is taken: the worker leaves the loop or waits on stateCV_. *)
QuitOrWait(w) ==
    /\ mtx = Unlocked
    /\ Goto(w, "lock", IF poolHalt \/ remaining = 0 THEN "done" ELSE "waiting")
    /\ UNCHANGED <<poolVars, driverVars, mainVars>>

(* std::condition_variable::wait() may return without a notification. *)
SpuriousWakeup(w) ==
    /\ Goto(w, "waiting", "woken")
    /\ UNCHANGED <<poolVars, driverVars, mainVars>>

(* wait() reacquires stateMtx_, which the end of the loop body releases. *)
LeaveWait(w) ==
    /\ mtx = Unlocked
    /\ Goto(w, "woken", "tryPop")
    /\ UNCHANGED <<poolVars, driverVars, mainVars>>

(* run() has returned: the task is accounted for, the last one ends all. *)
FinishTask(w) ==
    /\ pc[w] = "finish"
    /\ mtx = Unlocked
    /\ remaining' = remaining - 1
    /\ pc' = IF remaining' = 0 THEN [NotifyAll(pc) EXCEPT ![w] = "done"]
                               ELSE [pc EXCEPT ![w] = "tryPop"]
    /\ UNCHANGED <<queue, poolHalt, mtx, driverVars, mainVars>>

-----------------------------------------------------------------------------
(* GenMCDriver::explore() on one task. *)

(* The loop's test: a halting driver abandons what it has left to do. *)
ExploreTest(w) ==
    /\ Goto(w, "explore", IF IsHalting(w) THEN "finish" ELSE "running")
    /\ UNCHANGED <<poolVars, driverVars, mainVars>>

(* The program runs once.  Its revisits are added to the work queue, only  *)
(* some of them when an error or another driver's halt cuts the run short. *)
(* An error is reported unless some driver is halting already.             *)
Run(w) ==
    /\ Goto(w, "running",
            IF item[w] \in Buggy /\ ~IsHalting(w) THEN "reporting" ELSE "revisit")
    /\ executed' = executed \cup {item[w]}
    /\ \E found \in SUBSET Children(item[w]) :
         /\ item[w] \in Buggy \/ IsHalting(w) \/ found = Children(item[w])
         /\ local' = [local EXCEPT ![w] = @ \cup found]
    /\ explored' = [explored EXCEPT ![w] = @ + 1]
    /\ UNCHANGED <<poolVars, item, drvHalt, status, mainVars>>

(* halt(): first the driver's own fields ... *)
HaltDriver(w) ==
    /\ Goto(w, "reporting", "halting")
    /\ drvHalt' = [drvHalt EXCEPT ![w] = TRUE]
    /\ status' = [status EXCEPT ![w] = item[w]]
    /\ UNCHANGED <<poolVars, item, local, explored, executed, mainVars>>

(* ... then ThreadPool::halt(), a critical section of stateMtx_. *)
HaltPool(w) ==
    /\ pc[w] = "halting"
    /\ mtx = Unlocked
    /\ poolHalt' = TRUE
    /\ pc' = [NotifyAll(pc) EXCEPT ![w] = "revisit"]
    /\ UNCHANGED <<queue, remaining, mtx, driverVars, mainVars>>

(* size() races with the constructor's emplace_back() into workers_, so    *)
(* that the comparison may come out either way until all are added.        *)
PoolHasRoom ==
    IF mainPc = "spawn" THEN BOOLEAN
                        ELSE {remaining < OffloadFactor * NumWorkers}

(* getNextItem() and restrictAndRevisit(): the next item is explored by    *)
(* this driver, or is a backward revisit the pool has room for.            *)
NextItem(w) ==
    /\ \E i \in local[w] :
         /\ item' = [item EXCEPT ![w] = i]
         /\ local' = [local EXCEPT ![w] = @ \ {i}]
         /\ \/ i \in Forward /\ Goto(w, "revisit", "explore")
            \/ /\ i \notin Forward
               /\ \E room \in PoolHasRoom :
                    Goto(w, "revisit", IF room THEN "submit" ELSE "explore")
    /\ UNCHANGED <<poolVars, drvHalt, status, explored, executed, mainVars>>

(* Nothing is left to revisit: explore() returns. *)
NoMoreItems(w) ==
    /\ local[w] = {}
    /\ Goto(w, "revisit", "finish")
    /\ UNCHANGED <<poolVars, driverVars, mainVars>>

-----------------------------------------------------------------------------
(* ThreadPool::submit() called by a worker, one step per shared access.    *)
(* The queue is also read by tryPop(), which does not hold stateMtx_.      *)

SubmitCount(w) ==
    /\ mtx = Unlocked
    /\ Goto(w, "submit", "push")
    /\ mtx' = w
    /\ remaining' = remaining + 1
    /\ UNCHANGED <<queue, poolHalt, driverVars, mainVars>>

SubmitPush(w) ==
    /\ Goto(w, "push", "notify")
    /\ queue' = Append(queue, item[w])
    /\ item' = [item EXCEPT ![w] = NoItem]
    /\ UNCHANGED <<remaining, poolHalt, mtx, local, drvHalt, status, explored,
                   executed, mainVars>>

(* notify_one wakes a waiting thread, if there is one. *)
SubmitNotify(w) ==
    /\ pc[w] = "notify"
    /\ mtx' = Unlocked
    /\ \/ /\ Waiting = {}
          /\ pc' = [pc EXCEPT ![w] = "revisit"]
       \/ \E v \in Waiting : pc' = [pc EXCEPT ![w] = "revisit", ![v] = "woken"]
    /\ UNCHANGED <<queue, remaining, poolHalt, driverVars, mainVars>>

-----------------------------------------------------------------------------
(* The thread that runs verify(): the pool's constructor, waitForTasks(),  *)
(* the pool's destructor and the sum of the results.                       *)

(* The first task is submitted before there is any worker. *)
MainSubmit ==
    /\ mainPc = "submit"
    /\ mainPc' = "spawn"
    /\ queue' = Append(queue, Root)
    /\ remaining' = remaining + 1
    /\ UNCHANGED <<poolHalt, mtx, driverVars, spawned, collected, result, pc>>

AddWorker ==
    /\ mainPc = "spawn"
    /\ spawned < NumWorkers
    /\ spawned' = spawned + 1
    /\ pc' = [pc EXCEPT ![spawned + 1] = "tryPop"]
    /\ UNCHANGED <<poolVars, driverVars, mainPc, collected, result>>

PoolBuilt ==
    /\ mainPc = "spawn"
    /\ spawned = NumWorkers
    /\ mainPc' = "wait"
    /\ UNCHANGED <<poolVars, driverVars, spawned, collected, result, pc>>

WaitForTasks ==
    /\ mainPc = "wait"
    /\ poolHalt \/ remaining = 0
    /\ mainPc' = "destroy"
    /\ UNCHANGED <<poolVars, driverVars, spawned, collected, result, pc>>

(* ~ThreadPool(): halt() ... *)
DestroyPool ==
    /\ mainPc = "destroy"
    /\ mtx = Unlocked
    /\ poolHalt' = TRUE
    /\ pc' = NotifyAll(pc)
    /\ mainPc' = "join"
    /\ UNCHANGED <<queue, remaining, mtx, driverVars, spawned, collected, result>>

(* ... and ~ThreadJoiner(). *)
JoinWorkers ==
    /\ mainPc = "join"
    /\ \A w \in Worker : pc[w] = "done"
    /\ mainPc' = "collect"
    /\ UNCHANGED <<poolVars, driverVars, spawned, collected, result, pc>>

(* Result::operator+=: the latest error is the one that is kept. *)
Plus(res, st, n) ==
    [status |-> IF st # VE_OK THEN st ELSE res.status,
     explored |-> res.explored + n]

(* verify() adds up the results of the drivers, in the order of workers. *)
CollectResult ==
    /\ mainPc = "collect"
    /\ collected' = collected + 1
    /\ result' = Plus(result, status[collected'], explored[collected'])
    /\ mainPc' = IF collected' = NumWorkers THEN "end" ELSE "collect"
    /\ UNCHANGED <<poolVars, driverVars, spawned, pc>>

-----------------------------------------------------------------------------
WorkerStep(w) ==
    \/ PopTask(w) \/ PopNothing(w) \/ QuitOrWait(w) \/ LeaveWait(w)
    \/ FinishTask(w) \/ ExploreTest(w) \/ Run(w) \/ HaltDriver(w)
    \/ HaltPool(w) \/ NextItem(w) \/ NoMoreItems(w)
    \/ SubmitCount(w) \/ SubmitPush(w) \/ SubmitNotify(w)

MainStep ==
    \/ MainSubmit \/ AddWorker \/ PoolBuilt
    \/ WaitForTasks \/ DestroyPool \/ JoinWorkers \/ CollectResult

Terminated == mainPc = "end" /\ UNCHANGED vars

Next ==
    \/ MainStep
    \/ \E w \in Worker : WorkerStep(w) \/ SpuriousWakeup(w)
    \/ Terminated

(* The operating system keeps running every thread that can run. *)
Fairness == WF_vars(MainStep) /\ \A w \in Worker : WF_vars(WorkerStep(w))

Spec == Init /\ [][Next]_vars

FairSpec == Spec /\ Fairness

-----------------------------------------------------------------------------
(* Properties. *)

(* remainingTasks_ counts the queued tasks, the tasks the workers are busy *)
(* with and the one submit() has announced but not pushed yet: it cannot   *)
(* reach 0, which ends the whole pool, while any of them is left.          *)
RemainingAccurate ==
    remaining = Len(queue) + Cardinality(Active)
                + Cardinality(Pushing)

(* The items worker w holds: its own work list and the item in its hands. *)
Held(w) == local[w] \cup
           (IF pc[w] \in {"explore", "running", "submit", "push"}
            THEN {item[w]} ELSE {})

Queued == {queue[k] : k \in DOMAIN queue}

(* No driver has found an error. *)
Clean == \A w \in Worker : status[w] = VE_OK /\ pc[w] # "reporting"

(* What verify() has returned. *)
Verdict == IF mainPc = "end" THEN result.status ELSE NoVerdict

Exploration == INSTANCE ParallelExploration WITH verdict <- Verdict

(* Until an error is found, every execution that was discovered and not    *)
(* explored is in the pool's queue or with a worker: handing work over     *)
(* (submit, popTask, initFromState) loses none of it.                      *)
NothingLost ==
    Clean /\ mainPc # "submit" =>
        Exploration!Frontier = Queued \cup UNION {Held(w) : w \in Worker}

(* No execution is in two places, or both explored and still to be         *)
(* explored: popTask hands a task to one worker only.                      *)
NothingTwice ==
    /\ \A j, k \in DOMAIN queue : queue[j] = queue[k] => j = k
    /\ \A w \in Worker : Held(w) \cap (Queued \cup executed) = {}
    /\ \A v, w \in Worker : v # w => Held(v) \cap Held(w) = {}
    /\ Queued \cap executed = {}

(* A worker leaves its loop only when the pool halts or all work is done:  *)
(* popTask returning nullptr never costs the pool a worker it still needs. *)
NoEarlyExit ==
    (\E w \in Worker : pc[w] = "done") /\ ~poolHalt =>
        queue = <<>> /\ Active = {} /\ remaining = 0

(* verify() returns the number of executions there are, however the work   *)
(* was spread over the drivers.                                            *)
TotalExact == Verdict = VE_OK => result.explored = Cardinality(Item)

(* The pool does what ParallelExploration promises.  In particular it      *)
(* reports success only after the whole revisit tree was explored without  *)
(* an error, also when drivers find errors at the same time, and an error  *)
(* it reports is one some driver found.                                    *)
ImplementsExploration == Exploration!Spec

(* verify() returns: no worker sleeps in stateCV_.wait() for ever, and the *)
(* destructor's join does not hang, whatever the order of the last         *)
(* notifications, halts and waits.                                         *)
Terminates == <>(mainPc = "end")

(* A submitted task is picked up, even when its notify_one found nobody    *)
(* waiting because the idle workers were between tryPop and stateMtx_.     *)
QueuedTaskTaken ==
    \A i \in Item : i \in Queued ~> (i \notin Queued \/ poolHalt)

(* Every discovered item is run by one worker and by one only, however     *)
(* popTask, submit and the drivers' own queues pass it on.                 *)
RunExactlyOnce == NothingTwice /\ NothingLost

(* The pool makes progress: a queued task is taken, verify() returns.      *)
Progress == Terminates /\ QueuedTaskTaken
=============================================================================
