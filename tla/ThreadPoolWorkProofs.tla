------------------------ MODULE ThreadPoolWorkProofs ------------------------
(***************************************************************************)
(* What happens to the work the pool distributes: no execution is lost or  *)
(* run twice, the results add up, and the pool implements                  *)
(* ParallelExploration, for any number of workers and any revisit tree.    *)
(***************************************************************************)
EXTENDS ThreadPoolProofs

(* Whatever is queued, held or explored has been discovered by the run of  *)
(* the execution it is a revisit of.                                       *)
Discovered(i) == i = Root \/ Parent[i] \in executed

AllDiscovered ==
    /\ \A i \in Queued : Discovered(i)
    /\ \A w \in Worker : \A i \in Held(w) : Discovered(i)
    /\ \A i \in executed : Discovered(i)

(* NothingLost, one item at a time.                                        *)
NoneMissing ==
    Clean /\ mainPc # "submit" =>
        \A i \in Item :
            i \notin executed /\ Discovered(i)
            <=> i \in Queued \/ \E w \in Worker : i \in Held(w)

(* The constructor submits the root when nothing has happened yet.         *)
FreshStart ==
    mainPc = "submit" => /\ queue = <<>> /\ executed = {} /\ ~poolHalt
                         /\ \A w \in Worker : local[w] = {}

(* Where a worker has run, is reporting or has reported an error.          *)
ErrorsReal ==
    /\ \A w \in Worker : pc[w] = "reporting" => item[w] \in executed \cap Buggy
    /\ \A w \in Worker : status[w] # VE_OK => status[w] \in executed \cap Buggy
    /\ \A w \in Worker : drvHalt[w] \/ pc[w] = "halting" => status[w] # VE_OK

(* An erroneous execution never goes by unnoticed, and unless there is an  *)
(* error the pool is halted only when nothing is left to do.               *)
ErrorsSeen ==
    Clean => /\ executed \cap Buggy = {}
             /\ poolHalt \/ mainPc \notin {"submit", "spawn", "wait"} => remaining = 0
             /\ \A w \in Worker : pc[w] \notin TaskPc \ {"finish"} => local[w] = {}

(* What verify() has added up so far.                                      *)
ResultSoFar ==
    /\ mainPc \in {"collect", "end"} => \A w \in Worker : pc[w] = "done"
    /\ mainPc = "end" => collected = NumWorkers
    /\ result.status # VE_OK => result.status \in executed \cap Buggy
    /\ result.status = VE_OK => \A w \in Worker : w <= collected => status[w] = VE_OK

(* The program points at which Held counts the item in the hands.          *)
HoldPc == {"explore", "running", "submit", "push"}

HandApart == \A w \in Worker : pc[w] \in HoldPc => item[w] \notin local[w]

(* The inductive invariant, beside Accounting.                             *)
WorkInv ==
    /\ NothingTwice /\ HandApart /\ AllDiscovered /\ FreshStart
    /\ ErrorsReal /\ ErrorsSeen /\ ResultSoFar /\ NoneMissing

(* Every execution is credited to the worker that ran it.                  *)
Credited ==
    /\ IsFiniteSet(executed)
    /\ \E owner \in [executed -> Worker] :
         /\ \A w \in Worker : explored[w] = Cardinality({i \in executed : owner[i] = w})
         /\ result.explored = Cardinality({i \in executed : owner[i] <= collected})

-----------------------------------------------------------------------------
(* The ways in which a step moves work.                                    *)

Others(w) == \A v \in Worker \ {w} : Held(v)' = Held(v)

Keep == UNCHANGED <<queue, executed>> /\ \A v \in Worker : Held(v)' = Held(v)

Drop(w) ==
    /\ UNCHANGED <<queue, executed>>
    /\ Held(w)' \subseteq Held(w) /\ Others(w)
    /\ ~Clean

Take(w) ==
    /\ queue # <<>> /\ queue' = SubSeq(queue, 1, Len(queue) - 1)
    /\ Held(w)' = {queue[Len(queue)]} /\ Others(w)
    /\ UNCHANGED executed
    /\ Clean => Held(w) = {}

Give(w) ==
    /\ item[w] \in Held(w)
    /\ queue' = Append(queue, item[w])
    /\ Held(w)' = Held(w) \ {item[w]} /\ Others(w)
    /\ UNCHANGED executed

Explore(w, found) ==
    /\ item[w] \in Held(w) /\ item[w] \in Item
    /\ found \subseteq Children(item[w])
    /\ executed' = executed \cup {item[w]}
    /\ Held(w)' = (Held(w) \ {item[w]}) \cup found /\ Others(w)
    /\ UNCHANGED queue
    /\ Clean' => found = Children(item[w])

(* What a worker holds, spelled out.                                       *)
LEMMA HeldIs ==
    ASSUME NEW w \in Worker
    PROVE  /\ pc[w] \in HoldPc => Held(w) = local[w] \cup {item[w]}
           /\ pc[w] \notin HoldPc => Held(w) = local[w]
           /\ pc'[w] \in HoldPc => Held(w)' = local'[w] \cup {item'[w]}
           /\ pc'[w] \notin HoldPc => Held(w)' = local'[w]
  BY DEF Held, HoldPc

(* Errors are never forgotten.                                             *)
LEMMA CleanBefore ==
    ASSUME Accounting, Next, Clean'
    PROVE  Clean
<1> USE DEF Goto, Clean
<1>1. pc \in [Worker -> WorkerPc] /\ status \in [Worker -> Item \cup {VE_OK}]
  BY DEF Accounting, Control, TypeOK
<1>2. ASSUME NEW w \in Worker, HaltDriver(w) PROVE FALSE
  <2>1. item[w] \in Item /\ item[w] # VE_OK
    BY <1>2, PoolAssumption DEF HaltDriver, Accounting, Control, ItemInHand, HandPc
  <2> QED
    BY <1>1, <1>2, <2>1 DEF HaltDriver
<1>3. ASSUME NEW w \in Worker, WorkerStep(w) \/ SpuriousWakeup(w), ~HaltDriver(w)
      PROVE  /\ status' = status
             /\ \A v \in Worker : pc[v] = "reporting" => pc'[v] = "reporting"
  <2>1. CASE PopTask(w) \/ PopNothing(w) \/ QuitOrWait(w) \/ LeaveWait(w) \/ SpuriousWakeup(w)
    BY <1>1, <2>1 DEF PopTask, PopNothing, QuitOrWait, LeaveWait, SpuriousWakeup, driverVars
  <2>2. CASE FinishTask(w) \/ HaltPool(w)
    BY <1>1, <2>2, NotifyAllPc DEF FinishTask, HaltPool, driverVars
  <2>3. CASE ExploreTest(w) \/ Run(w) \/ NextItem(w) \/ NoMoreItems(w)
    BY <1>1, <2>3 DEF ExploreTest, Run, NextItem, NoMoreItems, driverVars
  <2>4. CASE SubmitCount(w) \/ SubmitPush(w)
    BY <1>1, <2>4 DEF SubmitCount, SubmitPush, driverVars
  <2>5. CASE SubmitNotify(w)
    BY <1>1, <2>5 DEF SubmitNotify, Waiting, driverVars
  <2> QED
    BY <1>3, <2>1, <2>2, <2>3, <2>4, <2>5 DEF WorkerStep
<1>4. ASSUME MainStep \/ Terminated
      PROVE  /\ status' = status
             /\ \A v \in Worker : pc[v] = "reporting" => pc'[v] = "reporting"
  <2>1. CASE AddWorker
    <3>1. spawned + 1 \in Worker /\ pc[spawned + 1] = "unborn"
      BY <2>1, PoolAssumption DEF AddWorker, Accounting, Control, TypeOK, MainOK, Worker
    <3> QED
      BY <1>1, <2>1, <3>1 DEF AddWorker, driverVars
  <2>2. CASE DestroyPool
    BY <1>1, <2>2, NotifyAllPc DEF DestroyPool, driverVars
  <2>3. CASE MainSubmit \/ PoolBuilt \/ WaitForTasks \/ JoinWorkers \/ CollectResult \/ Terminated
    BY <2>3 DEF MainSubmit, PoolBuilt, WaitForTasks, JoinWorkers, CollectResult,
                Terminated, driverVars, vars
  <2> QED
    BY <1>4, <2>1, <2>2, <2>3 DEF MainStep
<1> QED
  BY <1>2, <1>3, <1>4 DEF Next

(* Without an error a worker that is busy is not halting.                  *)
LEMMA BusyNotHalting ==
    ASSUME Accounting, ErrorsReal, ErrorsSeen, Clean, NEW w \in Worker, pc[w] \in TaskPc
    PROVE  ~IsHalting(w)
<1>1. w \in Active /\ queue \in Seq(Item) /\ remaining \in Nat
  BY DEF Active, Accounting, Control, TypeOK
<1>2. remaining # 0
  BY <1>1, BusyMeansRemaining
<1>3. ~poolHalt
  BY <1>2 DEF ErrorsSeen
<1>4. ~drvHalt[w]
  BY DEF ErrorsReal, Clean
<1> QED
  BY <1>3, <1>4 DEF IsHalting

(* A step that moves no item and takes no worker into or out of the points *)
(* at which it has one in its hands moves no work.                         *)
LEMMA KeepIf ==
    ASSUME UNCHANGED <<queue, executed, item, local>>,
           \A v \in Worker : pc'[v] \in HoldPc <=> pc[v] \in HoldPc
    PROVE  Keep
  BY DEF Keep, Held, HoldPc

(* Every step moves work in one of these ways.                             *)
LEMMA StepMovesWork ==
    ASSUME Accounting, WorkInv, Next
    PROVE  \/ Keep
           \/ MainSubmit
           \/ \E w \in Worker : \/ Drop(w) \/ Take(w) \/ Give(w)
                                \/ \E found : Explore(w, found)
<1> USE DEF Goto, driverVars
<1>p. /\ pc \in [Worker -> WorkerPc] /\ item \in [Worker -> Item \cup {NoItem}]
      /\ local \in [Worker -> SUBSET Item]
  BY DEF Accounting, Control, TypeOK
<1>1. ASSUME NEW w \in Worker,
             \/ PopNothing(w) \/ QuitOrWait(w) \/ LeaveWait(w) \/ SpuriousWakeup(w)
             \/ HaltDriver(w) \/ NoMoreItems(w) \/ SubmitCount(w)
      PROVE  Keep
  <2>1. /\ UNCHANGED <<queue, executed, item, local>>
        /\ \A v \in Worker : pc'[v] \in HoldPc <=> pc[v] \in HoldPc
    BY <1>p, <1>1
       DEF PopNothing, QuitOrWait, LeaveWait, SpuriousWakeup, HaltDriver, NoMoreItems,
           SubmitCount, poolVars, HoldPc
  <2> QED
    BY <2>1, KeepIf
<1>2. ASSUME NEW w \in Worker, FinishTask(w) \/ HaltPool(w) \/ SubmitNotify(w)
      PROVE  Keep
  <2>1. UNCHANGED <<queue, executed, item, local>>
    BY <1>2 DEF FinishTask, HaltPool, SubmitNotify
  <2>2. ASSUME NEW v \in Worker PROVE pc'[v] \in HoldPc <=> pc[v] \in HoldPc
    <3>1. CASE FinishTask(w) \/ HaltPool(w)
      BY <1>p, <3>1, NotifyAllPc DEF FinishTask, HaltPool, HoldPc
    <3>2. CASE SubmitNotify(w)
      BY <1>p, <3>2 DEF SubmitNotify, Waiting, HoldPc
    <3> QED
      BY <1>2, <3>1, <3>2
  <2> QED
    BY <2>1, <2>2, KeepIf
<1>3. ASSUME MainStep \/ Terminated, ~MainSubmit PROVE Keep
  <2>1. UNCHANGED <<queue, executed, item, local>>
    BY <1>3 DEF MainStep, AddWorker, PoolBuilt, WaitForTasks, DestroyPool, JoinWorkers,
                CollectResult, Terminated, poolVars, vars
  <2>2. ASSUME NEW v \in Worker PROVE pc'[v] \in HoldPc <=> pc[v] \in HoldPc
    <3>1. CASE AddWorker
      <4>1. spawned + 1 \in Worker /\ pc[spawned + 1] = "unborn"
        BY <3>1, PoolAssumption DEF AddWorker, Accounting, Control, TypeOK, MainOK, Worker
      <4> QED
        BY <1>p, <3>1, <4>1 DEF AddWorker, HoldPc
    <3>2. CASE DestroyPool
      BY <1>p, <3>2, NotifyAllPc DEF DestroyPool, HoldPc
    <3>3. CASE PoolBuilt \/ WaitForTasks \/ JoinWorkers \/ CollectResult \/ Terminated
      BY <3>3 DEF PoolBuilt, WaitForTasks, JoinWorkers, CollectResult, Terminated, vars
    <3> QED
      BY <1>3, <3>1, <3>2, <3>3 DEF MainStep
  <2> QED
    BY <2>1, <2>2, KeepIf
<1>4. ASSUME NEW w \in Worker, ExploreTest(w) PROVE Keep \/ Drop(w)
  <2>1. UNCHANGED <<queue, executed, item, local>> /\ pc[w] = "explore"
    BY <1>4 DEF ExploreTest, poolVars
  <2>2. \A v \in Worker \ {w} : pc'[v] = pc[v]
    BY <1>p, <1>4 DEF ExploreTest
  <2>3. CASE IsHalting(w)
    <3>1. ~Clean
      BY <2>1, <2>3, BusyNotHalting DEF WorkInv, TaskPc
    <3>2. Others(w) /\ Held(w)' \subseteq Held(w)
      BY <2>1, <2>2 DEF Others, Held
    <3> QED
      BY <2>1, <3>1, <3>2 DEF Drop
  <2>4. CASE ~IsHalting(w)
    <3>1. pc'[w] = "running"
      BY <1>p, <1>4, <2>4 DEF ExploreTest
    <3> QED
      BY <2>1, <2>2, <3>1, KeepIf DEF HoldPc
  <2> QED
    BY <2>3, <2>4
<1>5. ASSUME NEW w \in Worker, NextItem(w) PROVE Keep
  <2>1. PICK i \in local[w] : /\ item' = [item EXCEPT ![w] = i]
                              /\ local' = [local EXCEPT ![w] = @ \ {i}]
    BY <1>5 DEF NextItem
  <2>2. pc[w] = "revisit" /\ pc'[w] \in {"explore", "submit"}
    BY <1>p, <1>5 DEF NextItem
  <2>3. \A v \in Worker \ {w} : pc'[v] = pc[v] /\ item'[v] = item[v] /\ local'[v] = local[v]
    BY <1>p, <1>5, <2>1 DEF NextItem
  <2>4. Held(w) = local[w] /\ Held(w)' = local'[w] \cup {item'[w]}
    BY <2>2, HeldIs DEF HoldPc
  <2>5. local'[w] = local[w] \ {i} /\ item'[w] = i
    BY <1>p, <2>1
  <2>6. \A v \in Worker \ {w} : Held(v)' = Held(v)
    BY <2>3 DEF Held
  <2>7. UNCHANGED <<queue, executed>>
    BY <1>5 DEF NextItem, poolVars
  <2> QED
    BY <2>4, <2>5, <2>6, <2>7 DEF Keep
<1>6. ASSUME NEW w \in Worker, PopTask(w) PROVE Take(w)
  <2>1. pc[w] = "tryPop" /\ pc'[w] = "explore" /\ local'[w] = {} /\ item'[w] = queue[Len(queue)]
    BY <1>p, <1>6 DEF PopTask
  <2>2. \A v \in Worker \ {w} : pc'[v] = pc[v] /\ item'[v] = item[v] /\ local'[v] = local[v]
    BY <1>p, <1>6 DEF PopTask
  <2>3. Others(w)
    BY <2>2 DEF Others, Held
  <2>4. Held(w)' = {queue[Len(queue)]}
    BY <2>1, HeldIs DEF HoldPc
  <2>5. Clean => Held(w) = {}
    BY <2>1, HeldIs DEF HoldPc, WorkInv, ErrorsSeen, TaskPc
  <2> QED
    BY <1>6, <2>3, <2>4, <2>5 DEF PopTask, Take
<1>7. ASSUME NEW w \in Worker, SubmitPush(w) PROVE Give(w)
  <2>1. pc[w] = "push" /\ pc'[w] = "notify" /\ UNCHANGED local
    BY <1>p, <1>7 DEF SubmitPush
  <2>2. \A v \in Worker \ {w} : pc'[v] = pc[v] /\ item'[v] = item[v]
    BY <1>p, <1>7 DEF SubmitPush
  <2>3. Others(w)
    BY <2>1, <2>2 DEF Others, Held
  <2>4. Held(w) = local[w] \cup {item[w]} /\ Held(w)' = local[w] /\ item[w] \notin local[w]
    BY <2>1, HeldIs DEF HoldPc, WorkInv, HandApart
  <2> QED
    BY <1>7, <2>3, <2>4 DEF SubmitPush, Give
<1>8. ASSUME NEW w \in Worker, Run(w) PROVE \E found : Explore(w, found)
  <2>1. PICK found \in SUBSET Children(item[w]) :
             /\ item[w] \in Buggy \/ IsHalting(w) \/ found = Children(item[w])
             /\ local' = [local EXCEPT ![w] = @ \cup found]
    BY <1>8 DEF Run
  <2>2. pc[w] = "running" /\ pc'[w] \in {"reporting", "revisit"} /\ UNCHANGED item
    BY <1>p, <1>8 DEF Run
  <2>3. \A v \in Worker \ {w} : pc'[v] = pc[v] /\ local'[v] = local[v]
    BY <1>p, <1>8, <2>1 DEF Run
  <2>4. Others(w)
    BY <2>2, <2>3 DEF Others, Held
  <2>5. Held(w) = local[w] \cup {item[w]} /\ item[w] \notin local[w]
    BY <2>2, HeldIs DEF HoldPc, WorkInv, HandApart
  <2>6. Held(w)' = local[w] \cup found
    BY <1>p, <2>1, <2>2, HeldIs DEF HoldPc
  <2>7. Clean' => found = Children(item[w])
    <3> SUFFICES ASSUME Clean' PROVE found = Children(item[w])
      OBVIOUS
    <3>1. ~IsHalting(w)
      BY <2>2, CleanBefore, BusyNotHalting DEF WorkInv, TaskPc
    <3>2. item[w] \notin Buggy
      BY <1>p, <1>8, <3>1 DEF Run, Clean
    <3> QED
      BY <2>1, <3>1, <3>2
  <2>8. item[w] \in Item
    BY <2>2 DEF Accounting, Control, ItemInHand, HandPc
  <2> QED
    BY <1>8, <2>4, <2>5, <2>6, <2>7, <2>8 DEF Run, Explore, poolVars
<1> QED
  BY <1>1, <1>2, <1>3, <1>4, <1>5, <1>6, <1>7, <1>8 DEF Next, WorkerStep, MainStep

-----------------------------------------------------------------------------
(* Nothing twice, nothing lost.                                            *)

Distinct(q) == \A j, k \in DOMAIN q : q[j] = q[k] => j = k

(* Popping the last element of a queue of distinct items removes it.       *)
LEMMA PopQueued ==
    ASSUME queue \in Seq(Item), queue # <<>>, Distinct(queue),
           queue' = SubSeq(queue, 1, Len(queue) - 1)
    PROVE  /\ Distinct(queue)' /\ queue[Len(queue)] \in Queued
           /\ Queued' = Queued \ {queue[Len(queue)]}
<1>1. /\ Len(queue) \in Nat /\ Len(queue) > 0 /\ queue' \in Seq(Item)
      /\ Len(queue') = Len(queue) - 1
      /\ \A k \in 1..(Len(queue) - 1) : queue'[k] = queue[k]
  BY PopBack
<1>2. DOMAIN queue = 1..Len(queue) /\ DOMAIN queue' = 1..(Len(queue) - 1)
  BY <1>1
<1>3. Distinct(queue)'
  BY <1>1, <1>2 DEF Distinct
<1>4. queue[Len(queue)] \in Queued
  BY <1>1, <1>2 DEF Queued
<1>5. ASSUME NEW i PROVE i \in Queued' <=> i \in Queued /\ i # queue[Len(queue)]
  <2>1. i \in Queued' <=> \E k \in 1..(Len(queue) - 1) : i = queue[k]
    BY <1>1, <1>2 DEF Queued
  <2>2. i \in Queued <=> \E k \in 1..Len(queue) : i = queue[k]
    BY <1>2 DEF Queued
  <2>3. \A k \in 1..(Len(queue) - 1) : queue[k] # queue[Len(queue)]
    BY <1>1, <1>2 DEF Distinct
  <2> QED
    BY <1>1, <2>1, <2>2, <2>3
<1> QED
  BY <1>3, <1>4, <1>5

(* Pushing a new item adds it.                                             *)
LEMMA PushQueued ==
    ASSUME queue \in Seq(Item), NEW i \in Item, i \notin Queued, Distinct(queue),
           queue' = Append(queue, i)
    PROVE  Distinct(queue)' /\ Queued' = Queued \cup {i}
<1>1. /\ Len(queue) \in Nat /\ DOMAIN queue = 1..Len(queue)
      /\ DOMAIN queue' = 1..(Len(queue) + 1)
      /\ queue'[Len(queue) + 1] = i
      /\ \A k \in 1..Len(queue) : queue'[k] = queue[k]
  OBVIOUS
<1>2. \A k \in 1..Len(queue) : queue[k] # i
  BY <1>1 DEF Queued
<1>3. Distinct(queue)'
  BY <1>1, <1>2 DEF Distinct
<1>4. ASSUME NEW j PROVE j \in Queued' <=> j \in Queued \/ j = i
  <2>1. j \in Queued' <=> \E k \in 1..(Len(queue) + 1) : j = queue'[k]
    BY <1>1 DEF Queued
  <2>2. j \in Queued <=> \E k \in 1..Len(queue) : j = queue[k]
    BY <1>1 DEF Queued
  <2> QED
    BY <1>1, <2>1, <2>2
<1> QED
  BY <1>3, <1>4

(* The parts of WorkInv that say where the items are.                      *)
Places == NothingTwice /\ AllDiscovered /\ NoneMissing

(* Every way of moving work keeps each item in one place, and in a place   *)
(* where it belongs.                                                       *)
LEMMA PlacesStep ==
    ASSUME Accounting, WorkInv, Next
    PROVE  Places'
<1>q. queue \in Seq(Item) /\ executed \in SUBSET Item
  BY DEF Accounting, Control, TypeOK
<1>d. Distinct(queue) /\ NothingTwice /\ AllDiscovered /\ NoneMissing
  BY DEF WorkInv, NothingTwice, Distinct
<1>h. \A w \in Worker : Held(w) \subseteq Item
  BY DEF Held, Accounting, Control, TypeOK, ItemInHand, HandPc
<1>c. Clean' /\ mainPc' # "submit" /\ ~MainSubmit => Clean /\ mainPc # "submit"
  <2>1. Clean' => Clean
    BY CleanBefore
  <2>2. mainPc = "submit" /\ ~MainSubmit => mainPc' = "submit"
    BY DEF Next, MainStep, WorkerStep, Terminated, vars, mainVars, AddWorker, PoolBuilt,
           WaitForTasks, DestroyPool, JoinWorkers, CollectResult, PopTask, PopNothing,
           QuitOrWait, LeaveWait, SpuriousWakeup, FinishTask, ExploreTest, Run,
           HaltDriver, HaltPool, NextItem, NoMoreItems, SubmitCount, SubmitPush,
           SubmitNotify
  <2> QED
    BY <2>1, <2>2
<1>1. CASE Keep
  <2>1. Queued' = Queued /\ executed' = executed /\ queue' = queue
    BY <1>1 DEF Keep, Queued
  <2>2. \A w \in Worker : Held(w)' = Held(w)
    BY <1>1 DEF Keep
  <2>3. NothingTwice' /\ AllDiscovered'
    BY <1>d, <2>1, <2>2 DEF NothingTwice, AllDiscovered, Discovered
  <2>4. CASE MainSubmit
    BY <2>1, <2>4, <1>q DEF MainSubmit
  <2>5. CASE ~MainSubmit
    BY <1>c, <1>d, <2>1, <2>2, <2>3, <2>5 DEF NoneMissing, Discovered, Places
  <2> QED
    BY <2>4, <2>5
<1>2. CASE MainSubmit
  <2>1. /\ queue = <<>> /\ executed = {} /\ mainPc = "submit"
        /\ \A w \in Worker : local[w] = {} /\ pc[w] = "unborn"
    BY <1>2, PoolAssumption
       DEF MainSubmit, WorkInv, FreshStart, Accounting, Control, TypeOK, MainOK, Worker
  <2>2. /\ UNCHANGED <<pc, local, item, executed>> /\ queue' = Append(queue, Root)
    BY <1>2 DEF MainSubmit, driverVars
  <2>3. \A w \in Worker : Held(w)' = {}
    BY <2>1, <2>2, HeldIs DEF HoldPc
  <2>4. Queued = {}
    BY <2>1 DEF Queued
  <2>5. Distinct(queue)' /\ Queued' = {Root}
    BY <1>d, <1>q, <2>2, <2>4, PoolAssumption, PushQueued
  <2>6. NothingTwice' /\ AllDiscovered'
    BY <2>1, <2>2, <2>3, <2>5 DEF NothingTwice, AllDiscovered, Discovered, Distinct
  <2>7. NoneMissing'
    BY <2>1, <2>2, <2>3, <2>5, PoolAssumption DEF NoneMissing, Discovered
  <2> QED
    BY <2>6, <2>7 DEF Places
<1>3. ASSUME NEW w \in Worker, Drop(w) PROVE Places'
  <2>1. Queued' = Queued /\ executed' = executed /\ queue' = queue
    BY <1>3 DEF Drop, Queued
  <2>2. \A v \in Worker : Held(v)' \subseteq Held(v)
    BY <1>3 DEF Drop, Others
  <2>3. NothingTwice' /\ AllDiscovered'
    BY <1>d, <2>1, <2>2 DEF NothingTwice, AllDiscovered, Discovered
  <2>4. ~Clean'
    BY <1>3, CleanBefore DEF Drop
  <2> QED
    BY <2>3, <2>4 DEF Places, NoneMissing
<1>4. ASSUME NEW w \in Worker, Take(w) PROVE Places'
  <2> DEFINE i == queue[Len(queue)]
  <2>1. Distinct(queue)' /\ i \in Queued /\ Queued' = Queued \ {i} /\ executed' = executed
    BY <1>4, <1>d, <1>q, PopQueued DEF Take
  <2>2. Held(w)' = {i} /\ (Clean => Held(w) = {}) /\ \A v \in Worker \ {w} : Held(v)' = Held(v)
    BY <1>4 DEF Take, Others
  <2> HIDE DEF i
  <2>3. NothingTwice'
    BY <1>d, <2>1, <2>2 DEF NothingTwice, Distinct
  <2>4. AllDiscovered'
    BY <1>d, <2>1, <2>2 DEF AllDiscovered, Discovered
  <2>5. CASE MainSubmit
    BY <1>2, <2>5
  <2>6. CASE ~MainSubmit
    BY <1>c, <1>d, <2>1, <2>2, <2>3, <2>4, <2>6 DEF NoneMissing, Discovered, Places
  <2> QED
    BY <2>5, <2>6
<1>5. ASSUME NEW w \in Worker, Give(w) PROVE Places'
  <2> DEFINE i == item[w]
  <2>1. i \in Held(w) /\ i \in Item /\ i \notin Queued
    BY <1>5, <1>d, <1>h DEF Give, NothingTwice
  <2>2. Distinct(queue)' /\ Queued' = Queued \cup {i} /\ executed' = executed
    BY <1>5, <1>d, <1>q, <2>1, PushQueued DEF Give
  <2>3. Held(w)' = Held(w) \ {i} /\ \A v \in Worker \ {w} : Held(v)' = Held(v)
    BY <1>5 DEF Give, Others
  <2> HIDE DEF i
  <2>4. NothingTwice'
    BY <1>d, <2>1, <2>2, <2>3 DEF NothingTwice, Distinct
  <2>5. AllDiscovered'
    BY <1>d, <2>1, <2>2, <2>3 DEF AllDiscovered, Discovered
  <2>6. CASE MainSubmit
    BY <1>2, <2>6
  <2>7. CASE ~MainSubmit
    <3>1. ASSUME NEW j \in Item
          PROVE  (j \in Queued' \/ \E v \in Worker : j \in Held(v)')
                 <=> (j \in Queued \/ \E v \in Worker : j \in Held(v))
      BY <2>1, <2>2, <2>3
    <3> QED
      BY <1>c, <1>d, <2>2, <2>4, <2>5, <2>7, <3>1 DEF NoneMissing, Discovered, Places
  <2> QED
    BY <2>6, <2>7
<1>6. ASSUME NEW w \in Worker, NEW found, Explore(w, found) PROVE Places'
  <2> DEFINE i == item[w]
  <2>1. /\ i \in Held(w) /\ i \in Item /\ i \notin Queued /\ i \notin executed
        /\ \A v \in Worker \ {w} : i \notin Held(v)
    BY <1>6, <1>d DEF Explore, NothingTwice
  <2>2. /\ executed' = executed \cup {i} /\ queue' = queue /\ Queued' = Queued
        /\ found \subseteq Children(i) /\ (Clean' => found = Children(i))
    BY <1>6 DEF Explore, Queued
  <2>3. Held(w)' = (Held(w) \ {i}) \cup found /\ \A v \in Worker \ {w} : Held(v)' = Held(v)
    BY <1>6 DEF Explore, Others
  <2> HIDE DEF i
  <2>4. ASSUME NEW j \in Children(i)
        PROVE  /\ j \in Item /\ j # Root /\ Parent[j] = i
               /\ j \notin Queued /\ j \notin executed /\ j # i
               /\ \A v \in Worker : j \notin Held(v)
    <3>1. j \in Item /\ j # Root /\ Parent[j] = i /\ ~Discovered(j)
      BY <2>1 DEF Children, Discovered
    <3>2. Discovered(i)
      BY <1>d, <2>1 DEF AllDiscovered
    <3> QED
      BY <1>d, <3>1, <3>2 DEF AllDiscovered
  <2>5. \A j \in found : /\ j \notin Queued /\ j \notin executed /\ j # i
                         /\ \A v \in Worker : j \notin Held(v)
    BY <2>2, <2>4
  <2>6. NothingTwice'
    <3>1. (Distinct(queue) /\ Queued \cap executed = {})'
      BY <1>d, <2>1, <2>2 DEF NothingTwice, Distinct
    <3>2. \A v \in Worker : Held(v)' \cap (Queued' \cup executed') = {}
      BY <1>d, <2>1, <2>2, <2>3, <2>5 DEF NothingTwice
    <3>3. \A u, v \in Worker : u # v => Held(u)' \cap Held(v)' = {}
      BY <1>d, <2>3, <2>5 DEF NothingTwice
    <3> QED
      BY <3>1, <3>2, <3>3 DEF NothingTwice, Distinct
  <2>7. AllDiscovered'
    <3>1. \A j : Discovered(j) => Discovered(j)'
      BY <2>2 DEF Discovered
    <3>2. \A j \in found : Discovered(j)'
      BY <2>2, <2>4 DEF Discovered
    <3> QED
      BY <1>d, <2>1, <2>2, <2>3, <3>1, <3>2 DEF AllDiscovered
  <2>8. CASE MainSubmit
    BY <1>2, <2>8
  <2>9. CASE ~MainSubmit
    <3>1. SUFFICES ASSUME Clean', mainPc' # "submit", NEW j \in Item
                   PROVE  j \notin executed' /\ Discovered(j)'
                          <=> j \in Queued' \/ \E v \in Worker : j \in Held(v)'
      BY <2>6, <2>7 DEF NoneMissing, Places
    <3>2. j \notin executed /\ Discovered(j)
          <=> j \in Queued \/ \E v \in Worker : j \in Held(v)
      BY <1>c, <1>d, <2>9, <3>1 DEF NoneMissing
    <3>3. found = Children(i)
      BY <2>2, <3>1
    <3>4. Discovered(j)' <=> Discovered(j) \/ j \in Children(i)
      BY <2>2 DEF Discovered, Children
    <3>5. (\E v \in Worker : j \in Held(v)')
          <=> (j # i /\ \E v \in Worker : j \in Held(v)) \/ j \in Children(i)
      BY <2>1, <2>3, <2>4, <3>3
    <3> QED
      BY <2>1, <2>2, <2>4, <3>2, <3>4, <3>5
  <2> QED
    BY <2>8, <2>9
<1> QED
  BY <1>1, <1>2, <1>3, <1>4, <1>5, <1>6, StepMovesWork

-----------------------------------------------------------------------------
(* Errors and results.                                                     *)

(* The parts of WorkInv that are about errors and results.                 *)
Books == HandApart /\ FreshStart /\ ErrorsReal /\ ErrorsSeen /\ ResultSoFar

(* Steps that change no more than a worker's program point.                *)
LEMMA BooksKept ==
    ASSUME Accounting, Books, NEW w \in Worker,
           UNCHANGED <<poolVars, driverVars, mainVars>>,
           \A v \in Worker \ {w} : pc'[v] = pc[v],
           pc[w] # "unborn", pc[w] # "done",
           \/ pc[w] = "explore" /\ pc'[w] = "running"
           \/ /\ pc[w] \in {"tryPop", "lock", "waiting", "woken"}
              /\ pc'[w] \in {"tryPop", "lock", "waiting", "woken", "done"}
           \/ /\ pc[w] \in TaskPc \ {"reporting"} /\ pc'[w] = "finish"
              /\ local[w] = {} \/ ~Clean
    PROVE  Books'
<1> USE DEF Books, poolVars, driverVars, mainVars
<1>1. pc \in [Worker -> WorkerPc]
  BY DEF Accounting, Control, TypeOK
<1>2. Clean' => Clean
  BY DEF Clean, TaskPc
<1>3. mainPc \notin {"collect", "end"}
  BY DEF ResultSoFar
<1>4. HandApart' /\ FreshStart' /\ ErrorsReal'
  BY DEF HandApart, HoldPc, FreshStart, ErrorsReal
<1>5. ErrorsSeen'
  BY <1>2 DEF ErrorsSeen, TaskPc, Clean
<1>6. ResultSoFar'
  BY <1>3 DEF ResultSoFar
<1> QED
  BY <1>4, <1>5, <1>6

(* No step lets an error go unnoticed or makes one up.                     *)
LEMMA BooksStep ==
    ASSUME Accounting, WorkInv, Next
    PROVE  Books'
<1> USE DEF Goto, Books
<1>p. /\ pc \in [Worker -> WorkerPc] /\ item \in [Worker -> Item \cup {NoItem}]
      /\ local \in [Worker -> SUBSET Item] /\ status \in [Worker -> Item \cup {VE_OK}]
      /\ drvHalt \in [Worker -> BOOLEAN] /\ remaining \in Nat /\ queue \in Seq(Item)
      /\ collected \in 0..NumWorkers /\ mainPc \in MainPc
      /\ result \in [status : Item \cup {VE_OK}, explored : Nat]
  BY DEF Accounting, Control, TypeOK
<1>b. HandApart /\ FreshStart /\ ErrorsReal /\ ErrorsSeen /\ ResultSoFar
  BY DEF WorkInv
<1>c. Clean' => Clean
  BY CleanBefore
<1>u. mainPc = "submit" => \A w \in Worker : pc[w] = "unborn"
  BY PoolAssumption DEF Accounting, Control, TypeOK, MainOK, Worker
<1>d. mainPc \in {"collect", "end"} => \A w \in Worker : pc[w] = "done"
  BY <1>b DEF ResultSoFar
<1>r. ASSUME NEW w \in Worker, pc[w] \in TaskPc
      PROVE  /\ remaining # 0 /\ mainPc \notin {"submit", "collect", "end"}
             /\ Clean => ~poolHalt /\ mainPc \in {"spawn", "wait"} /\ ~IsHalting(w)
  <2>1. w \in Active
    BY <1>r DEF Active
  <2>2. remaining # 0
    BY <1>p, <2>1, BusyMeansRemaining
  <2> QED
    BY <1>b, <1>d, <1>p, <1>r, <1>u, <2>2, BusyNotHalting DEF ErrorsSeen, TaskPc, MainPc
<1>1. ASSUME NEW w \in Worker,
             \/ PopNothing(w) \/ QuitOrWait(w) \/ LeaveWait(w) \/ SpuriousWakeup(w)
             \/ ExploreTest(w) \/ NoMoreItems(w)
      PROVE  Books'
  <2>1. UNCHANGED <<poolVars, driverVars, mainVars>> /\ \A v \in Worker \ {w} : pc'[v] = pc[v]
    BY <1>p, <1>1 DEF PopNothing, QuitOrWait, LeaveWait, SpuriousWakeup, ExploreTest, NoMoreItems
  <2>2. CASE PopNothing(w) \/ QuitOrWait(w) \/ LeaveWait(w) \/ SpuriousWakeup(w)
    <3>1. /\ pc[w] \in {"tryPop", "lock", "waiting", "woken"}
          /\ pc'[w] \in {"tryPop", "lock", "waiting", "woken", "done"}
      BY <1>p, <2>2 DEF PopNothing, QuitOrWait, LeaveWait, SpuriousWakeup
    <3> QED
      BY <1>b, <2>1, <3>1, BooksKept
  <2>3. CASE ExploreTest(w)
    <3>1. pc[w] = "explore" /\ pc'[w] = IF IsHalting(w) THEN "finish" ELSE "running"
      BY <1>p, <2>3 DEF ExploreTest
    <3>2. IsHalting(w) => ~Clean
      BY <1>r, <3>1 DEF TaskPc
    <3>3. CASE IsHalting(w)
      BY <1>b, <2>1, <3>1, <3>2, <3>3, BooksKept DEF TaskPc
    <3>4. CASE ~IsHalting(w)
      BY <1>b, <2>1, <3>1, <3>4, BooksKept
    <3> QED
      BY <3>3, <3>4
  <2>4. CASE NoMoreItems(w)
    <3>1. pc[w] = "revisit" /\ pc'[w] = "finish" /\ local[w] = {}
      BY <1>p, <2>4 DEF NoMoreItems
    <3> QED
      BY <1>b, <2>1, <3>1, BooksKept DEF TaskPc
  <2> QED
    BY <1>1, <2>2, <2>3, <2>4
<1>2. ASSUME NEW w \in Worker, PopTask(w) PROVE Books'
  <2>1. /\ pc[w] = "tryPop" /\ pc'[w] = "explore" /\ local'[w] = {}
        /\ \A v \in Worker \ {w} : pc'[v] = pc[v] /\ item'[v] = item[v] /\ local'[v] = local[v]
        /\ UNCHANGED <<remaining, poolHalt, drvHalt, status, executed, mainVars>>
    BY <1>p, <1>2 DEF PopTask
  <2>2. mainPc \notin {"submit", "collect", "end"}
    BY <1>d, <1>u, <2>1
  <2>3. HandApart' /\ FreshStart' /\ ErrorsReal'
    BY <1>b, <2>1, <2>2 DEF HandApart, HoldPc, FreshStart, ErrorsReal, mainVars
  <2>4. ErrorsSeen'
    BY <1>b, <1>c, <2>1 DEF ErrorsSeen, TaskPc, mainVars
  <2>5. ResultSoFar'
    BY <1>b, <2>1, <2>2 DEF ResultSoFar, mainVars
  <2> QED
    BY <2>3, <2>4, <2>5
<1>3. ASSUME NEW w \in Worker, FinishTask(w) PROVE Books'
  <2>1. /\ pc[w] = "finish" /\ pc'[w] \in {"tryPop", "done"}
        /\ \A v \in Worker \ {w} : pc'[v] = pc[v] \/ (pc[v] = "waiting" /\ pc'[v] = "woken")
        /\ UNCHANGED <<queue, poolHalt, driverVars, mainVars>>
    BY <1>p, <1>3, NotifyAllPc DEF FinishTask
  <2>2. /\ mainPc \notin {"submit", "collect", "end"}
        /\ Clean => ~poolHalt /\ mainPc \in {"spawn", "wait"}
    BY <1>r, <2>1 DEF TaskPc
  <2>3. HandApart' /\ FreshStart' /\ ErrorsReal'
    BY <1>b, <2>1, <2>2 DEF HandApart, HoldPc, FreshStart, ErrorsReal, mainVars, driverVars
  <2>4. ErrorsSeen'
    BY <1>b, <1>c, <2>1, <2>2 DEF ErrorsSeen, TaskPc, mainVars, driverVars
  <2>5. ResultSoFar'
    BY <1>b, <2>1, <2>2 DEF ResultSoFar, mainVars, driverVars
  <2> QED
    BY <2>3, <2>4, <2>5
<1>4. ASSUME NEW w \in Worker, Run(w) PROVE Books'
  <2>1. /\ pc[w] = "running" /\ pc'[w] \in {"reporting", "revisit"}
        /\ item[w] \in Buggy /\ ~IsHalting(w) <=> pc'[w] = "reporting"
        /\ \A v \in Worker \ {w} : pc'[v] = pc[v] /\ local'[v] = local[v]
        /\ UNCHANGED <<poolVars, item, drvHalt, status, mainVars>>
        /\ executed' = executed \cup {item[w]}
    BY <1>p, <1>4 DEF Run
  <2>2. /\ mainPc \notin {"submit", "collect", "end"}
        /\ Clean => ~IsHalting(w)
    BY <1>r, <2>1 DEF TaskPc
  <2>3. HandApart' /\ FreshStart' /\ ErrorsReal'
    BY <1>b, <2>1, <2>2 DEF HandApart, HoldPc, FreshStart, ErrorsReal, mainVars
  <2>4. Clean' => item[w] \notin Buggy
    BY <1>c, <2>1, <2>2 DEF Clean
  <2>5. ErrorsSeen'
    BY <1>b, <1>c, <2>1, <2>4 DEF ErrorsSeen, TaskPc, mainVars, poolVars
  <2>6. ResultSoFar'
    BY <1>b, <2>1, <2>2 DEF ResultSoFar, mainVars
  <2> QED
    BY <2>3, <2>5, <2>6
<1>5. ASSUME NEW w \in Worker, HaltDriver(w) PROVE Books'
  <2>1. /\ pc[w] = "reporting" /\ pc'[w] = "halting"
        /\ \A v \in Worker \ {w} : /\ pc'[v] = pc[v] /\ drvHalt'[v] = drvHalt[v]
                                   /\ status'[v] = status[v]
        /\ status'[w] = item[w]
        /\ UNCHANGED <<poolVars, item, local, executed, mainVars>>
    BY <1>p, <1>5 DEF HaltDriver
  <2>2. item[w] \in executed \cap Buggy /\ item[w] # VE_OK
    BY <1>b, <2>1, PoolAssumption DEF ErrorsReal
  <2>3. mainPc \notin {"submit", "collect", "end"}
    BY <1>r, <2>1 DEF TaskPc
  <2>4. HandApart' /\ FreshStart' /\ ErrorsReal'
    BY <1>b, <2>1, <2>2, <2>3 DEF HandApart, HoldPc, FreshStart, ErrorsReal, mainVars
  <2>5. ~Clean'
    BY <2>1, <2>2 DEF Clean
  <2>6. collected = 0
    BY <2>3 DEF Accounting, Control, MainOK
  <2>7. ResultSoFar'
    BY <1>b, <2>1, <2>3, <2>6 DEF ResultSoFar, mainVars, Worker
  <2> QED
    BY <2>4, <2>5, <2>7 DEF ErrorsSeen
<1>6. ASSUME NEW w \in Worker, HaltPool(w) PROVE Books'
  <2>1. /\ pc[w] = "halting" /\ pc'[w] = "revisit"
        /\ \A v \in Worker \ {w} : pc'[v] = pc[v] \/ (pc[v] = "waiting" /\ pc'[v] = "woken")
        /\ UNCHANGED <<queue, driverVars, mainVars>>
    BY <1>p, <1>6, NotifyAllPc DEF HaltPool
  <2>2. mainPc \notin {"submit", "collect", "end"} /\ ~Clean
    BY <1>b, <1>r, <2>1 DEF TaskPc, ErrorsReal, Clean
  <2>3. HandApart' /\ FreshStart' /\ ErrorsReal'
    BY <1>b, <2>1, <2>2 DEF HandApart, HoldPc, FreshStart, ErrorsReal, mainVars, driverVars
  <2>4. ErrorsSeen'
    BY <1>c, <2>2 DEF ErrorsSeen
  <2>5. ResultSoFar'
    BY <1>b, <2>1, <2>2 DEF ResultSoFar, mainVars, driverVars
  <2> QED
    BY <2>3, <2>4, <2>5
<1>7. ASSUME NEW w \in Worker, NextItem(w) PROVE Books'
  <2>1. /\ pc[w] = "revisit" /\ pc'[w] \in {"explore", "submit"}
        /\ item'[w] \notin local'[w]
        /\ \A v \in Worker \ {w} : pc'[v] = pc[v] /\ item'[v] = item[v] /\ local'[v] = local[v]
        /\ UNCHANGED <<poolVars, drvHalt, status, executed, mainVars>>
    BY <1>p, <1>7 DEF NextItem
  <2>2. mainPc \notin {"submit", "collect", "end"}
    BY <1>r, <2>1 DEF TaskPc
  <2>3. HandApart' /\ FreshStart' /\ ErrorsReal'
    BY <1>b, <2>1, <2>2 DEF HandApart, HoldPc, FreshStart, ErrorsReal, mainVars
  <2>4. ErrorsSeen'
    BY <1>b, <1>c, <2>1 DEF ErrorsSeen, TaskPc, mainVars, poolVars
  <2>5. ResultSoFar'
    BY <1>b, <2>1, <2>2 DEF ResultSoFar, mainVars
  <2> QED
    BY <2>3, <2>4, <2>5
<1>8. ASSUME NEW w \in Worker, SubmitCount(w) \/ SubmitPush(w) \/ SubmitNotify(w)
      PROVE  Books'
  <2>1. /\ pc[w] \in {"submit", "push", "notify"} /\ pc'[w] \in {"push", "notify", "revisit"}
        /\ pc'[w] = "push" => pc[w] = "submit" /\ item' = item
        /\ \A v \in Worker \ {w} : /\ item'[v] = item[v]
                                   /\ \/ pc'[v] = pc[v]
                                      \/ pc[v] = "waiting" /\ pc'[v] = "woken"
        /\ UNCHANGED <<poolHalt, local, drvHalt, status, executed, mainVars>>
    <3>1. CASE SubmitCount(w) \/ SubmitPush(w)
      BY <1>p, <3>1 DEF SubmitCount, SubmitPush, driverVars
    <3>2. CASE SubmitNotify(w)
      BY <1>p, <3>2 DEF SubmitNotify, Waiting, driverVars
    <3> QED
      BY <1>8, <3>1, <3>2
  <2>2. /\ mainPc \notin {"submit", "collect", "end"}
        /\ Clean => ~poolHalt /\ mainPc \in {"spawn", "wait"}
    BY <1>r, <2>1 DEF TaskPc
  <2>3. HandApart' /\ FreshStart' /\ ErrorsReal'
    BY <1>b, <2>1, <2>2 DEF HandApart, HoldPc, FreshStart, ErrorsReal, mainVars
  <2>4. ErrorsSeen'
    BY <1>b, <1>c, <2>1, <2>2 DEF ErrorsSeen, TaskPc, mainVars
  <2>5. ResultSoFar'
    BY <1>b, <2>1, <2>2 DEF ResultSoFar, mainVars
  <2> QED
    BY <2>3, <2>4, <2>5
<1>9. ASSUME MainSubmit \/ AddWorker PROVE Books'
  <2>1. CASE MainSubmit
    <3>1. /\ mainPc = "submit" /\ mainPc' = "spawn" /\ ~poolHalt
          /\ UNCHANGED <<poolHalt, driverVars, collected, result, pc>>
      BY <1>b, <2>1 DEF MainSubmit, FreshStart
    <3>2. HandApart' /\ FreshStart' /\ ErrorsReal'
      BY <1>b, <3>1 DEF HandApart, HoldPc, FreshStart, ErrorsReal, driverVars
    <3>3. ErrorsSeen' /\ ResultSoFar'
      BY <1>b, <1>c, <3>1 DEF ErrorsSeen, ResultSoFar, driverVars
    <3> QED
      BY <3>2, <3>3
  <2>2. CASE AddWorker
    <3> DEFINE w == spawned + 1
    <3>1. w \in Worker /\ pc[w] = "unborn"
      BY <2>2, PoolAssumption DEF AddWorker, Accounting, Control, TypeOK, MainOK, Worker
    <3>2. /\ mainPc = "spawn" /\ pc'[w] = "tryPop" /\ \A v \in Worker \ {w} : pc'[v] = pc[v]
          /\ UNCHANGED <<poolVars, driverVars, mainPc, collected, result>>
      BY <1>p, <2>2, <3>1 DEF AddWorker
    <3> HIDE DEF w
    <3>3. HandApart' /\ FreshStart' /\ ErrorsReal'
      BY <1>b, <3>1, <3>2 DEF HandApart, HoldPc, FreshStart, ErrorsReal, driverVars
    <3>4. ErrorsSeen' /\ ResultSoFar'
      BY <1>b, <1>c, <3>1, <3>2 DEF ErrorsSeen, ResultSoFar, TaskPc, driverVars, poolVars
    <3> QED
      BY <3>3, <3>4
  <2> QED
    BY <1>9, <2>1, <2>2
<1>10. ASSUME PoolBuilt \/ WaitForTasks \/ DestroyPool PROVE Books'
  <2>1. /\ mainPc \in {"spawn", "wait", "destroy"} /\ mainPc' \in {"wait", "destroy", "join"}
        /\ \A v \in Worker : pc'[v] = pc[v] \/ (pc[v] = "waiting" /\ pc'[v] = "woken")
        /\ UNCHANGED <<queue, remaining, driverVars, collected, result>>
    BY <1>p, <1>10, NotifyAllPc DEF PoolBuilt, WaitForTasks, DestroyPool, poolVars
  <2>2. HandApart' /\ FreshStart' /\ ErrorsReal'
    BY <1>b, <2>1 DEF HandApart, HoldPc, FreshStart, ErrorsReal, driverVars
  <2>3. Clean' => (poolHalt' \/ mainPc' \notin {"submit", "spawn", "wait"} => remaining = 0)
    BY <1>b, <1>c, <1>10
       DEF ErrorsSeen, PoolBuilt, WaitForTasks, DestroyPool, poolVars
  <2>4. ErrorsSeen'
    BY <1>b, <1>c, <2>1, <2>3 DEF ErrorsSeen, TaskPc, driverVars
  <2>5. ResultSoFar'
    BY <1>b, <2>1 DEF ResultSoFar, driverVars
  <2> QED
    BY <2>2, <2>4, <2>5
<1>11. ASSUME JoinWorkers \/ CollectResult PROVE Books'
  <2>1. /\ mainPc \in {"join", "collect"} /\ mainPc' \in {"collect", "end"}
        /\ UNCHANGED <<poolVars, driverVars, pc>> /\ \A w \in Worker : pc[w] = "done"
    BY <1>d, <1>11 DEF JoinWorkers, CollectResult
  <2>2. HandApart' /\ FreshStart' /\ ErrorsReal'
    BY <1>b, <2>1 DEF HandApart, HoldPc, FreshStart, ErrorsReal, driverVars
  <2>3. ErrorsSeen'
    BY <1>b, <1>c, <2>1 DEF ErrorsSeen, driverVars, poolVars
  <2>4. CASE JoinWorkers
    BY <1>b, <2>1, <2>2, <2>3, <2>4 DEF JoinWorkers, ResultSoFar, driverVars
  <2>5. CASE CollectResult
    <3> DEFINE w == collected + 1
    <3>1. w \in Worker /\ collected' = w
      BY <1>p, <2>5, PoolAssumption DEF CollectResult, Accounting, Control, MainOK, Worker
    <3>2. result'.status = IF status[w] # VE_OK THEN status[w] ELSE result.status
      <4>1. result' = [status |-> IF status[w] # VE_OK THEN status[w] ELSE result.status,
                       explored |-> result.explored + explored[w]]
        BY <2>5, <3>1 DEF CollectResult, Plus
      <4> QED
        BY <4>1
    <3>3. mainPc' = "end" => collected' = NumWorkers
      BY <2>5 DEF CollectResult
    <3>4. \A v \in Worker : v <= w <=> v <= collected \/ v = w
      BY <1>p DEF Worker
    <3> HIDE DEF w
    <3>5. ResultSoFar'
      BY <1>b, <2>1, <3>1, <3>2, <3>3, <3>4 DEF ResultSoFar, ErrorsReal, driverVars
    <3> QED
      BY <2>2, <2>3, <3>5
  <2> QED
    BY <1>11, <2>4, <2>5
<1>12. ASSUME Terminated PROVE Books'
  BY <1>b, <1>12
     DEF Terminated, vars, poolVars, driverVars, mainVars, HandApart, HoldPc, FreshStart,
         ErrorsReal, ErrorsSeen, ResultSoFar, Clean
<1> QED
  BY <1>1, <1>2, <1>3, <1>4, <1>5, <1>6, <1>7, <1>8, <1>9, <1>10, <1>11, <1>12
     DEF Next, WorkerStep, MainStep

-----------------------------------------------------------------------------
(* The theorems.                                                           *)

(* At the start nothing is anywhere.                                       *)
LEMMA WorkInit == Init => WorkInv
<1> SUFFICES ASSUME Init PROVE WorkInv
  OBVIOUS
<1>1. Queued = {} /\ DOMAIN queue = {}
  BY DEF Init, Queued
<1>2. \A w \in Worker : Held(w) = {}
  BY DEF Init, Held
<1>3. NothingTwice /\ AllDiscovered
  BY <1>1, <1>2 DEF Init, NothingTwice, AllDiscovered
<1>4. HandApart /\ FreshStart /\ NoneMissing
  BY DEF Init, HandApart, HoldPc, FreshStart, NoneMissing
<1>5. ErrorsReal /\ ErrorsSeen
  BY DEF Init, ErrorsReal, ErrorsSeen
<1>6. ResultSoFar
  BY DEF Init, ResultSoFar
<1> QED
  BY <1>3, <1>4, <1>5, <1>6 DEF WorkInv

(* The invariant about the work is inductive beside Accounting.            *)
LEMMA WorkInvariant == Spec => []WorkInv
<1>1. WorkInv /\ UNCHANGED vars => WorkInv'
  BY DEF WorkInv, NothingTwice, AllDiscovered, Discovered, NoneMissing, FreshStart,
         HandApart, HoldPc, ErrorsReal, ErrorsSeen, ResultSoFar, Clean, Queued, Held,
         vars, poolVars, driverVars, mainVars
<1>2. Accounting /\ WorkInv /\ Next => WorkInv'
  BY PlacesStep, BooksStep DEF WorkInv, Places, Books
<1>3. Accounting /\ WorkInv /\ [Next]_vars => WorkInv'
  BY <1>1, <1>2
<1> QED
  BY AccountingInvariant, WorkInit, <1>3, PTL DEF Spec

(* Handing work over, in submit, popTask, initFromState and the drivers'   *)
(* own queues, neither loses an execution nor lets it be run twice.        *)
THEOREM EveryItemOnce == Spec => []RunExactlyOnce
<1>1. Accounting /\ WorkInv => RunExactlyOnce
  <2> SUFFICES ASSUME Accounting, WorkInv, Clean, mainPc # "submit"
               PROVE  Exploration!Frontier = Queued \cup UNION {Held(w) : w \in Worker}
    BY DEF WorkInv, RunExactlyOnce, NothingLost
  <2>1. Queued \subseteq Item
    BY DEF Queued, Accounting, Control, TypeOK
  <2>2. \A w \in Worker : Held(w) \subseteq Item
    BY DEF Held, Accounting, Control, TypeOK, ItemInHand, HandPc
  <2>3. \A i \in Item : i \in Exploration!Frontier
                        <=> i \in Queued \/ \E w \in Worker : i \in Held(w)
    BY DEF WorkInv, NoneMissing, Discovered, Exploration!Frontier
  <2>4. Exploration!Frontier \subseteq Item
    BY DEF Exploration!Frontier
  <2> QED
    BY <2>1, <2>2, <2>3, <2>4
<1> QED
  BY <1>1, AccountingInvariant, WorkInvariant, PTL

(* Once all results are in without an error, everything was explored.      *)
LEMMA AllExplored ==
    ASSUME Accounting, WorkInv, mainPc \in {"collect", "end"},
           \A w \in Worker : status[w] = VE_OK
    PROVE  Exploration!Frontier = {} /\ executed \cap Buggy = {}
<1>1. \A w \in Worker : pc[w] = "done"
  BY DEF WorkInv, ResultSoFar
<1>2. Clean
  BY <1>1 DEF Clean
<1>3. remaining = 0 /\ \A w \in Worker : local[w] = {}
  BY <1>1, <1>2 DEF WorkInv, ErrorsSeen, TaskPc
<1>4. Queued = {}
  BY <1>3, ZeroMeansIdle DEF Queued
<1>5. \A w \in Worker : Held(w) = {}
  BY <1>1, <1>3, HeldIs DEF HoldPc
<1>6. \A i \in Item : i \notin Exploration!Frontier
  BY <1>2, <1>4, <1>5 DEF WorkInv, NoneMissing, Discovered, Exploration!Frontier
<1> QED
  BY <1>2, <1>6 DEF WorkInv, ErrorsSeen, Exploration!Frontier

(* A run of the program explores an item of the frontier.                  *)
LEMMA RunExplores ==
    ASSUME Accounting, WorkInv, NEW w \in Worker, Run(w)
    PROVE  Exploration!Explore
<1>1. pc[w] = "running" /\ executed' = executed \cup {item[w]} /\ UNCHANGED mainVars
  BY DEF Run, Goto
<1>2. mainPc # "end"
  BY <1>1 DEF WorkInv, ResultSoFar
<1>3. Verdict = NoVerdict /\ Verdict' = NoVerdict
  BY <1>1, <1>2 DEF Verdict, mainVars
<1>4. item[w] \in Held(w) /\ item[w] \in Item
  BY <1>1, HeldIs DEF HoldPc, Accounting, Control, ItemInHand, HandPc
<1>5. item[w] \in Exploration!Frontier
  BY <1>4 DEF WorkInv, NothingTwice, AllDiscovered, Discovered, Exploration!Frontier
<1> QED
  BY <1>1, <1>3, <1>5 DEF Exploration!Explore

(* Adding the last result gives the verdict that ParallelExploration       *)
(* allows.                                                                 *)
LEMMA LastResult ==
    ASSUME Accounting, WorkInv, CollectResult, mainPc' = "end"
    PROVE  Exploration!Succeed \/ Exploration!Fail
<1>1. mainPc = "collect" /\ Verdict = NoVerdict /\ Verdict' = result'.status
  BY DEF CollectResult, Verdict
<1>2. UNCHANGED <<executed, status>> /\ collected' = NumWorkers
  BY DEF CollectResult, driverVars
<1>3. ResultSoFar'
  <2>1. Next
    BY DEF Next, MainStep
  <2> QED
    BY <2>1, BooksStep DEF Books
<1>4. CASE result'.status = VE_OK
  <2>1. \A w \in Worker : status[w] = VE_OK
    BY <1>2, <1>3, <1>4 DEF ResultSoFar, Worker
  <2>2. Exploration!Frontier = {} /\ executed \cap Buggy = {}
    BY <1>1, <2>1, AllExplored
  <2> QED
    BY <1>1, <1>2, <1>4, <2>2 DEF Exploration!Succeed
<1>5. CASE result'.status # VE_OK
  BY <1>1, <1>2, <1>3, <1>5 DEF ResultSoFar, Exploration!Fail
<1> QED
  BY <1>4, <1>5

(* Only a run of the program and the sum of the results are visible.       *)
LEMMA QuietSteps ==
    ASSUME Next, ~CollectResult, ~\E w \in Worker : Run(w)
    PROVE  /\ UNCHANGED <<executed, explored, collected, result>>
           /\ mainPc' = "end" <=> mainPc = "end"
<1>1. UNCHANGED <<executed, explored>>
  BY DEF Next, MainStep, WorkerStep, Terminated, vars, driverVars, MainSubmit, AddWorker,
         PoolBuilt, WaitForTasks, DestroyPool, JoinWorkers, PopTask, PopNothing,
         QuitOrWait, LeaveWait, SpuriousWakeup, FinishTask, ExploreTest, HaltDriver,
         HaltPool, NextItem, NoMoreItems, SubmitCount, SubmitPush, SubmitNotify
<1>2. UNCHANGED <<collected, result>> /\ (mainPc' = "end" <=> mainPc = "end")
  BY DEF Next, MainStep, WorkerStep, Terminated, vars, mainVars, MainSubmit, AddWorker,
         PoolBuilt, WaitForTasks, DestroyPool, JoinWorkers, PopTask, PopNothing,
         QuitOrWait, LeaveWait, SpuriousWakeup, FinishTask, ExploreTest, HaltDriver,
         HaltPool, NextItem, NoMoreItems, SubmitCount, SubmitPush, SubmitNotify
<1> QED
  BY <1>1, <1>2

(* The pool implements the sequential exploration of ParallelExploration:  *)
(* its runs are exploration steps, adding the last result is the verdict,  *)
(* and all that submit, popTask, halt and the destructor do is invisible.  *)
THEOREM PoolImplementsExploration == Spec => ImplementsExploration
<1>1. Init => Exploration!Init
  BY DEF Init, Exploration!Init, Verdict
<1>2. ASSUME Accounting, WorkInv, [Next]_vars
      PROVE  [Exploration!Next]_(Exploration!vars)
  <2>1. CASE \E w \in Worker : Run(w)
    BY <1>2, <2>1, RunExplores DEF Exploration!Next
  <2>2. CASE CollectResult
    <3>1. CASE mainPc' = "end"
      BY <1>2, <2>2, <3>1, LastResult DEF Exploration!Next
    <3>2. CASE mainPc' # "end"
      BY <2>2, <3>2 DEF CollectResult, Verdict, driverVars, Exploration!vars
    <3> QED
      BY <3>1, <3>2
  <2>3. CASE Next /\ ~CollectResult /\ ~\E w \in Worker : Run(w)
    BY <2>3, QuietSteps DEF Verdict, Exploration!vars
  <2>4. CASE UNCHANGED vars
    BY <2>4 DEF vars, driverVars, mainVars, Verdict, Exploration!vars
  <2> QED
    BY <1>2, <2>1, <2>2, <2>3, <2>4
<1> QED
  BY <1>1, <1>2, AccountingInvariant, WorkInvariant, PTL
     DEF Spec, ImplementsExploration, Exploration!Spec

(* The executions credited to one worker, and to the workers whose results *)
(* have been added up.                                                     *)
Of(S, owner, w) == {i \in S : owner[i] = w}
UpTo(S, owner, n) == {i \in S : owner[i] <= n}

(* Running an item adds it to the books of one worker.                     *)
LEMMA CreditRun ==
    ASSUME Accounting, WorkInv, Credited, NEW w \in Worker, Run(w)
    PROVE  Credited'
<1> DEFINE x == item[w]
<1>1. /\ pc[w] = "running" /\ executed' = executed \cup {x}
      /\ explored' = [explored EXCEPT ![w] = @ + 1]
      /\ UNCHANGED mainVars
  BY DEF Run, Goto
<1>2. x \notin executed /\ x \in Item
  BY <1>1, HeldIs DEF HoldPc, WorkInv, NothingTwice, Accounting, Control, ItemInHand, HandPc
<1>3. mainPc \notin {"collect", "end"} /\ collected = 0
  BY <1>1 DEF WorkInv, ResultSoFar, Accounting, Control, MainOK
<1>4. PICK owner \in [executed -> Worker] :
         /\ \A v \in Worker : explored[v] = Cardinality(Of(executed, owner, v))
         /\ result.explored = Cardinality(UpTo(executed, owner, collected))
  BY DEF Credited, Of, UpTo
<1> DEFINE owner2 == [i \in executed' |-> IF i = x THEN w ELSE owner[i]]
<1> HIDE DEF x
<1>5. owner2 \in [executed' -> Worker]
  BY <1>1
<1>6. ASSUME NEW v \in Worker \ {w} PROVE Of(executed', owner2, v) = Of(executed, owner, v)
  BY <1>1, <1>2 DEF Of
<1>7. Of(executed', owner2, w) = Of(executed, owner, w) \cup {x} /\ x \notin Of(executed, owner, w)
  BY <1>1, <1>2 DEF Of
<1>8. IsFiniteSet(executed') /\ IsFiniteSet(Of(executed, owner, w))
  BY <1>1, FS_AddElement, FS_Subset DEF Credited, Of
<1>9. Cardinality(Of(executed', owner2, w)) = explored[w] + 1
  BY <1>4, <1>7, <1>8, FS_AddElement
<1>10. explored \in [Worker -> Nat]
  BY DEF Accounting, Control, TypeOK
<1>11. \A v \in Worker : explored'[v] = Cardinality(Of(executed', owner2, v))
  BY <1>1, <1>4, <1>6, <1>9, <1>10
<1>12. UpTo(executed', owner2, 0) = {} /\ UpTo(executed, owner, 0) = {}
  BY <1>4, <1>5 DEF UpTo, Worker
<1>13. result'.explored = Cardinality(UpTo(executed', owner2, collected'))
  BY <1>1, <1>3, <1>4, <1>12 DEF mainVars
<1> HIDE DEF owner2
<1> QED
  BY <1>5, <1>8, <1>11, <1>13 DEF Credited, Of, UpTo

(* Adding a result takes its worker into the sum.                          *)
LEMMA CreditCollect ==
    ASSUME Accounting, Credited, CollectResult
    PROVE  Credited'
<1> DEFINE w == collected + 1
<1>1. /\ w \in Worker /\ collected' = w /\ collected \in Nat
  BY PoolAssumption DEF CollectResult, Accounting, Control, TypeOK, MainOK, Worker
<1>2. /\ UNCHANGED <<executed, explored>>
      /\ result'.explored = result.explored + explored[w]
  <2>1. result' = [status |-> IF status[w] # VE_OK THEN status[w] ELSE result.status,
                   explored |-> result.explored + explored[w]]
    BY <1>1 DEF CollectResult, Plus
  <2> QED
    BY <2>1 DEF CollectResult, driverVars
<1>3. PICK owner \in [executed -> Worker] :
         /\ \A v \in Worker : explored[v] = Cardinality(Of(executed, owner, v))
         /\ result.explored = Cardinality(UpTo(executed, owner, collected))
  BY DEF Credited, Of, UpTo
<1> DEFINE A == UpTo(executed, owner, collected)
<1> DEFINE B == Of(executed, owner, w)
<1>4. UpTo(executed, owner, w) = A \cup B
  BY <1>1, <1>3 DEF UpTo, Of, Worker
<1>5. A \cap B = {}
  BY <1>1 DEF UpTo, Of
<1>6. IsFiniteSet(A) /\ IsFiniteSet(B)
  BY FS_Subset DEF Credited, UpTo, Of
<1> HIDE DEF A, B
<1>7. Cardinality(A \cup B) = Cardinality(A) + Cardinality(B)
  <2>1. Cardinality(A \cup B) = Cardinality(A) + Cardinality(B) - Cardinality(A \cap B)
    BY <1>6, FS_Union
  <2>2. Cardinality(A \cap B) = 0
    BY <1>5, FS_EmptySet
  <2>3. Cardinality(A) \in Nat /\ Cardinality(B) \in Nat
    BY <1>6, FS_CardinalityType
  <2> QED
    BY <2>1, <2>2, <2>3
<1>8. result'.explored = Cardinality(UpTo(executed', owner, collected'))
  BY <1>1, <1>2, <1>3, <1>4, <1>7 DEF A, B
<1>9. \A v \in Worker : explored'[v] = Cardinality(Of(executed', owner, v))
  BY <1>2, <1>3
<1> HIDE DEF w
<1> QED
  BY <1>2, <1>3, <1>8, <1>9 DEF Credited, Of, UpTo

(* Every explored execution is in the books of one worker.                 *)
LEMMA CreditInvariant == Spec => []Credited
<1>1. Init => Credited
  <2> SUFFICES ASSUME Init PROVE Credited
    OBVIOUS
  <2>1. executed = {} /\ \A w \in Worker : explored[w] = 0
    BY DEF Init
  <2>2. result.explored = 0
    BY DEF Init
  <2> DEFINE owner == [i \in {} |-> 1]
  <2>3. owner \in [executed -> Worker]
    BY <2>1
  <2>4. IsFiniteSet({}) /\ Cardinality({}) = 0
    BY FS_EmptySet
  <2>5. \A w \in Worker : {i \in executed : owner[i] = w} = {}
    BY <2>1
  <2>6. {i \in executed : owner[i] <= collected} = {}
    BY <2>1
  <2> HIDE DEF owner
  <2> QED
    BY <2>1, <2>2, <2>3, <2>4, <2>5, <2>6 DEF Credited
<1>2. ASSUME Accounting, WorkInv, Credited, [Next]_vars PROVE Credited'
  <2>1. CASE \E w \in Worker : Run(w)
    BY <1>2, <2>1, CreditRun
  <2>2. CASE CollectResult
    BY <1>2, <2>2, CreditCollect
  <2>3. CASE Next /\ ~CollectResult /\ ~\E w \in Worker : Run(w)
    <3>1. UNCHANGED <<executed, explored, collected, result>>
      BY <2>3, QuietSteps
    <3> QED
      BY <1>2, <3>1 DEF Credited
  <2>4. CASE UNCHANGED vars
    BY <1>2, <2>4 DEF vars, driverVars, mainVars, Credited
  <2> QED
    BY <1>2, <2>1, <2>2, <2>3, <2>4
<1> QED
  BY <1>1, <1>2, AccountingInvariant, WorkInvariant, PTL DEF Spec

(* The number of executions verify() reports is the number there is,       *)
(* however they were spread over the drivers.                              *)
THEOREM TotalIsExact == Spec => []TotalExact
<1>1. ASSUME Accounting, WorkInv, Credited PROVE TotalExact
  <2> SUFFICES ASSUME Verdict = VE_OK PROVE result.explored = Cardinality(Item)
    BY DEF TotalExact
  <2>1. mainPc = "end" /\ result.status = VE_OK /\ collected = NumWorkers
    BY <1>1, PoolAssumption DEF Verdict, WorkInv, ResultSoFar
  <2>2. Exploration!Frontier = {}
    BY <1>1, <2>1, AllExplored DEF WorkInv, ResultSoFar, Worker
  <2>3. executed = Item
    <3>1. executed \subseteq Item
      BY <1>1 DEF Accounting, Control, TypeOK
    <3>2. Root \in executed /\ \A i \in Item \ {Root} : Parent[i] \in executed => i \in executed
      BY <2>2, PoolAssumption DEF Exploration!Frontier
    <3> QED
      BY <3>1, <3>2, TreeAssumption
  <2>4. PICK owner \in [executed -> Worker] :
           result.explored = Cardinality({i \in executed : owner[i] <= collected})
    BY <1>1 DEF Credited
  <2>5. {i \in executed : owner[i] <= collected} = executed
    BY <2>1, <2>4 DEF Worker
  <2> QED
    BY <2>3, <2>4, <2>5
<1> QED
  BY <1>1, AccountingInvariant, WorkInvariant, CreditInvariant, PTL
=============================================================================
