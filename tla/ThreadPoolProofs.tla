-------------------------- MODULE ThreadPoolProofs --------------------------
(***************************************************************************)
(* Proofs about ThreadPool for any number of workers and any revisit tree. *)
(***************************************************************************)
EXTENDS ThreadPool, FiniteSetTheorems, SequenceTheorems, TLAPS

(* The program points at which a worker has an item in its hands. *)
HandPc == {"explore", "running", "reporting", "halting", "submit", "push"}

(* A worker in submit()'s critical section owns stateMtx_. *)
MutexOK == \A w \in Worker : pc[w] \in {"push", "notify"} <=> mtx = w

ItemInHand == \A w \in Worker : pc[w] \in HandPc => item[w] \in Item

(* The constructor starts the workers in order, and all of them before     *)
(* waitForTasks() is called.                                               *)
MainOK ==
    /\ \A w \in Worker : pc[w] = "unborn" <=> w > spawned
    /\ mainPc = "submit" => spawned = 0
    /\ mainPc \notin {"submit", "spawn"} => spawned = NumWorkers
    /\ mainPc # "end" => collected < NumWorkers
    /\ mainPc \notin {"collect", "end"} => collected = 0

(* Everything but the counting. *)
Control == TypeOK /\ MutexOK /\ ItemInHand /\ MainOK

Accounting == Control /\ RemainingAccurate

(* Counting a set after a worker enters or leaves it. *)
LEMMA WorkerSets ==
    ASSUME NEW S \in SUBSET Worker, NEW w \in Worker
    PROVE  /\ IsFiniteSet(S)
           /\ Cardinality(S) \in Nat
           /\ w \notin S => Cardinality(S \cup {w}) = Cardinality(S) + 1
           /\ w \in S => /\ Cardinality(S) > 0
                         /\ Cardinality(S \ {w}) = Cardinality(S) - 1
<1>1. IsFiniteSet(Worker)
  BY FS_Interval, PoolAssumption DEF Worker
<1>2. IsFiniteSet(S)
  BY <1>1, FS_Subset
<1>3. Cardinality(S) \in Nat
  BY <1>2, FS_CardinalityType
<1>4. w \notin S => Cardinality(S \cup {w}) = Cardinality(S) + 1
  BY <1>2, FS_AddElement
<1>5. w \in S => Cardinality(S \ {w}) = Cardinality(S) - 1
  BY <1>2, FS_RemoveElement
<1>6. w \in S => Cardinality(S) > 0
  BY <1>2, <1>3, FS_EmptySet
<1> QED
  BY <1>2, <1>3, <1>4, <1>5, <1>6

(* What tryPop() leaves behind. *)
LEMMA PopBack ==
    ASSUME NEW q \in Seq(Item), q # <<>>
    PROVE  /\ Len(q) \in Nat /\ Len(q) > 0 /\ q[Len(q)] \in Item
           /\ SubSeq(q, 1, Len(q) - 1) \in Seq(Item)
           /\ Len(SubSeq(q, 1, Len(q) - 1)) = Len(q) - 1
           /\ \A k \in 1..(Len(q) - 1) : SubSeq(q, 1, Len(q) - 1)[k] = q[k]
<1>1. Len(q) \in Nat /\ Len(q) > 0
  OBVIOUS
<1>2. \A k \in 1..Len(q) : q[k] \in Item
  OBVIOUS
<1> DEFINE n == Len(q) - 1
<1>3. n \in Int /\ n >= 0 /\ \A k \in 1..n : q[k] \in Item
  BY <1>1, <1>2
<1> HIDE DEF n
<1>4. /\ SubSeq(q, 1, n) \in Seq(Item)
      /\ Len(SubSeq(q, 1, n)) = IF 1 <= n THEN n - 1 + 1 ELSE 0
      /\ \A k \in 1..(n - 1 + 1) : SubSeq(q, 1, n)[k] = q[1 + k - 1]
  BY <1>3, SubSeqProperties
<1>5. /\ Len(SubSeq(q, 1, n)) = n
      /\ \A k \in 1..n : SubSeq(q, 1, n)[k] = q[k]
  BY <1>3, <1>4
<1> QED
  BY <1>1, <1>2, <1>4, <1>5 DEF n

(* Queues and Booleans are left to steps of their own: the provers are     *)
(* better at them one at a time.                                           *)
LEMMA AccountingInit == Init => Accounting
<1> SUFFICES ASSUME Init PROVE Accounting
  OBVIOUS
<1>1. TypeOK
  <2>1. queue \in Seq(Item) /\ Len(queue) = 0
    BY DEF Init
  <2>2. drvHalt \in [Worker -> BOOLEAN] /\ poolHalt \in BOOLEAN
    BY DEF Init
  <2>3. /\ pc \in [Worker -> WorkerPc]
        /\ item \in [Worker -> Item \cup {NoItem}]
        /\ local \in [Worker -> SUBSET Item]
        /\ status \in [Worker -> Item \cup {VE_OK}]
        /\ explored \in [Worker -> Nat]
    BY DEF Init, WorkerPc
  <2>4. /\ mtx \in Worker \cup {Unlocked}
        /\ spawned \in 0..NumWorkers
        /\ mainPc \in MainPc
        /\ remaining \in Nat
        /\ executed \in SUBSET Item
        /\ collected \in 0..NumWorkers
        /\ result \in [status : Item \cup {VE_OK}, explored : Nat]
    BY PoolAssumption DEF Init, MainPc
  <2> QED
    BY <2>1, <2>2, <2>3, <2>4 DEF TypeOK
<1>2. MutexOK /\ ItemInHand /\ MainOK
  BY PoolAssumption
     DEF Init, MutexOK, ItemInHand, MainOK, Worker, Unlocked, HandPc
<1>3. RemainingAccurate
  <2>1. Active = {} /\ Pushing = {}
    BY DEF Init, Active, TaskPc, Pushing
  <2>2. Len(queue) = 0
    BY DEF Init
  <2>3. remaining = 0
    BY DEF Init
  <2>4. Cardinality({}) = 0
    BY FS_EmptySet
  <2> QED
    BY <2>1, <2>2, <2>3, <2>4 DEF RemainingAccurate
<1> QED
  BY <1>1, <1>2, <1>3 DEF Accounting, Control

(* notify_all moves waiting workers only, and no worker into or out of a   *)
(* task.                                                                   *)
LEMMA NotifyAllPc ==
    ASSUME pc \in [Worker -> WorkerPc]
    PROVE  /\ NotifyAll(pc) \in [Worker -> WorkerPc]
           /\ \A v \in Worker :
                NotifyAll(pc)[v] = IF pc[v] = "waiting" THEN "woken" ELSE pc[v]
  BY DEF NotifyAll, WorkerPc

(* A busy worker keeps remainingTasks_ away from 0. *)
LEMMA BusyMeansRemaining ==
    ASSUME Accounting, NEW w \in Active
    PROVE  remaining >= Len(queue) + 1
<1>1. Active \in SUBSET Worker /\ Pushing \in SUBSET Worker /\ w \in Worker
  BY DEF Active, Pushing
<1>2. Cardinality(Active) \in Nat /\ Cardinality(Active) > 0
  BY <1>1, WorkerSets
<1>3. Cardinality(Pushing) \in Nat
  BY <1>1, WorkerSets
<1>4. queue \in Seq(Item) /\ remaining \in Nat
  BY DEF Accounting, Control, TypeOK
<1> QED
  BY <1>2, <1>3, <1>4 DEF Accounting, RemainingAccurate

(* Every action keeps the control part.  Only FinishTask needs the count:  *)
(* it decrements remainingTasks_, which a busy worker keeps positive.      *)
LEMMA ControlStep ==
    ASSUME Accounting, Next
    PROVE  Control'
<1> USE PoolAssumption
    DEF Accounting, Control, TypeOK, MutexOK, ItemInHand, MainOK,
        MainPc, WorkerPc, HandPc, Worker, Unlocked, Goto,
        poolVars, driverVars, mainVars
<1>1. ASSUME NEW w \in Worker, PopNothing(w) PROVE Control'
  BY <1>1 DEF PopNothing
<1>2. ASSUME NEW w \in Worker, QuitOrWait(w) PROVE Control'
  BY <1>2 DEF QuitOrWait
<1>3. ASSUME NEW w \in Worker, SpuriousWakeup(w) PROVE Control'
  BY <1>3 DEF SpuriousWakeup
<1>4. ASSUME NEW w \in Worker, LeaveWait(w) PROVE Control'
  BY <1>4 DEF LeaveWait
<1>5. ASSUME NEW w \in Worker, ExploreTest(w) PROVE Control'
  BY <1>5 DEF ExploreTest
<1>6. ASSUME NEW w \in Worker, HaltDriver(w) PROVE Control'
  BY <1>6 DEF HaltDriver
<1>7. ASSUME NEW w \in Worker, HaltPool(w) PROVE Control'
  BY <1>7, NotifyAllPc DEF HaltPool
<1>8. ASSUME NEW w \in Worker, NextItem(w) PROVE Control'
  BY <1>8 DEF NextItem
<1>9. ASSUME NEW w \in Worker, NoMoreItems(w) PROVE Control'
  BY <1>9 DEF NoMoreItems
<1>10. ASSUME NEW w \in Worker, SubmitCount(w) PROVE Control'
  BY <1>10 DEF SubmitCount
<1>11. ASSUME NEW w \in Worker, SubmitPush(w) PROVE Control'
  BY <1>11 DEF SubmitPush
<1>12. ASSUME MainSubmit PROVE Control'
  BY <1>12 DEF MainSubmit
<1>13. ASSUME AddWorker PROVE Control'
  BY <1>13 DEF AddWorker
<1>14. ASSUME PoolBuilt PROVE Control'
  BY <1>14 DEF PoolBuilt
<1>15. ASSUME WaitForTasks PROVE Control'
  BY <1>15 DEF WaitForTasks
<1>16. ASSUME DestroyPool PROVE Control'
  BY <1>16, NotifyAllPc DEF DestroyPool
<1>17. ASSUME JoinWorkers PROVE Control'
  BY <1>17 DEF JoinWorkers
<1>18. ASSUME NEW w \in Worker, PopTask(w) PROVE Control'
  <2>1. queue[Len(queue)] \in Item /\ queue' \in Seq(Item)
    BY <1>18, PopBack DEF PopTask
  <2> QED
    BY <1>18, <2>1 DEF PopTask
<1>19. ASSUME NEW w \in Worker, FinishTask(w) PROVE Control'
  <2>1. remaining > 0
    BY <1>19, BusyMeansRemaining DEF FinishTask, Active, TaskPc
  <2>2. pc' \in [Worker -> WorkerPc]
    BY <1>19, NotifyAllPc DEF FinishTask
  <2>3. /\ pc'[w] \in {"done", "tryPop"}
        /\ \A v \in Worker \ {w} :
             pc'[v] = pc[v] \/ (pc[v] = "waiting" /\ pc'[v] = "woken")
    BY <1>19, NotifyAllPc DEF FinishTask
  <2>4. remaining' \in Nat
    BY <1>19, <2>1 DEF FinishTask
  <2>5. UNCHANGED <<queue, poolHalt, mtx, driverVars, mainVars>> /\ pc[w] = "finish"
    BY <1>19 DEF FinishTask
  <2>6. TypeOK'
    BY <2>2, <2>4, <2>5
  <2>7. (MutexOK /\ MainOK)'
    BY <2>3, <2>5
  <2>8. ItemInHand'
    BY <2>3, <2>5
  <2> QED
    BY <2>6, <2>7, <2>8
<1>20. ASSUME NEW w \in Worker, Run(w) PROVE Control'
  <2>1. local' \in [Worker -> SUBSET Item]
    BY <1>20 DEF Run, Children
  <2>2. pc' \in [Worker -> WorkerPc]
    BY <1>20 DEF Run
  <2>3. \A v \in Worker : IF v = w THEN pc'[v] \in {"reporting", "revisit"}
                                   ELSE pc'[v] = pc[v]
    BY <1>20 DEF Run
  <2>4. executed' \in SUBSET Item /\ explored' \in [Worker -> Nat] /\ pc[w] = "running"
    BY <1>20 DEF Run
  <2>5. UNCHANGED <<poolVars, item, drvHalt, status, mainVars>>
    BY <1>20 DEF Run
  <2> QED
    BY <2>1, <2>2, <2>3, <2>4, <2>5
<1>21. ASSUME NEW w \in Worker, SubmitNotify(w) PROVE Control'
  <2>1. pc' \in [Worker -> WorkerPc]
    BY <1>21 DEF SubmitNotify, Waiting
  <2>2. /\ pc'[w] = "revisit"
        /\ \A v \in Worker \ {w} :
             pc'[v] = pc[v] \/ (pc[v] = "waiting" /\ pc'[v] = "woken")
    <3>1. CASE pc' = [pc EXCEPT ![w] = "revisit"]
      BY <3>1
    <3>2. ASSUME NEW u \in Waiting,
                 pc' = [pc EXCEPT ![w] = "revisit", ![u] = "woken"]
          PROVE  <2>2!:
      <4>1. pc[w] = "notify" /\ pc[u] = "waiting" /\ u \in Worker
        BY <1>21 DEF SubmitNotify, Waiting
      <4> QED
        BY <3>2, <4>1
    <3> QED
      BY <1>21, <3>1, <3>2 DEF SubmitNotify
  <2>3. mtx' = Unlocked /\ mtx = w /\ pc[w] = "notify"
    BY <1>21 DEF SubmitNotify
  <2>4. UNCHANGED <<queue, remaining, poolHalt, driverVars, mainVars>>
    BY <1>21 DEF SubmitNotify
  <2>5. TypeOK'
    BY <2>1, <2>3, <2>4
  <2>6. MutexOK'
    BY <2>2, <2>3, <2>4
  <2>7. ItemInHand'
    BY <2>2, <2>4
  <2>8. MainOK'
    BY <2>2, <2>3, <2>4
  <2> QED
    BY <2>5, <2>6, <2>7, <2>8
<1>22. ASSUME CollectResult PROVE Control'
  BY <1>22 DEF CollectResult, Plus
<1>23. ASSUME UNCHANGED vars PROVE Control'
  BY <1>23 DEF vars
<1> QED
  BY <1>1, <1>2, <1>3, <1>4, <1>5, <1>6, <1>7, <1>8, <1>9, <1>10, <1>11, <1>12, <1>13, <1>14, <1>15, <1>16, <1>17, <1>18, <1>19, <1>20, <1>21, <1>22, <1>23
     DEF Next, MainStep, WorkerStep, Terminated

(* Where the counted sets change, and by how much. *)
LEMMA CountStep ==
    ASSUME Accounting, Next
    PROVE  RemainingAccurate'
<1> DEFINE Same == Active' = Active /\ Pushing' = Pushing
<1> USE DEF TaskPc, Goto
<1>t. TypeOK /\ RemainingAccurate
  BY DEF Accounting, Control
<1>p. pc \in [Worker -> WorkerPc] /\ queue \in Seq(Item) /\ remaining \in Nat
  BY <1>t DEF TypeOK
<1>s. /\ Active \in SUBSET Worker /\ Pushing \in SUBSET Worker
      /\ Cardinality(Active) \in Nat /\ Cardinality(Pushing) \in Nat
  <2>1. 1 \in Worker
    BY PoolAssumption DEF Worker
  <2>2. Active \in SUBSET Worker /\ Pushing \in SUBSET Worker
    BY DEF Active, Pushing
  <2> QED
    BY <2>1, <2>2, WorkerSets
<1>q. ASSUME Same, UNCHANGED <<queue, remaining>>
      PROVE  RemainingAccurate'
  BY <1>t, <1>q DEF RemainingAccurate
<1>1. ASSUME NEW w \in Worker, PopNothing(w) PROVE RemainingAccurate'
  <2>1. Same
    BY <1>p, <1>1 DEF PopNothing, Active, Pushing
  <2> QED
    BY <1>1, <1>q, <2>1 DEF PopNothing, poolVars
<1>2. ASSUME NEW w \in Worker, QuitOrWait(w) PROVE RemainingAccurate'
  <2>1. Same
    BY <1>p, <1>2 DEF QuitOrWait, Active, Pushing
  <2> QED
    BY <1>2, <1>q, <2>1 DEF QuitOrWait, poolVars
<1>3. ASSUME NEW w \in Worker, SpuriousWakeup(w) PROVE RemainingAccurate'
  <2>1. Same
    BY <1>p, <1>3 DEF SpuriousWakeup, Active, Pushing
  <2> QED
    BY <1>3, <1>q, <2>1 DEF SpuriousWakeup, poolVars
<1>4. ASSUME NEW w \in Worker, LeaveWait(w) PROVE RemainingAccurate'
  <2>1. Same
    BY <1>p, <1>4 DEF LeaveWait, Active, Pushing
  <2> QED
    BY <1>4, <1>q, <2>1 DEF LeaveWait, poolVars
<1>5. ASSUME NEW w \in Worker, ExploreTest(w) PROVE RemainingAccurate'
  <2>1. Same
    BY <1>p, <1>5 DEF ExploreTest, Active, Pushing
  <2> QED
    BY <1>5, <1>q, <2>1 DEF ExploreTest, poolVars
<1>6. ASSUME NEW w \in Worker, Run(w) PROVE RemainingAccurate'
  <2>1. Same
    BY <1>p, <1>6 DEF Run, Active, Pushing
  <2> QED
    BY <1>6, <1>q, <2>1 DEF Run, poolVars
<1>7. ASSUME NEW w \in Worker, HaltDriver(w) PROVE RemainingAccurate'
  <2>1. Same
    BY <1>p, <1>7 DEF HaltDriver, Active, Pushing
  <2> QED
    BY <1>7, <1>q, <2>1 DEF HaltDriver, poolVars
<1>8. ASSUME NEW w \in Worker, HaltPool(w) PROVE RemainingAccurate'
  <2>1. Same
    BY <1>p, <1>8, NotifyAllPc DEF HaltPool, Active, Pushing
  <2> QED
    BY <1>8, <1>q, <2>1 DEF HaltPool, poolVars
<1>9. ASSUME NEW w \in Worker, NextItem(w) PROVE RemainingAccurate'
  <2>1. Same
    BY <1>p, <1>9 DEF NextItem, Active, Pushing
  <2> QED
    BY <1>9, <1>q, <2>1 DEF NextItem, poolVars
<1>10. ASSUME NEW w \in Worker, NoMoreItems(w) PROVE RemainingAccurate'
  <2>1. Same
    BY <1>p, <1>10 DEF NoMoreItems, Active, Pushing
  <2> QED
    BY <1>10, <1>q, <2>1 DEF NoMoreItems, poolVars
<1>11. ASSUME PoolBuilt PROVE RemainingAccurate'
  <2>1. Same
    BY <1>p, <1>11 DEF PoolBuilt, Active, Pushing
  <2> QED
    BY <1>11, <1>q, <2>1 DEF PoolBuilt, poolVars
<1>12. ASSUME WaitForTasks PROVE RemainingAccurate'
  <2>1. Same
    BY <1>p, <1>12 DEF WaitForTasks, Active, Pushing
  <2> QED
    BY <1>12, <1>q, <2>1 DEF WaitForTasks, poolVars
<1>13. ASSUME DestroyPool PROVE RemainingAccurate'
  <2>1. Same
    BY <1>p, <1>13, NotifyAllPc DEF DestroyPool, Active, Pushing
  <2> QED
    BY <1>13, <1>q, <2>1 DEF DestroyPool, poolVars
<1>14. ASSUME JoinWorkers PROVE RemainingAccurate'
  <2>1. Same
    BY <1>p, <1>14 DEF JoinWorkers, Active, Pushing
  <2> QED
    BY <1>14, <1>q, <2>1 DEF JoinWorkers, poolVars
<1>15. ASSUME CollectResult PROVE RemainingAccurate'
  <2>1. Same
    BY <1>p, <1>15 DEF CollectResult, Active, Pushing
  <2> QED
    BY <1>15, <1>q, <2>1 DEF CollectResult, poolVars
<1>16. ASSUME AddWorker PROVE RemainingAccurate'
  <2>1. spawned + 1 \in Worker /\ pc[spawned + 1] = "unborn"
    BY <1>16, PoolAssumption DEF AddWorker, Accounting, Control, TypeOK, MainOK, Worker
  <2>2. Same
    BY <1>p, <1>16, <2>1 DEF AddWorker, Active, Pushing
  <2> QED
    BY <1>16, <1>q, <2>2 DEF AddWorker, poolVars
<1>17. ASSUME NEW w \in Worker, SubmitNotify(w) PROVE RemainingAccurate'
  <2>1. Same
    <3>1. CASE pc' = [pc EXCEPT ![w] = "revisit"]
      BY <1>p, <1>17, <3>1 DEF SubmitNotify, Active, Pushing
    <3>2. ASSUME NEW u \in Waiting,
                 pc' = [pc EXCEPT ![w] = "revisit", ![u] = "woken"]
          PROVE  Same
      BY <1>p, <1>17, <3>2 DEF SubmitNotify, Waiting, Active, Pushing
    <3> QED
      BY <1>17, <3>1, <3>2 DEF SubmitNotify
  <2> QED
    BY <1>17, <1>q, <2>1 DEF SubmitNotify
<1>18. ASSUME NEW w \in Worker, PopTask(w) PROVE RemainingAccurate'
  <2>1. w \notin Active /\ Active' = Active \cup {w} /\ Pushing' = Pushing
    BY <1>p, <1>18 DEF PopTask, Active, Pushing
  <2>2. Len(queue') = Len(queue) - 1 /\ Len(queue) \in Nat /\ remaining' = remaining
    BY <1>p, <1>18, PopBack DEF PopTask
  <2>3. Cardinality(Active') = Cardinality(Active) + 1
    BY <1>s, <2>1, WorkerSets
  <2> QED
    BY <1>p, <1>s, <1>t, <2>1, <2>2, <2>3 DEF RemainingAccurate
<1>19. ASSUME NEW w \in Worker, FinishTask(w) PROVE RemainingAccurate'
  <2>1. w \in Active /\ Active' = Active \ {w} /\ Pushing' = Pushing
    BY <1>p, <1>19, NotifyAllPc DEF FinishTask, Active, Pushing
  <2>2. queue' = queue /\ remaining' = remaining - 1 /\ Len(queue) \in Nat
    BY <1>p, <1>19 DEF FinishTask
  <2>3. Cardinality(Active') = Cardinality(Active) - 1
    BY <1>s, <2>1, WorkerSets
  <2> QED
    BY <1>p, <1>s, <1>t, <2>1, <2>2, <2>3 DEF RemainingAccurate
<1>20. ASSUME NEW w \in Worker, SubmitCount(w) PROVE RemainingAccurate'
  <2>1. w \notin Pushing /\ Pushing' = Pushing \cup {w} /\ Active' = Active
    BY <1>p, <1>20 DEF SubmitCount, Active, Pushing
  <2>2. queue' = queue /\ remaining' = remaining + 1 /\ Len(queue) \in Nat
    BY <1>p, <1>20 DEF SubmitCount
  <2>3. Cardinality(Pushing') = Cardinality(Pushing) + 1
    BY <1>s, <2>1, WorkerSets
  <2> QED
    BY <1>p, <1>s, <1>t, <2>1, <2>2, <2>3 DEF RemainingAccurate
<1>21. ASSUME NEW w \in Worker, SubmitPush(w) PROVE RemainingAccurate'
  <2>1. w \in Pushing /\ Pushing' = Pushing \ {w} /\ Active' = Active
    BY <1>p, <1>21 DEF SubmitPush, Active, Pushing
  <2>2. Len(queue') = Len(queue) + 1 /\ remaining' = remaining /\ Len(queue) \in Nat
    BY <1>p, <1>21 DEF SubmitPush
  <2>3. Cardinality(Pushing') = Cardinality(Pushing) - 1
    BY <1>s, <2>1, WorkerSets
  <2> QED
    BY <1>p, <1>s, <1>t, <2>1, <2>2, <2>3 DEF RemainingAccurate
<1>22. ASSUME MainSubmit PROVE RemainingAccurate'
  <2>1. Active' = Active /\ Pushing' = Pushing
    BY <1>p, <1>22 DEF MainSubmit, Active, Pushing
  <2>2. Len(queue') = Len(queue) + 1 /\ remaining' = remaining + 1 /\ Len(queue) \in Nat
    BY <1>p, <1>22, PoolAssumption DEF MainSubmit
  <2> QED
    BY <1>p, <1>s, <1>t, <2>1, <2>2 DEF RemainingAccurate
<1>23. ASSUME UNCHANGED vars PROVE RemainingAccurate'
  <2>1. Same
    BY <1>23 DEF vars, Active, Pushing
  <2> QED
    BY <1>23, <1>q, <2>1 DEF vars, poolVars
<1> QED
  BY <1>1, <1>2, <1>3, <1>4, <1>5, <1>6, <1>7, <1>8, <1>9, <1>10, <1>11, <1>12, <1>13, <1>14, <1>15, <1>16, <1>17, <1>18, <1>19, <1>20, <1>21, <1>22, <1>23
     DEF Next, MainStep, WorkerStep, Terminated

(* The inductive invariant: control state and task count together. *)
LEMMA AccountingInvariant == Spec => []Accounting
<1>1. Accounting /\ UNCHANGED vars => Accounting'
  BY DEF Accounting, Control, TypeOK, MutexOK, ItemInHand, MainOK,
         RemainingAccurate, Active, Pushing, vars, poolVars, driverVars, mainVars
<1>2. Accounting /\ [Next]_vars => Accounting'
  BY <1>1, ControlStep, CountStep DEF Accounting
<1> QED
  BY AccountingInit, <1>2, PTL DEF Spec

(* Every variable of the pool stays within its type; in particular the     *)
(* unsigned counter remainingTasks_ never wraps around.                    *)
THEOREM TypeCorrect == Spec => []TypeOK
  BY AccountingInvariant, PTL DEF Accounting, Control

(* remainingTasks_ always equals the number of queued, announced and       *)
(* running tasks.                                                          *)
THEOREM RemainingIsAccurate == Spec => []RemainingAccurate
  BY AccountingInvariant, PTL DEF Accounting

(* With nothing left to count there is nothing left to do. *)
LEMMA ZeroMeansIdle ==
    ASSUME Accounting, remaining = 0
    PROVE  queue = <<>> /\ Active = {}
<1>1. queue \in Seq(Item)
  BY DEF Accounting, Control, TypeOK
<1>2. Active = {}
  <2> SUFFICES ASSUME NEW w \in Active PROVE FALSE
    OBVIOUS
  <2> QED
    BY <1>1, BusyMeansRemaining
<1>3. Cardinality(Active) = 0
  BY <1>2, FS_EmptySet
<1>4. Cardinality(Pushing) \in Nat
  <2>1. Pushing \in SUBSET Worker /\ 1 \in Worker
    BY PoolAssumption DEF Pushing, Worker
  <2> QED
    BY <2>1, WorkerSets
<1>5. Len(queue) = 0
  BY <1>1, <1>3, <1>4 DEF Accounting, RemainingAccurate
<1> QED
  BY <1>1, <1>2, <1>5

(* The part of NoEarlyExit that is inductive beside the accounting. *)
DoneMeansZero == (\E w \in Worker : pc[w] = "done") /\ ~poolHalt => remaining = 0

(* A worker becomes done only where it has seen the halt or the count at   *)
(* 0, shouldHalt_ is never reset, and only a busy worker, or verify()      *)
(* before there are workers, changes the count.                            *)
LEMMA DoneStep ==
    ASSUME Accounting, DoneMeansZero, Next
    PROVE  DoneMeansZero'
<1> DEFINE Quiet == /\ remaining' = remaining
                    /\ poolHalt => poolHalt'
                    /\ \A v \in Worker : pc'[v] = "done" => pc[v] = "done"
<1> USE DEF Goto, poolVars
<1>p. pc \in [Worker -> WorkerPc] /\ queue \in Seq(Item) /\ remaining \in Nat
  BY DEF Accounting, Control, TypeOK
<1>q. ASSUME Quiet PROVE DoneMeansZero'
  BY <1>q DEF DoneMeansZero
<1>b. ASSUME NEW w \in Worker, pc[w] \in TaskPc PROVE remaining # 0
  <2>1. w \in Active
    BY <1>b DEF Active
  <2> QED
    BY <1>p, <2>1, BusyMeansRemaining
<1>1. ASSUME NEW w \in Worker,
             \/ PopTask(w) \/ PopNothing(w) \/ SpuriousWakeup(w) \/ LeaveWait(w)
      PROVE  Quiet
  BY <1>p, <1>1 DEF PopTask, PopNothing, SpuriousWakeup, LeaveWait
<1>2. ASSUME NEW w \in Worker,
             \/ ExploreTest(w) \/ Run(w) \/ HaltDriver(w) \/ NextItem(w)
             \/ NoMoreItems(w) \/ SubmitPush(w)
      PROVE  Quiet
  BY <1>p, <1>2 DEF ExploreTest, Run, HaltDriver, NextItem, NoMoreItems, SubmitPush
<1>3. ASSUME NEW w \in Worker, HaltPool(w) PROVE Quiet
  BY <1>p, <1>3, NotifyAllPc DEF HaltPool
<1>4. ASSUME NEW w \in Worker, SubmitNotify(w) PROVE Quiet
  BY <1>p, <1>4 DEF SubmitNotify, Waiting
<1>5. ASSUME PoolBuilt \/ WaitForTasks \/ JoinWorkers \/ CollectResult PROVE Quiet
  BY <1>5 DEF PoolBuilt, WaitForTasks, JoinWorkers, CollectResult
<1>6. ASSUME AddWorker PROVE Quiet
  BY <1>p, <1>6 DEF AddWorker
<1>7. ASSUME DestroyPool PROVE Quiet
  BY <1>p, <1>7, NotifyAllPc DEF DestroyPool
<1>8. ASSUME UNCHANGED vars PROVE Quiet
  BY <1>8 DEF vars
<1>9. ASSUME NEW w \in Worker, QuitOrWait(w) PROVE DoneMeansZero'
  <2>1. remaining' = remaining /\ (poolHalt' <=> poolHalt)
    BY <1>9 DEF QuitOrWait
  <2>2. pc'[w] = "done" => poolHalt \/ remaining = 0
    BY <1>p, <1>9 DEF QuitOrWait
  <2>3. \A v \in Worker \ {w} : pc'[v] = pc[v]
    BY <1>p, <1>9 DEF QuitOrWait
  <2> QED
    BY <2>1, <2>2, <2>3 DEF DoneMeansZero
<1>10. ASSUME NEW w \in Worker, FinishTask(w) PROVE DoneMeansZero'
  <2>1. remaining # 0
    BY <1>10, <1>b DEF FinishTask, TaskPc
  <2>2. (poolHalt' <=> poolHalt) /\ pc[w] = "finish"
    BY <1>10 DEF FinishTask
  <2>3. remaining' # 0 => \A v \in Worker : pc'[v] = "done" => pc[v] = "done"
    BY <1>p, <1>10 DEF FinishTask
  <2> QED
    BY <2>1, <2>2, <2>3 DEF DoneMeansZero
<1>11. ASSUME NEW w \in Worker, SubmitCount(w) PROVE DoneMeansZero'
  <2>1. remaining # 0
    BY <1>11, <1>b DEF SubmitCount, TaskPc
  <2>2. poolHalt' <=> poolHalt
    BY <1>11 DEF SubmitCount
  <2>3. \A v \in Worker : pc'[v] = "done" => pc[v] = "done"
    BY <1>p, <1>11 DEF SubmitCount
  <2> QED
    BY <2>1, <2>2, <2>3 DEF DoneMeansZero
<1>12. ASSUME MainSubmit PROVE DoneMeansZero'
  <2>1. \A w \in Worker : pc'[w] = "unborn"
    BY <1>12, PoolAssumption DEF MainSubmit, Accounting, Control, MainOK, Worker
  <2> QED
    BY <2>1 DEF DoneMeansZero
<1> QED
  BY <1>1, <1>2, <1>3, <1>4, <1>5, <1>6, <1>7, <1>8, <1>9, <1>10, <1>11, <1>12, <1>q
     DEF Next, MainStep, WorkerStep, Terminated

(* No worker leaves its loop while the pool still has work for it: the     *)
(* count popTask() checks is 0 only when nothing is queued or running, and *)
(* stays 0 from then on.                                                   *)
THEOREM NoWorkerLeavesEarly == Spec => []NoEarlyExit
<1>1. Init => DoneMeansZero
  BY DEF Init, DoneMeansZero
<1>2. Accounting /\ DoneMeansZero /\ [Next]_vars => DoneMeansZero'
  <2>1. DoneMeansZero /\ UNCHANGED vars => DoneMeansZero'
    BY DEF DoneMeansZero, vars, poolVars
  <2> QED
    BY <2>1, DoneStep
<1>3. Accounting /\ DoneMeansZero => NoEarlyExit
  BY ZeroMeansIdle DEF NoEarlyExit, DoneMeansZero
<1> QED
  BY AccountingInvariant, <1>1, <1>2, <1>3, PTL DEF Spec
=============================================================================
