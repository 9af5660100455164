-------------------------- MODULE ThreadPoolProofs --------------------------
(***************************************************************************)
(* Proofs about ThreadPool, for any number of workers (at least two) and   *)
(* any set of tasks, endless ones and spurious wakeups included.           *)
(*                                                                         *)
(* That the destructor leaves no task behind needs more than the exit test *)
(* of one worker: a task may be submitted while the pool is being          *)
(* destroyed.  It is its submitter, a worker that has not left yet, that   *)
(* makes sure somebody looks at the queue again (DrainInv).                *)
(***************************************************************************)
EXTENDS ThreadPool, TLAPS

\* A worker between acquiring and releasing tasks_mtx_ holds it.
MutexInv == \A w \in Workers : pc[w] \in {"check", "block", "take"} => mtx = w

\* Only blocked workers are in the wait set.
WaitInv == \A w \in waiters : pc[w] = "waiting"

\* The stages of addTask, of a running task and of the destructor.
StageInv ==
    /\ \A h \in Threads : addPc[h] # "push" <=> adding[h] = None
    /\ \A w \in Workers : /\ pc[w] # "run" <=> running[w] = None
                          /\ addPc[w] # "idle" => pc[w] = "run"
                          /\ pc[w] = "done" => stop
    /\ stop <=> ownerPc # "use"
    /\ stop => addPc[Owner] = "idle"
    /\ ownerPc = "destroyed" => \A w \in Workers : pc[w] = "done"

\* Where a task is, one place at a time.
TaskInv ==
    /\ NoTaskLostOrDuplicated
    /\ \A g, h \in Threads : adding[g] = adding[h] /\ adding[g] # None => g = h
    /\ Adding \cap (Queued \cup Running \cup finished) = {}

\* A pool that all workers have left has an empty queue.
DrainInv == (\A w \in Workers : pc[w] = "done") => tasks = <<>>

IInv ==
    /\ TypeOK
    /\ MutexInv
    /\ WaitInv
    /\ NoPopOfEmptyQueue
    /\ StageInv
    /\ TaskInv
    /\ DrainInv
----------------------------------------------------------------------------
USE PoolAssumption, MinThreads
USE DEF Threads, WorkerPcs, workerVars, addVars

\* Steps that move no task keep TaskInv.
LEMMA TaskFrame ==
    ASSUME TaskInv, UNCHANGED <<tasks, running, adding, submitted, rejected, finished>>
    PROVE  TaskInv'
<1>1. Queued' = Queued /\ Adding' = Adding /\ Running' = Running
  BY DEF Queued, Adding, Running
<1>. QED
  BY <1>1 DEF TaskInv, NoTaskLostOrDuplicated

\* addTask on a stopped pool: the task is refused and goes nowhere.
LEMMA AddRefusedStep ==
    ASSUME NEW h \in Threads, IInv, AddRefused(h)
    PROVE  IInv'
<1>1. PICK t \in Tasks \ submitted : /\ submitted' = submitted \cup {t}
                                     /\ rejected' = rejected \cup {t}
  BY DEF AddRefused
<1>2. Queued' = Queued /\ Adding' = Adding /\ Running' = Running
  BY DEF AddRefused, Queued, Adding, Running
<1>3. UNCHANGED <<tasks, running, adding, finished>>
  BY DEF AddRefused
<1>4. TaskInv'
  BY <1>1, <1>2, <1>3 DEF IInv, TaskInv, NoTaskLostOrDuplicated
<1>5. TypeOK' /\ MutexInv' /\ WaitInv' /\ NoPopOfEmptyQueue' /\ StageInv' /\ DrainInv'
  BY DEF IInv, TypeOK, MutexInv, WaitInv, NoPopOfEmptyQueue, StageInv, DrainInv, AddRefused
<1>. QED
  BY <1>4, <1>5 DEF IInv

\* addTask has passed the check of stop_: the task is in the caller's hands.
LEMMA AddCheckStep ==
    ASSUME NEW h \in Threads, IInv, AddCheck(h)
    PROVE  IInv'
<1>1. PICK t \in Tasks \ submitted : /\ submitted' = submitted \cup {t}
                                     /\ adding' = [adding EXCEPT ![h] = t]
  BY DEF AddCheck
<1>2. adding[h] = None /\ t # None
  BY DEF IInv, StageInv, AddCheck, MayAdd
<1>3. \A g \in Threads : adding'[g] = IF g = h THEN t ELSE adding[g]
  BY <1>1 DEF IInv, TypeOK
<1>4. Adding' = Adding \cup {t} /\ Queued' = Queued /\ Running' = Running
  BY <1>2, <1>3 DEF AddCheck, Queued, Adding, Running
<1>5. UNCHANGED <<tasks, running, rejected, finished>>
  BY DEF AddCheck
<1>6. t \notin Adding \cup Queued \cup Running \cup finished
  BY DEF IInv, TaskInv, NoTaskLostOrDuplicated
<1>7. \A g \in Threads : adding[g] # t
  BY <1>2, <1>6 DEF Adding
<1>8. TaskInv'
  BY <1>1, <1>3, <1>4, <1>5, <1>6, <1>7 DEF IInv, TaskInv, NoTaskLostOrDuplicated
<1>9. TypeOK' /\ MutexInv' /\ WaitInv' /\ NoPopOfEmptyQueue' /\ DrainInv'
  BY DEF IInv, TypeOK, MutexInv, WaitInv, NoPopOfEmptyQueue, DrainInv, AddCheck
<1>10. StageInv'
  BY DEF IInv, TypeOK, StageInv, AddCheck, MayAdd
<1>. QED
  BY <1>8, <1>9, <1>10 DEF IInv

\* The task moves from its submitter to the end of the queue.  The submitter is
\* the owner of a pool in use or a running worker, so not all workers have left.
LEMMA AddPushStep ==
    ASSUME NEW h \in Threads, IInv, AddPush(h)
    PROVE  IInv'
<1> DEFINE t == adding[h]
<1>1. t \in Tasks /\ t # None
  BY DEF IInv, TypeOK, StageInv, AddPush
<1>2. /\ tasks \in Seq(Tasks) /\ tasks' = Append(tasks, t)
      /\ adding' = [adding EXCEPT ![h] = None]
      /\ UNCHANGED <<running, submitted, rejected, finished>>
  BY DEF IInv, TypeOK, AddPush
<1>3. /\ Len(tasks) \in Nat /\ DOMAIN tasks = 1 .. Len(tasks)
      /\ DOMAIN tasks' = 1 .. Len(tasks) + 1
      /\ tasks'[Len(tasks) + 1] = t
      /\ \A i \in 1 .. Len(tasks) : tasks'[i] = tasks[i]
  BY <1>1, <1>2
<1>4. Queued' = Queued \cup {t}
  BY <1>3 DEF Queued
<1>5. \A g \in Threads : adding'[g] = IF g = h THEN None ELSE adding[g]
  BY <1>2 DEF IInv, TypeOK
<1>6. \A g \in Threads : adding[g] = t => g = h
  BY <1>1 DEF IInv, TaskInv
<1>7. Adding' = Adding \ {t} /\ t \in Adding /\ Running' = Running
  BY <1>1, <1>2, <1>5, <1>6 DEF Adding, Running
<1>8. t \notin Queued \cup Running \cup finished
  BY <1>7 DEF IInv, TaskInv
<1>9. \A i \in 1 .. Len(tasks) : tasks[i] # t
  BY <1>3, <1>8 DEF Queued
<1>10. TaskInv'
  <2>1. submitted' = rejected' \cup Adding' \cup Queued' \cup Running' \cup finished'
    BY <1>2, <1>4, <1>7 DEF IInv, TaskInv, NoTaskLostOrDuplicated
  <2>2. \A i, j \in DOMAIN tasks' : tasks'[i] = tasks'[j] => i = j
    BY <1>3, <1>9 DEF IInv, TaskInv, NoTaskLostOrDuplicated
  <2>3. \A f, g \in Threads : adding'[f] = adding'[g] /\ adding'[f] # None => f = g
    BY <1>5 DEF IInv, TaskInv
  <2>. QED
    BY <1>2, <1>4, <1>7, <1>8, <2>1, <2>2, <2>3 DEF IInv, TaskInv, NoTaskLostOrDuplicated
<1>11. TypeOK' /\ MutexInv' /\ WaitInv'
  BY <1>1 DEF IInv, TypeOK, MutexInv, WaitInv, AddPush
<1>12. NoPopOfEmptyQueue' /\ StageInv'
  BY DEF IInv, TypeOK, NoPopOfEmptyQueue, StageInv, AddPush
<1>13. DrainInv'
  BY DEF IInv, TypeOK, StageInv, DrainInv, AddPush
<1>. QED
  BY <1>10, <1>11, <1>12, <1>13 DEF IInv

\* A worker takes the front of the queue, which its check or its mutex has
\* kept from being empty.
LEMMA TakeStep ==
    ASSUME NEW w \in Workers, IInv, Take(w)
    PROVE  IInv'
<1> DEFINE t == Head(tasks)
<1>1. tasks \in Seq(Tasks) /\ tasks # <<>> /\ mtx = w /\ running[w] = None
  BY DEF IInv, TypeOK, MutexInv, NoPopOfEmptyQueue, StageInv, Take
<1>2. /\ tasks' = Tail(tasks)
      /\ running' = [running EXCEPT ![w] = t]
      /\ UNCHANGED <<adding, submitted, rejected, finished>>
  BY DEF Take
<1>3. /\ t \in Tasks /\ t = tasks[1] /\ t # None
      /\ Len(tasks) \in Nat \ {0} /\ DOMAIN tasks = 1 .. Len(tasks)
      /\ DOMAIN tasks' = 1 .. Len(tasks) - 1
      /\ \A i \in 1 .. Len(tasks) - 1 : tasks'[i] = tasks[i + 1]
  BY <1>1, <1>2
<1>4. \A i \in DOMAIN tasks : tasks[i] = t => i = 1
  BY <1>3 DEF IInv, TaskInv, NoTaskLostOrDuplicated
<1>5. Queued' = Queued \ {t} /\ t \in Queued
  <2>1. ASSUME NEW x \in Queued' PROVE x \in Queued \ {t}
    BY <1>3, <1>4, <2>1 DEF Queued
  <2>2. ASSUME NEW x \in Queued \ {t} PROVE x \in Queued'
    <3>1. PICK i \in DOMAIN tasks : x = tasks[i]
      BY DEF Queued
    <3>2. i # 1 /\ i - 1 \in DOMAIN tasks' /\ tasks'[i - 1] = x
      BY <1>3, <3>1
    <3>. QED
      BY <3>2 DEF Queued
  <2>3. t \in Queued
    <3>1. 1 \in DOMAIN tasks
      BY <1>3
    <3>. QED
      BY <1>3, <3>1 DEF Queued
  <2>. QED
    BY <2>1, <2>2, <2>3
<1>6. \A v \in Workers : running'[v] = IF v = w THEN t ELSE running[v]
  BY <1>2 DEF IInv, TypeOK
<1>7. Running' = Running \cup {t} /\ Adding' = Adding
  BY <1>1, <1>2, <1>3, <1>6 DEF Running, Adding
<1>8. t \notin Running \cup finished \cup Adding
  BY <1>5 DEF IInv, TaskInv, NoTaskLostOrDuplicated
<1>9. TaskInv'
  <2>1. submitted' = rejected' \cup Adding' \cup Queued' \cup Running' \cup finished'
    BY <1>2, <1>5, <1>7 DEF IInv, TaskInv, NoTaskLostOrDuplicated
  <2>2. ASSUME NEW i \in DOMAIN tasks', NEW j \in DOMAIN tasks', tasks'[i] = tasks'[j]
        PROVE  i = j
    <3>1. i + 1 \in DOMAIN tasks /\ j + 1 \in DOMAIN tasks /\ tasks[i + 1] = tasks[j + 1]
      BY <1>3, <2>2
    <3>2. i + 1 = j + 1
      BY <3>1 DEF IInv, TaskInv, NoTaskLostOrDuplicated
    <3>. QED
      BY <1>3, <3>2
  <2>3. \A v \in Workers : running[v] # t
    BY <1>3, <1>8 DEF Running
  <2>4. \A u, v \in Workers : running'[u] = running'[v] /\ running'[u] # None => u = v
    BY <1>6, <2>3 DEF IInv, TaskInv, NoTaskLostOrDuplicated
  <2>. QED
    BY <1>2, <1>5, <1>7, <1>8, <2>1, <2>2, <2>4 DEF IInv, TaskInv, NoTaskLostOrDuplicated
<1>10. TypeOK'
  BY <1>1, <1>2, <1>3 DEF IInv, TypeOK, Take
<1>11. MutexInv' /\ WaitInv' /\ NoPopOfEmptyQueue'
  BY <1>1 DEF IInv, TypeOK, MutexInv, WaitInv, NoPopOfEmptyQueue, Take
<1>12. StageInv' /\ DrainInv'
  BY <1>3 DEF IInv, TypeOK, StageInv, DrainInv, Take
<1>. QED
  BY <1>9, <1>10, <1>11, <1>12 DEF IInv

\* The task that has run is finished.
LEMMA FinishStep ==
    ASSUME NEW w \in Workers, IInv, Finish(w)
    PROVE  IInv'
<1> DEFINE t == running[w]
<1>1. t \in Tasks /\ t # None
  BY DEF IInv, TypeOK, StageInv, Finish
<1>2. /\ finished' = finished \cup {t}
      /\ running' = [running EXCEPT ![w] = None]
      /\ UNCHANGED <<tasks, adding, submitted, rejected>>
  BY DEF Finish
<1>3. \A v \in Workers : running'[v] = IF v = w THEN None ELSE running[v]
  BY <1>2 DEF IInv, TypeOK
<1>4. \A v \in Workers : running[v] = t => v = w
  BY <1>1 DEF IInv, TaskInv, NoTaskLostOrDuplicated
<1>5. Running' = Running \ {t} /\ t \in Running /\ Queued' = Queued /\ Adding' = Adding
  BY <1>1, <1>2, <1>3, <1>4 DEF Running, Queued, Adding
<1>6. TaskInv'
  <2>1. submitted' = rejected' \cup Adding' \cup Queued' \cup Running' \cup finished'
    BY <1>2, <1>5 DEF IInv, TaskInv, NoTaskLostOrDuplicated
  <2>2. \A u, v \in Workers : running'[u] = running'[v] /\ running'[u] # None => u = v
    BY <1>3 DEF IInv, TaskInv, NoTaskLostOrDuplicated
  <2>. QED
    BY <1>2, <1>5, <2>1, <2>2 DEF IInv, TaskInv, NoTaskLostOrDuplicated
<1>7. TypeOK' /\ MutexInv' /\ WaitInv' /\ NoPopOfEmptyQueue'
  BY <1>1 DEF IInv, TypeOK, MutexInv, WaitInv, NoPopOfEmptyQueue, Finish
<1>8. StageInv' /\ DrainInv'
  BY DEF IInv, TypeOK, StageInv, DrainInv, Finish
<1>. QED
  BY <1>6, <1>7, <1>8 DEF IInv

\* The steps of a worker that move no task.
LEMMA WorkerControlStep ==
    ASSUME NEW w \in Workers, IInv,
           Lock(w) \/ Check(w) \/ Block(w) \/ Wakeup(w) \/ Exit(w)
    PROVE  IInv'
<1>1. TaskInv'
  BY TaskFrame DEF IInv, Lock, Check, Block, Wakeup, Exit
<1>2. TypeOK' /\ MutexInv'
  BY DEF IInv, TypeOK, MutexInv, Lock, Check, Block, Wakeup, Exit
<1>3. WaitInv' /\ NoPopOfEmptyQueue'
  BY DEF IInv, TypeOK, WaitInv, NoPopOfEmptyQueue, Lock, Check, Block, Wakeup, Exit
<1>4. StageInv'
  BY DEF IInv, TypeOK, StageInv, Lock, Check, Block, Wakeup, Exit
<1>5. DrainInv'
  BY DEF IInv, TypeOK, DrainInv, Lock, Check, Block, Wakeup, Exit
<1>. QED
  BY <1>1, <1>2, <1>3, <1>4, <1>5 DEF IInv

\* Notifications and the destructor move no task either.
LEMMA NotifyStep ==
    ASSUME IInv, Stop \/ NotifyAll \/ Join \/ \E h \in Threads : AddNotify(h)
    PROVE  IInv'
<1>1. TaskInv'
  BY TaskFrame DEF IInv, Stop, NotifyAll, Join, AddNotify
<1>2. TypeOK'
  <2>1. CASE Stop
    BY <2>1 DEF IInv, TypeOK, Stop
  <2>2. CASE NotifyAll \/ Join
    BY <2>2 DEF IInv, TypeOK, NotifyAll, Join
  <2>3. ASSUME NEW h \in Threads, AddNotify(h) PROVE TypeOK'
    BY <2>3 DEF IInv, TypeOK, AddNotify
  <2>. QED
    BY <2>1, <2>2, <2>3
<1>3. MutexInv' /\ WaitInv'
  BY DEF IInv, TypeOK, MutexInv, WaitInv, Stop, NotifyAll, Join, AddNotify
<1>4. NoPopOfEmptyQueue'
  BY DEF IInv, TypeOK, WaitInv, NoPopOfEmptyQueue, Stop, NotifyAll, Join, AddNotify
<1>5. StageInv'
  BY DEF IInv, TypeOK, WaitInv, StageInv, Stop, NotifyAll, Join, AddNotify
<1>6. DrainInv'
  BY DEF IInv, TypeOK, WaitInv, DrainInv, Stop, NotifyAll, Join, AddNotify
<1>. QED
  BY <1>1, <1>2, <1>3, <1>4, <1>5, <1>6 DEF IInv
----------------------------------------------------------------------------
(***************************************************************************)
(* The theorems                                                            *)
(***************************************************************************)

\* The inductive invariant holds in a new pool ...
LEMMA InitIInv == Init => IInv
<1> SUFFICES ASSUME Init PROVE IInv
  OBVIOUS
<1>1. Queued = {} /\ Adding = {} /\ Running = {}
  BY DEF Init, Queued, Adding, Running
<1>2. TaskInv
  BY <1>1 DEF Init, TaskInv, NoTaskLostOrDuplicated
<1>3. TypeOK
  <2>1. stop \in BOOLEAN
    BY DEF Init
  <2>2. tasks \in Seq(Tasks)
    BY DEF Init
  <2>3. /\ pc \in [Workers -> WorkerPcs] /\ running \in [Workers -> Tasks \cup {None}]
        /\ adding \in [Threads -> Tasks \cup {None}]
        /\ addPc \in [Threads -> {"idle", "push", "notify"}]
    BY DEF Init
  <2>. QED
    BY <2>1, <2>2, <2>3 DEF Init, TypeOK
<1>4. MutexInv /\ WaitInv /\ NoPopOfEmptyQueue /\ StageInv /\ DrainInv
  BY DEF Init, MutexInv, WaitInv, NoPopOfEmptyQueue, StageInv, DrainInv
<1>. QED
  BY <1>2, <1>3, <1>4 DEF IInv

\* ... and every step preserves it.
LEMMA NextIInv == IInv /\ [Next]_vars => IInv'
<1> SUFFICES ASSUME IInv, [Next]_vars PROVE IInv'
  OBVIOUS
<1>1. ASSUME NEW h \in Threads, AddNext(h) PROVE IInv'
  BY <1>1, AddRefusedStep, AddCheckStep, AddPushStep, NotifyStep DEF AddNext
<1>2. ASSUME NEW w \in Workers, WorkerStep(w) \/ Wakeup(w) PROVE IInv'
  BY <1>2, WorkerControlStep, TakeStep, FinishStep DEF WorkerStep
<1>3. CASE Stop \/ NotifyAll \/ Join
  BY <1>3, NotifyStep
<1>4. CASE UNCHANGED vars
  <2>1. TaskInv'
    BY <1>4, TaskFrame DEF vars, IInv
  <2>. QED
    BY <1>4, <2>1 DEF vars, IInv, TypeOK, MutexInv, WaitInv, NoPopOfEmptyQueue, StageInv, DrainInv
<1>. QED
  BY <1>1, <1>2, <1>3, <1>4 DEF Next

\* The inductive invariant holds in every reachable state.
THEOREM Invariance == Spec => []IInv
BY InitIInv, NextIInv, PTL DEF Spec

\* Every variable keeps its type.
THEOREM TypeCorrect == Spec => []TypeOK
<1>1. IInv => TypeOK
  BY DEF IInv
<1>. QED
  BY Invariance, <1>1, PTL

\* A worker never pops an empty queue (thread_pool.cpp:15-20).
THEOREM QueueNotEmptyAtPop == Spec => []NoPopOfEmptyQueue
<1>1. IInv => NoPopOfEmptyQueue
  BY DEF IInv
<1>. QED
  BY Invariance, <1>1, PTL

\* No task is lost and none runs twice (thread_pool.hpp:50-68, thread_pool.cpp:13-22).
THEOREM TasksConserved == Spec => []NoTaskLostOrDuplicated
<1>1. IInv => NoTaskLostOrDuplicated
  BY DEF IInv, TaskInv
<1>. QED
  BY Invariance, <1>1, PTL

\* When the destructor has returned, every accepted task has run
\* (thread_pool.cpp:16-18, 28-36).
THEOREM Drained == Spec => []DestroyedPoolIsDrained
<1>1. IInv => DestroyedPoolIsDrained
  <2> SUFFICES ASSUME IInv, ownerPc = "destroyed"
               PROVE  tasks = <<>> /\ submitted = rejected \cup finished
    BY DEF DestroyedPoolIsDrained
  <2>1. \A w \in Workers : pc[w] = "done"
    BY DEF IInv, StageInv
  <2>2. tasks = <<>>
    BY <2>1 DEF IInv, DrainInv
  <2>3. Queued = {}
    BY <2>2 DEF Queued
  <2>4. Running = {}
    BY <2>1 DEF IInv, StageInv, Running
  <2>5. \A h \in Threads : addPc[h] = "idle"
    BY <2>1 DEF IInv, TypeOK, StageInv
  <2>6. Adding = {}
    BY <2>5 DEF IInv, StageInv, Adding
  <2>. QED
    BY <2>2, <2>3, <2>4, <2>6 DEF IInv, TaskInv, NoTaskLostOrDuplicated
<1>. QED
  BY Invariance, <1>1, PTL
=============================================================================
