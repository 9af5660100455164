----------------------------- MODULE ThreadPool -----------------------------
(***************************************************************************)
(* The thread pool that runs the sub reactors: a FIFO queue of tasks, a    *)
(* mutex, a condition variable and an atomic stop flag.  The owner submits *)
(* tasks and destroys the pool; a task may itself submit tasks.            *)
(*                                                                         *)
(* Source: common/thread_pool.cpp, include/common/thread_pool.hpp.         *)
(*                                                                         *)
(* The condition variable is modelled by its wait set.  The predicate of   *)
(* cv_.wait is evaluated under the mutex; giving up the mutex and joining  *)
(* the wait set is one later step, so a notifier that holds no mutex can   *)
(* come in between.                                                        *)
(***************************************************************************)
EXTENDS Naturals, Sequences, FiniteSets

CONSTANTS Workers,   \* workers_
          Owner,     \* the thread that owns the pool
          Tasks,     \* the tasks that may be submitted, each once
          Endless,   \* the tasks that do not return, such as EventLoop::loop
          None,
          Spurious   \* whether a wait may end without a notification

ASSUME PoolAssumption ==
    /\ Owner \notin Workers
    /\ None \notin Workers \cup Tasks \cup {Owner}
    /\ Endless \subseteq Tasks
    /\ Spurious \in BOOLEAN

\* size = std::max(size, MIN_THREADS)
ASSUME MinThreads == \E v, w \in Workers : v # w

VARIABLES stop,       \* stop_
          tasks,      \* tasks_
          mtx,        \* tasks_mtx_: the worker that holds it, or None
          waiters,    \* the wait set of cv_
          pc,         \* where each worker is
          running,    \* the task each worker runs
          ownerPc,    \* "use", or the stage of ~ThreadPool
          adding,     \* per thread, the task it is submitting
          addPc,      \* per thread, how far addTask has come
          submitted,  \* tasks addTask has been called with
          rejected,   \* those refused with an exception
          finished    \* those that have run

workerVars == <<pc, running, finished>>
addVars    == <<adding, addPc, submitted, rejected>>
vars == <<stop, tasks, mtx, waiters, workerVars, ownerPc, addVars>>

Threads == Workers \cup {Owner}

WorkerPcs == {"lock", "check", "block", "waiting", "take", "run", "done"}

TypeOK ==
    /\ stop \in BOOLEAN
    /\ tasks \in Seq(Tasks)
    /\ mtx \in Workers \cup {None}
    /\ waiters \subseteq Workers
    /\ pc \in [Workers -> WorkerPcs]
    /\ running \in [Workers -> Tasks \cup {None}]
    /\ ownerPc \in {"use", "notify", "join", "destroyed"}
    /\ adding \in [Threads -> Tasks \cup {None}]
    /\ addPc \in [Threads -> {"idle", "push", "notify"}]
    /\ submitted \subseteq Tasks
    /\ rejected \subseteq Tasks
    /\ finished \subseteq Tasks

Init ==
    /\ stop = FALSE
    /\ tasks = <<>>
    /\ mtx = None
    /\ waiters = {}
    /\ pc = [w \in Workers |-> "lock"]
    /\ running = [w \in Workers |-> None]
    /\ ownerPc = "use"
    /\ adding = [h \in Threads |-> None]
    /\ addPc = [h \in Threads |-> "idle"]
    /\ submitted = {}
    /\ rejected = {}
    /\ finished = {}
----------------------------------------------------------------------------
(***************************************************************************)
(* addTask, by the owner while it uses the pool or from within a task.     *)
(***************************************************************************)
MayAdd(h) ==
    /\ addPc[h] = "idle"
    /\ IF h = Owner THEN ownerPc = "use" ELSE pc[h] = "run"

\* The check of stop_, outside the mutex: addTask throws on a stopped pool ...
AddRefused(h) ==
    /\ MayAdd(h)
    /\ stop
    /\ \E t \in Tasks \ submitted :
         /\ submitted' = submitted \cup {t}
         /\ rejected' = rejected \cup {t}
    /\ UNCHANGED <<stop, tasks, mtx, waiters, workerVars, ownerPc, adding, addPc>>

AddCheck(h) ==
    /\ MayAdd(h)
    /\ ~stop
    /\ \E t \in Tasks \ submitted :
         /\ submitted' = submitted \cup {t}
         /\ adding' = [adding EXCEPT ![h] = t]
    /\ addPc' = [addPc EXCEPT ![h] = "push"]
    /\ UNCHANGED <<stop, tasks, mtx, waiters, workerVars, ownerPc, rejected>>

\* Mutant of AddPush: the task has been moved from when it is enqueued.
AddPushMoved(h) ==
    /\ addPc[h] = "push"
    /\ mtx = None
    /\ tasks' = Append(tasks, None)
    /\ adding' = [adding EXCEPT ![h] = None]
    /\ addPc' = [addPc EXCEPT ![h] = "notify"]
    /\ UNCHANGED <<stop, mtx, waiters, workerVars, ownerPc, submitted, rejected>>

\* ... the task is enqueued under the mutex ...
AddPush(h) ==
    /\ addPc[h] = "push"
    /\ mtx = None
    /\ tasks' = Append(tasks, adding[h])
    /\ adding' = [adding EXCEPT ![h] = None]
    /\ addPc' = [addPc EXCEPT ![h] = "notify"]
    /\ UNCHANGED <<stop, mtx, waiters, workerVars, ownerPc, submitted, rejected>>

\* Mutant of AddNotify: the notification is forgotten.
AddNotifyMissing(h) ==
    /\ addPc[h] = "notify"
    /\ addPc' = [addPc EXCEPT ![h] = "idle"]
    /\ UNCHANGED <<stop, tasks, mtx, waiters, workerVars, ownerPc, adding, submitted, rejected>>

\* ... and notify_one wakes a waiting worker, if there is one.
AddNotify(h) ==
    /\ addPc[h] = "notify"
    /\ \/ waiters = {} /\ UNCHANGED <<waiters, pc>>
       \/ \E w \in waiters : /\ waiters' = waiters \ {w}
                             /\ pc' = [pc EXCEPT ![w] = "lock"]
    /\ addPc' = [addPc EXCEPT ![h] = "idle"]
    /\ UNCHANGED <<stop, tasks, mtx, running, finished, ownerPc, adding, submitted, rejected>>

AddNext(h) == AddRefused(h) \/ AddCheck(h) \/ AddPush(h) \/ AddNotify(h)
----------------------------------------------------------------------------
(***************************************************************************)
(* A worker thread                                                         *)
(***************************************************************************)
Lock(w) ==
    /\ pc[w] = "lock"
    /\ mtx = None
    /\ mtx' = w
    /\ pc' = [pc EXCEPT ![w] = "check"]
    /\ UNCHANGED <<stop, tasks, waiters, running, finished, ownerPc, addVars>>

\* Mutant of Check: cv_.wait without a predicate is over once notified.
CheckNothing(w) ==
    /\ pc[w] = "check"
    /\ pc' = [pc EXCEPT ![w] = "take"]
    /\ UNCHANGED <<stop, tasks, mtx, waiters, running, finished, ownerPc, addVars>>

\* The predicate of cv_.wait, under the mutex.
Check(w) ==
    /\ pc[w] = "check"
    /\ pc' = [pc EXCEPT ![w] = IF stop \/ tasks # <<>> THEN "take" ELSE "block"]
    /\ UNCHANGED <<stop, tasks, mtx, waiters, running, finished, ownerPc, addVars>>

\* cv_.wait gives up the mutex and joins the wait set in one step.
Block(w) ==
    /\ pc[w] = "block"
    /\ mtx' = None
    /\ waiters' = waiters \cup {w}
    /\ pc' = [pc EXCEPT ![w] = "waiting"]
    /\ UNCHANGED <<stop, tasks, running, finished, ownerPc, addVars>>

Wakeup(w) ==
    /\ Spurious
    /\ pc[w] = "waiting"
    /\ waiters' = waiters \ {w}
    /\ pc' = [pc EXCEPT ![w] = "lock"]
    /\ UNCHANGED <<stop, tasks, mtx, running, finished, ownerPc, addVars>>

\* Mutant of Exit: a worker leaves a stopped pool whatever is queued.
ExitAtOnce(w) ==
    /\ pc[w] = "take"
    /\ stop
    /\ mtx' = None
    /\ pc' = [pc EXCEPT ![w] = "done"]
    /\ UNCHANGED <<stop, tasks, waiters, running, finished, ownerPc, addVars>>

\* The pool is stopped and drained: the worker returns ...
Exit(w) ==
    /\ pc[w] = "take"
    /\ stop /\ tasks = <<>>
    /\ mtx' = None
    /\ pc' = [pc EXCEPT ![w] = "done"]
    /\ UNCHANGED <<stop, tasks, waiters, running, finished, ownerPc, addVars>>

\* Mutant of Take: the front is read, and popped only after the task.
TakeWithoutPop(w) ==
    /\ pc[w] = "take"
    /\ tasks # <<>>
    /\ running' = [running EXCEPT ![w] = Head(tasks)]
    /\ mtx' = None
    /\ pc' = [pc EXCEPT ![w] = "run"]
    /\ UNCHANGED <<stop, tasks, waiters, finished, ownerPc, addVars>>

\* ... or it takes the front of the queue and leaves the mutex ...
Take(w) ==
    /\ pc[w] = "take"
    /\ ~(stop /\ tasks = <<>>)
    /\ running' = [running EXCEPT ![w] = Head(tasks)]
    /\ tasks' = Tail(tasks)
    /\ mtx' = None
    /\ pc' = [pc EXCEPT ![w] = "run"]
    /\ UNCHANGED <<stop, waiters, finished, ownerPc, addVars>>

\* ... and the task returns.
Finish(w) ==
    /\ pc[w] = "run"
    /\ addPc[w] = "idle"
    /\ running[w] \notin Endless
    /\ finished' = finished \cup {running[w]}
    /\ running' = [running EXCEPT ![w] = None]
    /\ pc' = [pc EXCEPT ![w] = "lock"]
    /\ UNCHANGED <<stop, tasks, mtx, waiters, ownerPc, addVars>>

WorkerStep(w) ==
    Lock(w) \/ Check(w) \/ Block(w) \/ Exit(w) \/ Take(w) \/ Finish(w)
----------------------------------------------------------------------------
(***************************************************************************)
(* ~ThreadPool: set the flag, notify, join.                                *)
(***************************************************************************)
Stop ==
    /\ ownerPc = "use"
    /\ addPc[Owner] = "idle"
    /\ stop' = TRUE
    /\ ownerPc' = "notify"
    /\ UNCHANGED <<tasks, mtx, waiters, workerVars, addVars>>

NotifyAll ==
    /\ ownerPc = "notify"
    /\ waiters' = {}
    /\ pc' = [w \in Workers |-> IF w \in waiters THEN "lock" ELSE pc[w]]
    /\ ownerPc' = "join"
    /\ UNCHANGED <<stop, tasks, mtx, running, finished, addVars>>

Join ==
    /\ ownerPc = "join"
    /\ \A w \in Workers : pc[w] = "done"
    /\ ownerPc' = "destroyed"
    /\ UNCHANGED <<stop, tasks, mtx, waiters, workerVars, addVars>>

Next ==
    \/ \E h \in Threads : AddNext(h)
    \/ \E w \in Workers : WorkerStep(w) \/ Wakeup(w)
    \/ Stop \/ NotifyAll \/ Join

Spec == Init /\ [][Next]_vars

\* Every thread keeps running.  Nobody is obliged to submit a task or to
\* destroy the pool, and no wakeup is owed without a notification.
FairSpec ==
    /\ Spec
    /\ \A h \in Threads : WF_vars(AddPush(h) \/ AddNotify(h))
    /\ \A w \in Workers : WF_vars(WorkerStep(w))
    /\ WF_vars(NotifyAll \/ Join)
----------------------------------------------------------------------------
Queued == {tasks[i] : i \in DOMAIN tasks}
Adding == {adding[h] : h \in Threads} \ {None}
Running == {running[w] : w \in Workers} \ {None}

\* The queue is never popped when it is empty, spurious wakeups and the second
\* read of stop_ included (thread_pool.cpp:15-20).
NoPopOfEmptyQueue ==
    \A w \in Workers : pc[w] = "take" => stop \/ tasks # <<>>

\* A submitted task is refused, on its way into the queue, queued, running or
\* finished, and only one of these; no two workers run the same task.
NoTaskLostOrDuplicated ==
    /\ submitted = rejected \cup Adding \cup Queued \cup Running \cup finished
    /\ \A i, j \in DOMAIN tasks : tasks[i] = tasks[j] => i = j
    /\ \A v, w \in Workers : running[v] = running[w] /\ running[v] # None => v = w
    /\ Queued \cap Running = {}
    /\ finished \cap (Queued \cup Running) = {}

\* The destructor finishes all the tasks, those included that a task submits
\* while the destructor runs, after other workers have already left
\* (thread_pool.cpp:16-18, 28-36).
DestroyedPoolIsDrained ==
    ownerPc = "destroyed" => tasks = <<>> /\ submitted = rejected \cup finished

\* A task that is in the queue of a pool in use is started
\* (thread_pool.cpp:15-22): no notification of addTask is lost, as long as a
\* worker is left for it.
EveryTaskStarts ==
    \A t \in Tasks : t \in Queued /\ ~stop ~> t \in Running \cup finished

\* The destructor returns: every worker sees the stop flag (thread_pool.cpp:28-36).
DestructorReturns == ownerPc = "notify" ~> ownerPc = "destroyed"
=============================================================================
