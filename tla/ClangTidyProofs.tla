-------------------------- MODULE ClangTidyProofs --------------------------
(***************************************************************************)
(* Proofs about ClangTidy, for any number of threads and any database.     *)
(*                                                                         *)
(* The counter behind task_queue.join() says nothing by itself about the   *)
(* files: it is tied to them by the places a file passes through, the      *)
(* queue, the hands of one thread and done (PlacesInv).  What a thread     *)
(* does between get and task_done is written down where it is (WorkInv),   *)
(* so that the main thread, once the counter is zero, knows the outcome of *)
(* every file (SettledInv).                                                *)
(***************************************************************************)
EXTENDS ClangTidy, FiniteSetTheorems, TLAPS

\* The files put are in the queue, in the hands of one thread, or done.
Queued == {queue[i] : i \in 1..Len(queue)}
InHand == {name[w] : w \in Held}

PlacesInv ==
    /\ \A i, j \in 1..Len(queue) : queue[i] = queue[j] => i = j
    /\ \A w \in Workers : name[w] = 0 <=> pc[w] = "idle"
    /\ \A v, w \in Workers : name[v] = name[w] /\ name[v] # 0 => v = w
    /\ Queued \cup InHand \cup done = 1..(next - 1)
    /\ Queued \cap InHand = {}
    /\ (Queued \cup InHand) \cap done = {}
    /\ unfinished = Len(queue) + Cardinality(Held)

\* A file is done once clang-tidy has run on it or it is skipped; while there
\* is a temporary directory to keep, every file taken has left its .yaml.
WorkInv ==
    /\ \A w \in Workers :
          /\ pc[w] \in {"running", "printing"} => name[w] \notin skipped
          /\ pc[w] = "printing" => name[w] \in tidied
    /\ done \subseteq tidied \cup skipped
    /\ tidied \cap skipped = {}
    /\ mainPc \in {"put", "join", "export"} /\ args.export =>
          /\ tmpdir = "there"
          /\ InHand \cup done \subseteq tmpFiles

\* What the main thread knows behind task_queue.join().
SettledInv ==
    /\ mainPc = "setup" => next = 1 /\ tmpdir = "none"
    /\ mainPc \in {"setup", "put", "join"} => returnCode = 0
    /\ mainPc = "join" => next = total + 1
    /\ \/ mainPc \in {"export", "apply", "cleanup"}
       \/ mainPc = "exit" /\ returnCode = 0
       => /\ next = total + 1
          /\ queue = <<>>
          /\ \A w \in Workers : pc[w] = "idle"
          /\ returnCode = 0 => failedFiles = <<>>
    /\ mainPc \in {"apply", "cleanup", "exit"} /\ returnCode = 0 /\ args.export =>
          exported = "empty" /\ total = 0

IInv == TypeOK /\ PlacesInv /\ WorkInv /\ SettledInv
----------------------------------------------------------------------------
USE TidyAssumption

\* Threads at work are finitely many.
LEMMA HeldFinite == IsFiniteSet(Held) /\ Cardinality(Held) \in Nat
<1>1. Held \subseteq Workers
  BY DEF Held
<1>. QED  BY <1>1, FS_Subset, FS_CardinalityType

\* The counter of unfinished tasks cannot exceed the files put: no file is
\* counted twice.
LEMMA Counting ==
    ASSUME TypeOK, PlacesInv
    PROVE  /\ Cardinality(Queued) = Len(queue)
           /\ Cardinality(InHand) = Cardinality(Held)
           /\ unfinished <= next - 1
<1>1. Len(queue) \in Nat /\ queue \in [1..Len(queue) -> 1..total]
  BY DEF TypeOK
<1>2. IsFiniteSet(1..Len(queue)) /\ Cardinality(1..Len(queue)) = Len(queue)
  BY <1>1, FS_Interval
<1>3. ExistsBijection(1..Len(queue), Queued)
  <2>1. queue \in Bijection(1..Len(queue), Queued)
    BY <1>1 DEF PlacesInv, Queued, Bijection, Injection, Surjection, IsInjective
  <2>. QED  BY <2>1 DEF ExistsBijection
<1>4. IsFiniteSet(Queued) /\ Cardinality(Queued) = Len(queue)
  BY <1>2, <1>3, FS_Bijection
<1>5. ExistsBijection(Held, InHand)
  <2> DEFINE f == [w \in Held |-> name[w]]
  <2>1. f \in Bijection(Held, InHand)
    BY DEF PlacesInv, TypeOK, Held, InHand, Bijection, Injection, Surjection, IsInjective
  <2>. QED  BY <2>1 DEF ExistsBijection
<1>6. IsFiniteSet(InHand) /\ Cardinality(InHand) = Cardinality(Held)
  BY <1>5, HeldFinite, FS_Bijection
<1>7. Cardinality(Queued \cup InHand) = Len(queue) + Cardinality(Held)
  <2>1. Cardinality(Queued \cup InHand)
          = Cardinality(Queued) + Cardinality(InHand) - Cardinality(Queued \cap InHand)
    BY <1>4, <1>6, FS_Union
  <2>2. Cardinality(Queued \cap InHand) = 0
    BY FS_EmptySet DEF PlacesInv
  <2>. QED  BY <1>1, <1>4, <1>6, <2>1, <2>2, HeldFinite
<1>8. next - 1 \in Nat /\ IsFiniteSet(1..(next - 1)) /\ Cardinality(1..(next - 1)) = next - 1
  <2>1. next - 1 \in Nat
    BY DEF TypeOK
  <2>2. /\ IsFiniteSet(1..(next - 1))
        /\ Cardinality(1..(next - 1)) = IF 1 > next - 1 THEN 0 ELSE next - 1 - 1 + 1
    BY <2>1, FS_Interval
  <2>. QED  BY <2>1, <2>2
<1>9. Cardinality(Queued \cup InHand) <= Cardinality(1..(next - 1))
  BY <1>8, FS_Subset DEF PlacesInv
<1>. QED  BY <1>4, <1>6, <1>7, <1>8, <1>9 DEF PlacesInv

\* The steps of the main thread that leave the files where they are.
LEMMA PlacesFrame ==
    ASSUME PlacesInv, UNCHANGED <<next, queue, unfinished, pc, name, done>>
    PROVE  PlacesInv'
<1>1. Queued' = Queued /\ Held' = Held /\ InHand' = InHand
  BY DEF Queued, Held, InHand
<1>. QED  BY <1>1 DEF PlacesInv

\* A thread with a file in its hands moves on within run_tidy.
LEMMA MoveFrame ==
    ASSUME PlacesInv, TypeOK, NEW w \in Workers, pc[w] # "idle", NEW p, p # "idle",
           pc' = [pc EXCEPT ![w] = p],
           UNCHANGED <<next, queue, unfinished, name, done>>
    PROVE  PlacesInv' /\ InHand' = InHand
<1>1. Held' = Held
  BY DEF Held, TypeOK
<1>2. Queued' = Queued /\ InHand' = InHand
  BY <1>1 DEF Queued, InHand
<1>3. \A v \in Workers : name'[v] = 0 <=> pc'[v] = "idle"
  BY DEF PlacesInv, TypeOK
<1>. QED  BY <1>1, <1>2, <1>3 DEF PlacesInv

\* Everything in its place at the start.
LEMMA InitIInv == Init => IInv
<1> SUFFICES ASSUME Init  PROVE IInv
  OBVIOUS
<1>1. Held = {} /\ Queued = {} /\ InHand = {}
  BY DEF Init, Held, Queued, InHand
<1>2. Cardinality(Held) = 0
  BY <1>1, FS_EmptySet
<1>3. PlacesInv
  BY <1>1, <1>2 DEF Init, PlacesInv
<1>4. max_task \in Nat
  BY FS_CardinalityType DEF max_task
<1>5. TypeOK
  BY <1>4 DEF Init, TypeOK
<1>6. WorkInv /\ SettledInv
  BY DEF Init, WorkInv, SettledInv
<1>. QED  BY <1>3, <1>5, <1>6 DEF IInv

\* The main thread before and beside the queue, and Ctrl-C.
LEMMA MainControlStep ==
    ASSUME IInv, SetupFails \/ Setup \/ AllPut \/ Apply \/ Cleanup \/ Interrupt
                 \/ Unlink \/ Rmdir
    PROVE  IInv'
<1>1. UNCHANGED <<inputs, next, workVars>>
  BY DEF SetupFails, Setup, AllPut, Apply, Cleanup, Interrupt, Unlink, Rmdir
<1>2. PlacesInv' /\ InHand' = InHand
  BY <1>1, PlacesFrame DEF IInv, workVars, InHand, Held
<1>3. TypeOK'
  <2>1. CASE SetupFails \/ Setup
    BY <1>1, <2>1 DEF IInv, TypeOK, Ended, inputs, workVars, tmpVars, max_task, SetupFails,
                      Setup
  <2>2. CASE AllPut \/ Apply \/ Cleanup
    BY <1>1, <2>2 DEF IInv, TypeOK, Ended, inputs, workVars, tmpVars, max_task, AllPut, Apply,
                      Cleanup
  <2>3. CASE Interrupt \/ Unlink \/ Rmdir
    BY <1>1, <2>3 DEF IInv, TypeOK, Ended, inputs, workVars, tmpVars, max_task, Interrupt, Unlink,
                      Rmdir
  <2>. QED  BY <2>1, <2>2, <2>3
<1>4. mainPc = "setup" => InHand \cup done = {}
  BY DEF IInv, TypeOK, PlacesInv, SettledInv
<1>5. WorkInv'
  BY <1>1, <1>2, <1>4 DEF IInv, TypeOK, WorkInv, Ended, inputs, workVars, tmpVars,
     SetupFails, Setup, AllPut, Apply, Cleanup, Interrupt, Unlink, Rmdir
<1>6. SettledInv'
  BY <1>1 DEF IInv, TypeOK, SettledInv, Ended, inputs, workVars, tmpVars,
     SetupFails, Setup, AllPut, Apply, Cleanup, Interrupt, Unlink, Rmdir
<1>. QED  BY <1>2, <1>3, <1>5, <1>6 DEF IInv

\* task_queue.join() returns: nothing is queued and nobody holds a file.
LEMMA JoinStep ==
    ASSUME IInv, Join
    PROVE  IInv'
<1>1. UNCHANGED <<inputs, next, workVars, tmpVars, exported>> /\ mainPc' = "export"
  BY DEF Join
<1>2. PlacesInv' /\ InHand' = InHand
  BY <1>1, PlacesFrame DEF IInv, workVars, InHand, Held
<1>3. queue = <<>> /\ Held = {}
  <2>1. Len(queue) \in Nat /\ unfinished = 0 /\ unfinished = Len(queue) + Cardinality(Held)
    BY DEF IInv, TypeOK, PlacesInv, Join
  <2>2. Len(queue) = 0 /\ Cardinality(Held) = 0
    BY <2>1, HeldFinite
  <2>. QED  BY <2>2, HeldFinite, FS_EmptySet DEF IInv, TypeOK
<1>4. TypeOK' /\ WorkInv'
  BY <1>1, <1>2 DEF IInv, TypeOK, WorkInv, Ended, inputs, workVars, tmpVars, max_task, Join
<1>5. \A w \in Workers : pc[w] = "idle"
  BY <1>3 DEF Held
<1>6. SettledInv'
  BY <1>1, <1>3, <1>5 DEF IInv, TypeOK, SettledInv, inputs, workVars, Join
<1>. QED  BY <1>2, <1>4, <1>6 DEF IInv

\* merge_replacement_files: an empty tmpdir means that there was no file.
LEMMA ExportStep ==
    ASSUME IInv, Export
    PROVE  IInv'
<1>1. UNCHANGED <<inputs, next, workVars, tmpVars>> /\ mainPc' = "apply"
  BY DEF Export
<1>2. PlacesInv' /\ InHand' = InHand
  BY <1>1, PlacesFrame DEF IInv, workVars, InHand, Held
<1>3. TypeOK' /\ WorkInv'
  BY <1>1, <1>2 DEF IInv, TypeOK, WorkInv, Ended, inputs, workVars, tmpVars, max_task, Export
<1>4. args.export /\ tmpFiles = {} => total = 0
  <2>1. args.export /\ tmpFiles = {} => InHand \cup done = {}
    BY DEF IInv, WorkInv, Export
  <2>2. Queued = {} /\ next = total + 1
    BY DEF IInv, SettledInv, Export, Queued
  <2>3. Queued \cup InHand \cup done = 1..total
    BY <2>2 DEF IInv, PlacesInv, TypeOK
  <2>4. total # 0 => 1 \in Queued \cup InHand \cup done
    <3>1. total \in Nat
      BY DEF IInv, TypeOK
    <3>. QED  BY <2>3, <3>1
  <2>. QED  BY <2>1, <2>2, <2>4
<1>5. SettledInv'
  BY <1>1, <1>4 DEF IInv, TypeOK, SettledInv, inputs, workVars, Export
<1>. QED  BY <1>2, <1>3, <1>5 DEF IInv

\* put: the next file, put nowhere before, enters the queue.
LEMMA PutStep ==
    ASSUME IInv, Put
    PROVE  IInv'
<1>1. /\ queue \in Seq(1..total) /\ Len(queue) \in Nat /\ next \in 1..total
      /\ queue' = Append(queue, next) /\ next' = next + 1 /\ unfinished' = unfinished + 1
      /\ total' = total
  BY DEF IInv, TypeOK, Put, inputs
<1>2. /\ Len(queue') = Len(queue) + 1
      /\ \A i \in 1..Len(queue) : queue'[i] = queue[i]
      /\ queue'[Len(queue) + 1] = next
  BY <1>1
<1>3. Queued' = Queued \cup {next}
  BY <1>1, <1>2 DEF Queued
<1>4. Held' = Held /\ InHand' = InHand /\ UNCHANGED <<pc, name, done>>
  BY DEF Put, Held, InHand
<1>5. next \notin Queued \cup InHand \cup done
  BY <1>1 DEF IInv, PlacesInv
<1>6. PlacesInv'
  <2>1. \A i, j \in 1..Len(queue') : queue'[i] = queue'[j] => i = j
    BY <1>1, <1>2, <1>5 DEF IInv, PlacesInv, Queued
  <2>2. 1..(next' - 1) = 1..(next - 1) \cup {next}
    BY <1>1
  <2>3. unfinished' = Len(queue') + Cardinality(Held')
    BY <1>1, <1>2, <1>4, HeldFinite DEF IInv, PlacesInv, TypeOK
  <2>. QED  BY <1>3, <1>4, <1>5, <2>1, <2>2, <2>3 DEF IInv, PlacesInv
<1>7. TypeOK'
  <2>1. unfinished' \in 0..total'
    BY <1>1, Counting DEF IInv, TypeOK
  <2>2. Len(queue') <= max_task'
    BY <1>1, <1>2, FS_CardinalityType DEF Put, HasRoom, max_task
  <2>. QED  BY <1>1, <2>1, <2>2 DEF IInv, TypeOK, Put, inputs, tmpVars
<1>8. WorkInv' /\ SettledInv'
  BY <1>4 DEF IInv, TypeOK, WorkInv, SettledInv, Put, inputs, tmpVars
<1>. QED  BY <1>6, <1>7, <1>8 DEF IInv

\* A worker can only be at work while the main thread is not behind join.
LEMMA WorkersAtWork ==
    ASSUME IInv, NEW w \in Workers, pc[w] # "idle" \/ queue # <<>>
    PROVE  /\ mainPc \notin {"export", "apply", "cleanup"}
           /\ ~(mainPc = "exit" /\ returnCode = 0)
BY DEF IInv, SettledInv

\* queue.get(): the file passes from the queue into the hands of the thread.
LEMMA GetStep ==
    ASSUME IInv, NEW w \in Workers, Get(w)
    PROVE  IInv'
<1>1. /\ queue \in Seq(1..total) /\ queue # <<>> /\ Len(queue) \in Nat \ {0}
      /\ queue' = Tail(queue) /\ total' = total
      /\ pc \in [Workers -> {"idle", "taken", "running", "printing", "dead"}]
      /\ name \in [Workers -> 0..total]
      /\ pc[w] = "idle"
      /\ name' = [name EXCEPT ![w] = Head(queue)]
      /\ pc' = [pc EXCEPT ![w] = IF tmpdir = "gone" THEN "dead" ELSE "taken"]
      /\ UNCHANGED <<next, unfinished, done, skipped, tidied, mainPc, returnCode, args,
                     tmpdir, exported, failedFiles>>
  BY DEF IInv, TypeOK, Get, inputs
<1>2. /\ Len(queue') = Len(queue) - 1
      /\ \A i \in 1..Len(queue') : queue'[i] = queue[i + 1]
      /\ Head(queue) = queue[1] /\ Head(queue) \in 1..total
  <2>1. Len(queue') = Len(queue) - 1 /\ Head(queue) = queue[1]
    BY <1>1
  <2>2. \A i \in 1..Len(queue') : queue'[i] = queue[i + 1]
    BY <1>1, <2>1
  <2>3. 1 \in 1..Len(queue)
    BY <1>1
  <2>4. queue \in [1..Len(queue) -> 1..total]
    BY DEF IInv, TypeOK
  <2>5. queue[1] \in 1..total
    BY <2>3, <2>4
  <2>. QED  BY <2>1, <2>2, <2>5
<1>3. Queued = Queued' \cup {Head(queue)} /\ Head(queue) \notin Queued'
  <2>1. \A i \in 1..Len(queue') : i + 1 \in 1..Len(queue) /\ i + 1 # 1
    BY <1>1, <1>2
  <2>2. \A i \in 1..Len(queue) : i = 1 \/ (i - 1 \in 1..Len(queue') /\ (i - 1) + 1 = i)
    BY <1>1, <1>2
  <2>3. 1 \in 1..Len(queue)
    BY <1>1
  <2>4. Queued' \subseteq Queued /\ Head(queue) \in Queued
    BY <1>2, <2>1, <2>3 DEF Queued
  <2>5. Queued \subseteq Queued' \cup {Head(queue)}
    <3> SUFFICES ASSUME NEW i \in 1..Len(queue), i # 1
                 PROVE  queue[i] \in Queued'
      BY <1>2 DEF Queued
    <3>1. i - 1 \in 1..Len(queue') /\ queue'[i - 1] = queue[i]
      BY <1>2, <2>2
    <3>. QED  BY <3>1 DEF Queued
  <2>6. Head(queue) \notin Queued'
    BY <1>2, <2>1, <2>3 DEF Queued, IInv, PlacesInv
  <2>. QED  BY <2>4, <2>5, <2>6
<1>4. Held' = Held \cup {w} /\ w \notin Held
  BY <1>1 DEF Held
<1>5. InHand' = InHand \cup {Head(queue)}
  BY <1>1, <1>4 DEF Held, InHand
<1>6. Head(queue) \notin InHand /\ Head(queue) \notin done
  BY <1>3 DEF IInv, PlacesInv
<1>7. PlacesInv'
  <2>1. \A i, j \in 1..Len(queue') : queue'[i] = queue'[j] => i = j
    <3>1. \A i \in 1..Len(queue') : i + 1 \in 1..Len(queue)
      BY <1>1, <1>2
    <3>. QED  BY <1>1, <1>2, <3>1 DEF IInv, PlacesInv
  <2>2. \A v \in Workers : name'[v] = 0 <=> pc'[v] = "idle"
    BY <1>1, <1>2 DEF IInv, PlacesInv
  <2>3. \A u, v \in Workers : name'[u] = name'[v] /\ name'[u] # 0 => u = v
    <3>1. \A v \in Workers : name[v] # 0 => name[v] \in InHand
      BY DEF IInv, PlacesInv, InHand, Held
    <3>. QED  BY <1>1, <1>6, <3>1 DEF IInv, PlacesInv
  <2>4. unfinished' = Len(queue') + Cardinality(Held')
    <3>1. Cardinality(Held') = Cardinality(Held) + 1
      BY <1>4, HeldFinite, FS_AddElement
    <3>. QED  BY <1>1, <1>2, <3>1, HeldFinite DEF IInv, PlacesInv
  <2>5. Queued' \cup InHand' \cup done' = 1..(next' - 1)
    BY <1>1, <1>3, <1>5 DEF IInv, PlacesInv
  <2>6. Queued' \cap InHand' = {} /\ (Queued' \cup InHand') \cap done' = {}
    BY <1>1, <1>3, <1>5, <1>6 DEF IInv, PlacesInv
  <2>. QED  BY <2>1, <2>2, <2>3, <2>4, <2>5, <2>6 DEF PlacesInv
<1>8. TypeOK'
  <2>1. Len(queue') <= max_task'
    BY <1>1, <1>2, FS_CardinalityType DEF IInv, TypeOK, max_task
  <2>2. queue' \in Seq(1..total)
    BY <1>1
  <2>3. /\ pc' \in [Workers -> {"idle", "taken", "running", "printing", "dead"}]
        /\ name' \in [Workers -> 0..total]
    BY <1>1, <1>2 DEF IInv, TypeOK
  <2>4. tmpFiles' \subseteq 1..total
    BY <1>2 DEF IInv, TypeOK, Get
  <2>. QED  BY <1>1, <2>1, <2>2, <2>3, <2>4 DEF IInv, TypeOK, Get, inputs
<1>9. WorkInv'
  <2>1. \A v \in Workers :
           /\ pc'[v] \in {"running", "printing"} => name'[v] \notin skipped'
           /\ pc'[v] = "printing" => name'[v] \in tidied'
    BY <1>1 DEF IInv, WorkInv
  <2>2. mainPc' \in {"put", "join", "export"} /\ args'.export =>
           tmpdir' = "there" /\ InHand' \cup done' \subseteq tmpFiles'
    BY <1>1, <1>5 DEF IInv, WorkInv, Get
  <2>. QED  BY <1>1, <2>1, <2>2 DEF IInv, WorkInv
<1>10. SettledInv'
  BY <1>1, WorkersAtWork DEF IInv, SettledInv
<1>. QED  BY <1>7, <1>8, <1>9, <1>10 DEF IInv

\* A thread that dies keeps its file for ever.
LEMMA DiesStep ==
    ASSUME IInv, NEW w \in Workers, pc[w] # "idle", Dies(w),
           UNCHANGED <<inputs, mainPc, next, queue, failedFiles, tidied, tmpVars,
                       exported, returnCode>>
    PROVE  IInv'
<1>1. PlacesInv' /\ InHand' = InHand
  BY MoveFrame DEF IInv, Dies
<1>2. TypeOK'
  BY DEF IInv, TypeOK, Dies, inputs, tmpVars, max_task
<1>3. WorkInv'
  BY <1>1 DEF IInv, TypeOK, WorkInv, Dies, inputs, tmpVars
<1>4. SettledInv'
  BY WorkersAtWork DEF IInv, TypeOK, SettledInv, Dies, inputs, tmpVars
<1>. QED  BY <1>1, <1>2, <1>3, <1>4 DEF IInv

\* task_done: the file leaves the thread's hands for good.
LEMMA TaskDoneStep ==
    ASSUME IInv, NEW w \in Workers, pc[w] # "idle", TaskDone(w),
           name[w] \in tidied \cup skipped,
           UNCHANGED <<inputs, mainPc, next, queue, failedFiles, tidied, tmpVars,
                       exported, returnCode>>
    PROVE  IInv'
<1>1. /\ pc \in [Workers -> {"idle", "taken", "running", "printing", "dead"}]
      /\ name \in [Workers -> 0..total]
      /\ unfinished' = unfinished - 1
      /\ done' = done \cup {name[w]}
      /\ name' = [name EXCEPT ![w] = 0]
      /\ pc' = [pc EXCEPT ![w] = "idle"]
      /\ UNCHANGED <<args, total, matching, skipped, mainPc, next, queue, failedFiles,
                     tidied, tmpdir, tmpFiles, exported, returnCode>>
  BY DEF IInv, TypeOK, TaskDone, inputs, tmpVars
<1>2. name[w] # 0 /\ name[w] \in InHand /\ w \in Held
  BY DEF IInv, PlacesInv, Held, InHand
<1>3. Held' = Held \ {w}
  BY <1>1 DEF Held
<1>4. InHand' = InHand \ {name[w]}
  <2>1. \A v \in Held : v # w => name[v] # name[w]
    BY <1>2 DEF Held, IInv, PlacesInv
  <2>. QED  BY <1>1, <1>2, <1>3, <2>1 DEF Held, InHand
<1>5. Queued' = Queued
  BY <1>1 DEF Queued
<1>6. Cardinality(Held') = Cardinality(Held) - 1
  BY <1>2, <1>3, HeldFinite, FS_RemoveElement
<1>7. Cardinality(Held) >= 1
  BY <1>2, HeldFinite, FS_EmptySet
<1>8. PlacesInv'
  <2>1. \A v \in Workers : name'[v] = 0 <=> pc'[v] = "idle"
    BY <1>1 DEF IInv, PlacesInv
  <2>2. \A u, v \in Workers : name'[u] = name'[v] /\ name'[u] # 0 => u = v
    BY <1>1 DEF IInv, PlacesInv
  <2>3. unfinished' = Len(queue') + Cardinality(Held')
    BY <1>1, <1>6, HeldFinite DEF IInv, PlacesInv, TypeOK
  <2>4. Queued' \cup InHand' \cup done' = 1..(next' - 1)
    BY <1>1, <1>2, <1>4, <1>5 DEF IInv, PlacesInv
  <2>5. Queued' \cap InHand' = {} /\ (Queued' \cup InHand') \cap done' = {}
    BY <1>1, <1>2, <1>4, <1>5 DEF IInv, PlacesInv
  <2>6. \A i, j \in 1..Len(queue') : queue'[i] = queue'[j] => i = j
    BY <1>1 DEF IInv, PlacesInv
  <2>. QED  BY <2>1, <2>2, <2>3, <2>4, <2>5, <2>6 DEF PlacesInv
<1>9. TypeOK'
  <2>1. unfinished' \in 0..total
    BY <1>1, <1>7, HeldFinite DEF IInv, TypeOK, PlacesInv
  <2>2. Len(queue') <= max_task'
    BY <1>1 DEF IInv, TypeOK, max_task
  <2>3. name[w] \in 1..total
    BY <1>1, <1>2
  <2>4. /\ pc' \in [Workers -> {"idle", "taken", "running", "printing", "dead"}]
        /\ name' \in [Workers -> 0..total]
    BY <1>1 DEF IInv, TypeOK
  <2>. QED  BY <1>1, <2>1, <2>2, <2>3, <2>4 DEF IInv, TypeOK
<1>10. WorkInv'
  BY <1>1, <1>2, <1>4 DEF IInv, WorkInv
<1>11. SettledInv'
  BY <1>1, WorkersAtWork DEF IInv, SettledInv
<1>. QED  BY <1>8, <1>9, <1>10, <1>11 DEF IInv

\* CheckConfig.should_skip and the end of the output, with task_done.
LEMMA SkipOutputStep ==
    ASSUME IInv, NEW w \in Workers, Skip(w) \/ Output(w)
    PROVE  IInv'
<1>1. CASE Skip(w)
  BY <1>1, TaskDoneStep DEF Skip
<1>2. CASE Output(w)
  <2>1. name[w] \in tidied /\ pc[w] # "idle"
    BY <1>2 DEF IInv, WorkInv, Output
  <2>. QED  BY <1>2, <2>1, TaskDoneStep, DiesStep DEF Output
<1>. QED  BY <1>1, <1>2

\* Popen starts clang-tidy on a file that is not skipped, or raises.
LEMMA StartStep ==
    ASSUME IInv, NEW w \in Workers, Start(w)
    PROVE  IInv'
<1>1. CASE Dies(w)
  BY <1>1, DiesStep DEF Start
<1>2. CASE pc' = [pc EXCEPT ![w] = "running"] /\ UNCHANGED <<unfinished, done, name>>
  <2>1. PlacesInv' /\ InHand' = InHand
    BY <1>2, MoveFrame DEF IInv, Start
  <2>2. TypeOK'
    BY <1>2 DEF IInv, TypeOK, Start, inputs, tmpVars, max_task
  <2>3. WorkInv'
    BY <1>2, <2>1 DEF IInv, TypeOK, WorkInv, Start, inputs, tmpVars
  <2>4. SettledInv'
    BY <1>2, WorkersAtWork DEF IInv, TypeOK, SettledInv, Start, inputs, tmpVars
  <2>. QED  BY <2>1, <2>2, <2>3, <2>4 DEF IInv
<1>. QED  BY <1>1, <1>2 DEF Start

\* communicate() returns: the file is checked and, if that failed, listed.
LEMMA CommunicateStep ==
    ASSUME IInv, NEW w \in Workers, Communicate(w)
    PROVE  IInv'
<1>1. PlacesInv' /\ InHand' = InHand
  BY MoveFrame DEF IInv, Communicate
<1>2. name[w] \in 1..total /\ name[w] \in InHand
  BY DEF IInv, TypeOK, PlacesInv, InHand, Held, Communicate
<1>3. TypeOK'
  <2>1. failedFiles' \in Seq(1..total)
    <3>1. failedFiles \in Seq(1..total)
      BY DEF IInv, TypeOK
    <3>2. Append(failedFiles, name[w]) \in Seq(1..total)
      BY <1>2, <3>1
    <3>. QED  BY <3>1, <3>2 DEF Communicate
  <2>. QED  BY <1>2, <2>1 DEF IInv, TypeOK, Communicate, inputs, max_task
<1>4. WorkInv'
  <2>1. pc \in [Workers -> {"idle", "taken", "running", "printing", "dead"}]
    BY DEF IInv, TypeOK
  <2>2. \A v \in Workers :
           /\ pc'[v] \in {"running", "printing"} => name'[v] \notin skipped'
           /\ pc'[v] = "printing" => name'[v] \in tidied'
    BY <2>1 DEF IInv, WorkInv, Communicate, inputs
  <2>3. done' \subseteq tidied' \cup skipped' /\ tidied' \cap skipped' = {}
    BY DEF IInv, WorkInv, Communicate, inputs
  <2>4. mainPc' \in {"put", "join", "export"} /\ args'.export =>
           tmpdir' = "there" /\ InHand' \cup done' \subseteq tmpFiles'
    BY <1>1 DEF IInv, WorkInv, Communicate, inputs
  <2>. QED  BY <2>2, <2>3, <2>4 DEF WorkInv
<1>5. SettledInv'
  BY WorkersAtWork DEF IInv, TypeOK, SettledInv, Communicate, inputs
<1>. QED  BY <1>1, <1>3, <1>4, <1>5 DEF IInv

\* Every step keeps the invariant.
LEMMA NextIInv == IInv /\ [Next]_vars => IInv'
<1> SUFFICES ASSUME IInv, [Next]_vars  PROVE IInv'
  OBVIOUS
<1>1. CASE MainNext
  BY <1>1, MainControlStep, PutStep, JoinStep, ExportStep DEF MainNext
<1>2. CASE Interrupt
  BY <1>2, MainControlStep
<1>3. CASE \E w \in Workers : WorkerNext(w)
  BY <1>3, GetStep, SkipOutputStep, StartStep, CommunicateStep DEF WorkerNext
<1>4. CASE UNCHANGED vars
  <2>1. PlacesInv' /\ InHand' = InHand
    BY <1>4, PlacesFrame DEF IInv, vars, workVars, InHand, Held
  <2>2. TypeOK' /\ WorkInv' /\ SettledInv'
    BY <1>4, <2>1 DEF IInv, TypeOK, WorkInv, SettledInv, vars, inputs, workVars, tmpVars,
       max_task
  <2>. QED  BY <2>1, <2>2 DEF IInv
<1>. QED  BY <1>1, <1>2, <1>3, <1>4 DEF Next

\* The inductive invariant holds in every reachable state.
THEOREM Invariance == Spec => []IInv
BY InitIInv, NextIInv, PTL DEF Spec

\* The variables keep their types: in particular the queue never exceeds
\* max_task, and unfinished_tasks never goes below zero or above len(files).
THEOREM TypeCorrect == Spec => []TypeOK
<1>1. IInv => TypeOK
  BY DEF IInv
<1>. QED  BY <1>1, Invariance, PTL

\* Every file that main has put is in exactly one place, the queue, one
\* thread's hands or behind task_done, and unfinished_tasks counts those that
\* are not done: run_tidy neither loses a file nor checks one twice.
THEOREM FilesConserved == Spec => []EachFileOnce
<1>1. IInv => EachFileOnce
  <2> SUFFICES ASSUME IInv  PROVE EachFileOnce
    OBVIOUS
  <2>1. ToSet(queue) = Queued
    <3>1. DOMAIN queue = 1..Len(queue)
      BY DEF IInv, TypeOK
    <3>. QED  BY <3>1 DEF ToSet, Queued
  <2>2. Len(queue) = Cardinality(Queued) /\ Cardinality(InHand) = Cardinality(Held)
    BY Counting DEF IInv
  <2>3. /\ Queued \cup InHand \cup done = 1..(next - 1)
        /\ Queued \cap InHand = {}
        /\ (Queued \cup InHand) \cap done = {}
        /\ unfinished = Len(queue) + Cardinality(Held)
    BY DEF IInv, PlacesInv
  <2>. QED  BY <2>1, <2>2, <2>3 DEF EachFileOnce, InHand
<1>. QED  BY <1>1, Invariance, PTL

\* sys.exit(0) is reached only when every file that is not skipped has been
\* through clang-tidy, none failed and nothing was left out of the export.
THEOREM CleanExit == Spec => []ExitZeroMeansClean
<1>1. IInv => ExitZeroMeansClean
  <2> SUFFICES ASSUME IInv, mainPc = "exit", returnCode = 0
               PROVE  /\ tidied = (1..total) \ skipped
                      /\ failedFiles = <<>>
                      /\ args.export => exported = "empty" /\ total = 0
    BY DEF ExitZeroMeansClean
  <2>1. Queued = {} /\ InHand = {} /\ next - 1 = total
    BY DEF IInv, TypeOK, SettledInv, Queued, InHand, Held
  <2>2. done = 1..total
    BY <2>1 DEF IInv, PlacesInv
  <2>3. tidied = (1..total) \ skipped
    BY <2>2 DEF IInv, TypeOK, WorkInv
  <2>. QED  BY <2>3 DEF IInv, SettledInv
<1>. QED  BY <1>1, Invariance, PTL
=============================================================================
