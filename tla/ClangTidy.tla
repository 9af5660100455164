------------------------------ MODULE ClangTidy ------------------------------
(***************************************************************************)
(* The parallel clang-tidy runner behind "make clang-tidy": the main       *)
(* thread feeds the files of the compilation database into a bounded       *)
(* queue.Queue, daemon threads take them and run clang-tidy, and           *)
(* task_queue.join() tells the main thread that all of them are checked.   *)
(*                                                                         *)
(* Source: build_support/run_clang_tidy.py, run_clang_tidy_extra.py.       *)
(*                                                                         *)
(* A file is its position in the database.  Options, database and          *)
(* what the patterns match are chosen once, in Init.  What clang-tidy and  *)
(* the file system do is chosen step by step: a process may fail, may not  *)
(* start, may print bytes that are no UTF-8; the user may press Ctrl-C.    *)
(* An exception that leaves run_tidy ends that thread only.                *)
(***************************************************************************)
EXTENDS Naturals, Sequences, FiniteSets, SequencesExt

CONSTANTS Workers,   \* the max_task threads
          MaxFiles   \* the largest database

ASSUME TidyAssumption ==
    /\ IsFiniteSet(Workers)
    /\ Workers # {}
    /\ MaxFiles \in Nat

VARIABLES args,         \* the options -fix and -export-fixes
          total,        \* len(files)
          matching,     \* the files that file_name_re finds
          skipped,      \* the files under third_party
          mainPc,       \* where the main thread is
          next,         \* the file to be put next
          queue,        \* task_queue
          unfinished,   \* task_queue.unfinished_tasks
          pc,           \* where each thread is
          name,         \* the file each thread works on, or 0
          failedFiles,  \* failed_files
          tmpdir,       \* "none", "there" or "gone"
          tmpFiles,     \* the files whose .yaml is in tmpdir
          exported,     \* what became of the file of -export-fixes
          returnCode,
          tidied,       \* history: files clang-tidy has run on to the end
          done          \* history: files task_done was called for

inputs   == <<args, total, matching, skipped>>
workVars == <<queue, unfinished, pc, name, failedFiles, tidied, done>>
tmpVars  == <<tmpdir, tmpFiles>>
vars == <<inputs, mainPc, next, workVars, tmpVars, exported, returnCode>>

max_task == Cardinality(Workers)

Ended == {"exit", "killed", "traceback"}

TypeOK ==
    /\ args \in [fix : BOOLEAN, export : BOOLEAN]
    /\ total \in 0..MaxFiles
    /\ matching \subseteq 1..total
    /\ skipped \subseteq 1..total
    /\ mainPc \in {"setup", "put", "join", "export", "apply", "cleanup",
                   "rmtree", "rmdir"} \cup Ended
    /\ next \in 1..(total + 1)
    /\ queue \in Seq(1..total)
    /\ Len(queue) <= max_task
    /\ unfinished \in 0..total
    /\ pc \in [Workers -> {"idle", "taken", "running", "printing", "dead"}]
    /\ name \in [Workers -> 0..total]
    /\ failedFiles \in Seq(1..total)
    /\ tmpdir \in {"none", "there", "gone"}
    /\ tmpFiles \subseteq 1..total
    /\ exported \in {"no", "empty", "error"}
    /\ returnCode \in {0, 1}
    /\ tidied \subseteq 1..total
    /\ done \subseteq 1..total

Init ==
    /\ args \in [fix : BOOLEAN, export : BOOLEAN]
    /\ total \in 0..MaxFiles
    /\ matching \in SUBSET (1..total)
    /\ skipped \in SUBSET (1..total)
    /\ mainPc = "setup"
    /\ next = 1
    /\ queue = <<>>
    /\ unfinished = 0
    /\ pc = [w \in Workers |-> "idle"]
    /\ name = [w \in Workers |-> 0]
    /\ failedFiles = <<>>
    /\ tmpdir = "none"
    /\ tmpFiles = {}
    /\ exported = "no"
    /\ returnCode = 0
    /\ tidied = {}
    /\ done = {}
----------------------------------------------------------------------------
(***************************************************************************)
(* The main thread                                                         *)
(***************************************************************************)

\* No database up to the root, or clang-tidy -list-checks or, for fixes,
\* clang-apply-replacements --version does not run: sys.exit(1).
SetupFails ==
    /\ mainPc = "setup"
    /\ mainPc' = "exit"
    /\ returnCode' = 1
    /\ UNCHANGED <<inputs, next, workVars, tmpVars, exported>>

\* mkdtemp if there are fixes to keep; then the threads are started.
Setup ==
    /\ mainPc = "setup"
    /\ tmpdir' = IF args.fix \/ args.export THEN "there" ELSE "none"
    /\ mainPc' = "put"
    /\ UNCHANGED <<inputs, next, workVars, tmpFiles, exported, returnCode>>

\* Mutant of HasRoom: a queue without a limit.
HasAlwaysRoom == TRUE

\* queue.Queue(max_task): put does not block.
HasRoom == Len(queue) < max_task

\* Mutant of Put: the file is put again although the first put succeeded.
PutTwice ==
    /\ mainPc = "put"
    /\ next <= total
    /\ next \in matching
    /\ HasRoom
    /\ queue' = Append(queue, next)
    /\ unfinished' = unfinished + 1
    /\ next' \in {next, next + 1}
    /\ UNCHANGED <<inputs, mainPc, pc, name, failedFiles, tidied, done, tmpVars,
                   exported, returnCode>>

\* put(name, block=True, timeout=300).  On queue.Full the loop prints a line
\* and tries the same file again, which changes nothing.  A file that does
\* not match is never put and put_file stays False: the loop does not end.
Put ==
    /\ mainPc = "put"
    /\ next <= total
    /\ next \in matching
    /\ HasRoom
    /\ queue' = Append(queue, next)
    /\ unfinished' = unfinished + 1
    /\ next' = next + 1
    /\ UNCHANGED <<inputs, mainPc, pc, name, failedFiles, tidied, done, tmpVars,
                   exported, returnCode>>

AllPut ==
    /\ mainPc = "put"
    /\ next > total
    /\ mainPc' = "join"
    /\ UNCHANGED <<inputs, next, workVars, tmpVars, exported, returnCode>>

\* Mutant of Join: waits until the queue is empty, not for task_done.
JoinEmpty ==
    /\ mainPc = "join"
    /\ queue = <<>>
    /\ returnCode' = IF failedFiles # <<>> THEN 1 ELSE 0
    /\ mainPc' = "export"
    /\ UNCHANGED <<inputs, next, workVars, tmpVars, exported>>

\* task_queue.join() and the report of the failed files.
Join ==
    /\ mainPc = "join"
    /\ unfinished = 0
    /\ returnCode' = IF failedFiles # <<>> THEN 1 ELSE 0
    /\ mainPc' = "export"
    /\ UNCHANGED <<inputs, next, workVars, tmpVars, exported>>

\* merge_replacement_files: the import of yaml is commented out, so the first
\* .yaml in tmpdir raises a NameError; without any, the merge file is emptied,
\* unless that fails.  Exceptions are caught and counted.
Export ==
    /\ mainPc = "export"
    /\ mainPc' = "apply"
    /\ \/ ~args.export /\ UNCHANGED <<exported, returnCode>>
       \/ args.export /\ tmpFiles = {} /\ exported' = "empty" /\ UNCHANGED returnCode
       \/ args.export /\ exported' = "error" /\ returnCode' = 1
    /\ UNCHANGED <<inputs, next, workVars, tmpVars>>

\* apply_fixes: an exception is caught and counted, the exit status of
\* clang-apply-replacements is not looked at.
Apply ==
    /\ mainPc = "apply"
    /\ mainPc' = "cleanup"
    /\ \/ UNCHANGED returnCode
       \/ args.fix /\ returnCode' = 1
    /\ UNCHANGED <<inputs, next, workVars, tmpVars, exported>>

\* rmtree of the temporary directory, sys.exit(return_code).
Cleanup ==
    /\ mainPc = "cleanup"
    /\ mainPc' = "exit"
    /\ tmpdir' = IF tmpdir = "there" THEN "gone" ELSE tmpdir
    /\ tmpFiles' = {}
    /\ UNCHANGED <<inputs, next, workVars, exported, returnCode>>

\* KeyboardInterrupt within the try block.
Interrupt ==
    /\ mainPc \in {"put", "join"}
    /\ mainPc' = IF tmpdir = "there" THEN "rmtree" ELSE "killed"
    /\ UNCHANGED <<inputs, next, workVars, tmpVars, exported, returnCode>>

\* rmtree while the threads still run: the entries found are unlinked ...
Unlink ==
    /\ mainPc = "rmtree"
    /\ mainPc' = "rmdir"
    /\ tmpFiles' = {}
    /\ UNCHANGED <<inputs, next, workVars, tmpdir, exported, returnCode>>

\* ... and the directory is removed, followed by os.kill(0, 9), unless a
\* file has appeared meanwhile: then rmtree raises, and main with it.
Rmdir ==
    /\ mainPc = "rmdir"
    /\ IF tmpFiles = {}
         THEN tmpdir' = "gone" /\ mainPc' = "killed"
         ELSE mainPc' = "traceback" /\ UNCHANGED tmpdir
    /\ UNCHANGED <<inputs, next, workVars, tmpFiles, exported, returnCode>>

MainNext ==
    \/ SetupFails \/ Setup \/ Put \/ AllPut \/ Join
    \/ Export \/ Apply \/ Cleanup \/ Unlink \/ Rmdir
----------------------------------------------------------------------------
(***************************************************************************)
(* run_tidy, in each thread.  The threads are daemons: they end with main. *)
(***************************************************************************)
TaskDone(w) ==
    /\ unfinished' = unfinished - 1
    /\ done' = done \cup {name[w]}
    /\ name' = [name EXCEPT ![w] = 0]
    /\ pc' = [pc EXCEPT ![w] = "idle"]

Dies(w) ==
    /\ pc' = [pc EXCEPT ![w] = "dead"]
    /\ UNCHANGED <<unfinished, done, name>>

\* queue.get() and get_tidy_invocation, whose mkstemp raises once tmpdir is
\* gone.
Get(w) ==
    /\ pc[w] = "idle"
    /\ queue # <<>>
    /\ queue' = Tail(queue)
    /\ name' = [name EXCEPT ![w] = Head(queue)]
    /\ pc' = [pc EXCEPT ![w] = IF tmpdir = "gone" THEN "dead" ELSE "taken"]
    /\ tmpFiles' = IF tmpdir = "there" THEN tmpFiles \cup {Head(queue)} ELSE tmpFiles
    /\ UNCHANGED <<inputs, mainPc, next, unfinished, failedFiles, tidied, done,
                   tmpdir, exported, returnCode>>

\* Mutant of Skip: continue without task_done.
SkipForgotten(w) ==
    /\ pc[w] = "taken"
    /\ name[w] \in skipped
    /\ name' = [name EXCEPT ![w] = 0]
    /\ pc' = [pc EXCEPT ![w] = "idle"]
    /\ UNCHANGED <<inputs, mainPc, next, queue, unfinished, done, failedFiles,
                   tidied, tmpVars, exported, returnCode>>

\* CheckConfig.should_skip
Skip(w) ==
    /\ pc[w] = "taken"
    /\ name[w] \in skipped
    /\ TaskDone(w)
    /\ UNCHANGED <<inputs, mainPc, next, queue, failedFiles, tidied, tmpVars,
                   exported, returnCode>>

\* subprocess.Popen, which may raise
Start(w) ==
    /\ pc[w] = "taken"
    /\ name[w] \notin skipped
    /\ \/ Dies(w)
       \/ /\ pc' = [pc EXCEPT ![w] = "running"]
          /\ UNCHANGED <<unfinished, done, name>>
    /\ UNCHANGED <<inputs, mainPc, next, queue, failedFiles, tidied, tmpVars,
                   exported, returnCode>>

\* communicate() returns; clang-tidy has written its replacements to the
\* temporary file, which it creates anew if it has been removed.
Communicate(w) ==
    /\ pc[w] = "running"
    /\ pc' = [pc EXCEPT ![w] = "printing"]
    /\ tidied' = tidied \cup {name[w]}
    /\ \/ UNCHANGED failedFiles
       \/ failedFiles' = Append(failedFiles, name[w])
    /\ tmpFiles' = IF tmpdir = "there" THEN tmpFiles \cup {name[w]} ELSE tmpFiles
    /\ UNCHANGED <<inputs, mainPc, next, queue, unfinished, name, done, tmpdir,
                   exported, returnCode>>

\* with lock: decode and write, which may raise; then task_done.
Output(w) ==
    /\ pc[w] = "printing"
    /\ Dies(w) \/ TaskDone(w)
    /\ UNCHANGED <<inputs, mainPc, next, queue, failedFiles, tidied, tmpVars,
                   exported, returnCode>>

WorkerNext(w) ==
    /\ mainPc \notin Ended
    /\ Get(w) \/ Skip(w) \/ Start(w) \/ Communicate(w) \/ Output(w)

Next == MainNext \/ Interrupt \/ \E w \in Workers : WorkerNext(w)

Spec == Init /\ [][Next]_vars

(***************************************************************************)
(* Threads run, clang-tidy comes to an end, nobody has to press Ctrl-C.    *)
(***************************************************************************)
FairSpec ==
    /\ Spec
    /\ WF_vars(MainNext)
    /\ \A w \in Workers : WF_vars(WorkerNext(w))
----------------------------------------------------------------------------
(***************************************************************************)
(* Properties                                                              *)
(***************************************************************************)
Held == {w \in Workers : pc[w] # "idle"}

\* Every file put is in exactly one place, the queue, the hands of one thread
\* (perhaps a dead one) or behind task_done, however puts and gets interleave,
\* and the counter behind task_queue.join() counts those not done.
EachFileOnce ==
    LET Queued == ToSet(queue)
        InHand == {name[w] : w \in Held}
    IN  /\ Queued \cup InHand \cup done = 1..(next - 1)
        /\ Queued \cap InHand = {}
        /\ (Queued \cup InHand) \cap done = {}
        /\ Len(queue) = Cardinality(Queued)
        /\ Cardinality(InHand) = Cardinality(Held)
        /\ unfinished = Len(queue) + Cardinality(Held)

\* Exit status 0 means that every file was checked, that none failed and that
\* the file asked for with -export-fixes holds all there was to export.
ExitZeroMeansClean ==
    mainPc = "exit" /\ returnCode = 0 =>
        /\ tidied = (1..total) \ skipped
        /\ failedFiles = <<>>
        /\ args.export => exported = "empty" /\ total = 0

\* The program ends, except where a file does not match the patterns (the
\* loop around put never ends) or a thread has died with a file in its hands
\* (join never returns).
EndsUnlessStuck ==
    <>(\/ mainPc \in Ended
       \/ mainPc = "put" /\ next \in (1..total) \ matching
       \/ \E w \in Workers : pc[w] = "dead")
=============================================================================
