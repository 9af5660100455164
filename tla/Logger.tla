------------------------------- MODULE Logger -------------------------------
(***************************************************************************)
(* The asynchronous logger: any thread pushes into a queue, one writer     *)
(* thread swaps the queue for an empty one and writes it out.              *)
(*                                                                         *)
(* Source: common/logger.cpp, include/common/logger.hpp.                   *)
(*                                                                         *)
(* Time is one flag: whether more than REFRESH_THRESHOLD has passed since  *)
(* last_flush_.  Static destruction may start while other threads still    *)
(* log (Poller::poll calls exit from whatever loop it runs in).            *)
(***************************************************************************)
EXTENDS Naturals, Sequences

CONSTANTS Producers,        \* the threads that log
          Logs,             \* the messages, each logged once
          COUNT_THRESHOLD,
          Spurious,         \* whether a wait may end without a notification
          LateLogs          \* whether threads still log once ~Logger has begun

ASSUME LoggerAssumption ==
    /\ COUNT_THRESHOLD \in Nat
    /\ Spurious \in BOOLEAN /\ LateLogs \in BOOLEAN

VARIABLES queue,      \* queue_
          batch,      \* writer_queue
          written,    \* what the logging strategy has put into the file
          expired,    \* getCurrentTime() - last_flush_ > REFRESH_THRESHOLD
          locked,     \* whether the writer holds mtx_
          pc,         \* where the writer is
          notifying,  \* the producers that have pushed and are to notify
          done,       \* done_
          ownerPc,    \* the stage of ~Logger
          pushed,     \* history: every message pushed, in order
          owed        \* history: how many of them the writer could see before it exits

writerVars == <<batch, written, locked, pc>>
history == <<pushed, owed>>
vars == <<queue, writerVars, expired, notifying, done, ownerPc, history>>

TypeOK ==
    /\ queue \in Seq(Logs) /\ batch \in Seq(Logs) /\ written \in Seq(Logs)
    /\ expired \in BOOLEAN /\ locked \in BOOLEAN /\ done \in BOOLEAN
    /\ pc \in {"lock", "check", "block", "waiting", "swap", "write", "flushed",
               "test", "exited"}
    /\ notifying \subseteq Producers
    /\ ownerPc \in {"use", "notify", "join", "destroyed"}
    /\ pushed \in Seq(Logs) /\ owed \in Nat

Init ==
    /\ queue = <<>> /\ batch = <<>> /\ written = <<>> /\ pushed = <<>> /\ owed = 0
    /\ expired = FALSE
    /\ locked = FALSE
    /\ pc = "lock"
    /\ notifying = {}
    /\ done = FALSE
    /\ ownerPc = "use"

\* The threshold passes.
Tick ==
    /\ ~expired
    /\ expired' = TRUE
    /\ UNCHANGED <<queue, writerVars, notifying, done, ownerPc, history>>
----------------------------------------------------------------------------
(***************************************************************************)
(* pushLog                                                                 *)
(***************************************************************************)
Logged == {pushed[i] : i \in DOMAIN pushed}

MayLog == ownerPc = "use" \/ (LateLogs /\ ownerPc # "destroyed")

\* Mutant of Push: the size is compared before the message is in the queue.
PushTestsOldSize(p) ==
    /\ p \notin notifying
    /\ ~locked
    /\ MayLog
    /\ \E m \in Logs \ Logged :
         /\ queue' = Append(queue, m)
         /\ pushed' = Append(pushed, m)
    /\ notifying' = IF expired \/ Len(queue) > COUNT_THRESHOLD
                    THEN notifying \cup {p} ELSE notifying
    /\ UNCHANGED <<writerVars, expired, done, ownerPc, owed>>

\* Under the mutex: the message goes into the queue, and the producer decides
\* whether the writer has something to do ...
Push(p) ==
    /\ p \notin notifying
    /\ ~locked
    /\ MayLog
    /\ \E m \in Logs \ Logged :
         /\ queue' = Append(queue, m)
         /\ pushed' = Append(pushed, m)
    /\ notifying' = IF expired \/ Len(queue') > COUNT_THRESHOLD
                    THEN notifying \cup {p} ELSE notifying
    /\ UNCHANGED <<writerVars, expired, done, ownerPc, owed>>

WakeWriter == pc' = IF pc = "waiting" THEN "lock" ELSE pc

\* ... which it is told after the mutex is released.
Notify(p) ==
    /\ p \in notifying
    /\ notifying' = notifying \ {p}
    /\ WakeWriter
    /\ UNCHANGED <<queue, batch, written, expired, locked, done, ownerPc, history>>
----------------------------------------------------------------------------
(***************************************************************************)
(* LogWriting, the writer thread                                           *)
(***************************************************************************)
Lock ==
    /\ pc = "lock"
    /\ locked' = TRUE
    /\ pc' = "check"
    /\ UNCHANGED <<queue, batch, written, expired, notifying, done, ownerPc, history>>

\* Mutant of Check: a logger that is done is left without a look at the queue.
CheckLeaves ==
    /\ pc = "check"
    /\ pc' = CASE done -> "test"
               [] ~done /\ (Len(queue) > COUNT_THRESHOLD \/ expired) -> "swap"
               [] OTHER -> "block"
    /\ UNCHANGED <<queue, batch, written, expired, locked, notifying, done, ownerPc, history>>

\* The predicate of cv_.wait ...
Check ==
    /\ pc = "check"
    /\ pc' = IF done \/ Len(queue) > COUNT_THRESHOLD \/ expired THEN "swap" ELSE "block"
    /\ UNCHANGED <<queue, batch, written, expired, locked, notifying, done, ownerPc, history>>

\* ... and its wait, which gives up the mutex.
Block ==
    /\ pc = "block"
    /\ locked' = FALSE
    /\ pc' = "waiting"
    /\ UNCHANGED <<queue, batch, written, expired, notifying, done, ownerPc, history>>

Wakeup ==
    /\ Spurious
    /\ pc = "waiting"
    /\ pc' = "lock"
    /\ UNCHANGED <<queue, batch, written, expired, locked, notifying, done, ownerPc, history>>

\* Mutant of Swap: the mutex is released before the queues are swapped, so the
\* writer copies a queue and later clears the one that has grown since.
SwapUnlocked ==
    /\ pc = "swap"
    /\ batch' = queue
    /\ UNCHANGED queue
    /\ pc' = IF queue # <<>> THEN "write" ELSE "test"
    /\ locked' = (queue = <<>>)
    /\ UNCHANGED <<written, expired, notifying, done, ownerPc, history>>

\* The queues are swapped and the mutex released, if there is anything.
Swap ==
    /\ pc = "swap"
    /\ batch' = queue
    /\ queue' = <<>>
    /\ pc' = IF queue # <<>> THEN "write" ELSE "test"
    /\ locked' = (queue = <<>>)
    /\ UNCHANGED <<written, expired, notifying, done, ownerPc, history>>

\* Mutant of Write: the batch is put out as one entry.
WriteNested ==
    /\ pc = "write"
    /\ written' = Append(written, batch)
    /\ batch' = <<>>
    /\ pc' = "flushed"
    /\ UNCHANGED <<queue, expired, locked, notifying, done, ownerPc, history>>

\* log_strategy_, without the mutex ...
Write ==
    /\ pc = "write"
    /\ written' = written \o batch
    /\ batch' = <<>>
    /\ pc' = "flushed"
    /\ UNCHANGED <<queue, expired, locked, notifying, done, ownerPc, history>>

\* ... then the new last_flush_ ...
Flushed ==
    /\ pc = "flushed"
    /\ expired' = FALSE
    /\ pc' = "test"
    /\ UNCHANGED <<queue, batch, written, locked, notifying, done, ownerPc, history>>

\* ... and the writer returns or goes round again.
Test ==
    /\ pc = "test"
    /\ locked' = FALSE
    /\ pc' = IF done THEN "exited" ELSE "lock"
    /\ UNCHANGED <<queue, batch, written, expired, notifying, done, ownerPc, history>>

WriterStep == Lock \/ Check \/ Block \/ Swap \/ Write \/ Flushed \/ Test
----------------------------------------------------------------------------
(***************************************************************************)
(* ~Logger                                                                 *)
(***************************************************************************)
SetDone ==
    /\ ownerPc = "use"
    /\ done' = TRUE
    /\ ownerPc' = "notify"
    /\ owed' = IF pc \in {"write", "flushed", "test"}
               THEN Len(written) + Len(batch) ELSE Len(pushed)
    /\ UNCHANGED <<queue, writerVars, expired, notifying, pushed>>

NotifyDone ==
    /\ ownerPc = "notify"
    /\ WakeWriter
    /\ ownerPc' = "join"
    /\ UNCHANGED <<queue, batch, written, locked, expired, notifying, done, history>>

Join ==
    /\ ownerPc = "join"
    /\ pc = "exited"
    /\ ownerPc' = "destroyed"
    /\ UNCHANGED <<queue, writerVars, expired, notifying, done, history>>

Next ==
    \/ Tick
    \/ \E p \in Producers : Push(p) \/ Notify(p)
    \/ WriterStep \/ Wakeup
    \/ SetDone \/ NotifyDone \/ Join

Spec == Init /\ [][Next]_vars

\* Time passes and every thread keeps running.  Nobody is obliged to log or to
\* destroy the logger, and no wakeup is owed without a notification.
FairSpec ==
    /\ Spec
    /\ WF_vars(Tick)
    /\ \A p \in Producers : WF_vars(Notify(p))
    /\ WF_vars(WriterStep)
    /\ WF_vars(NotifyDone \/ Join)
----------------------------------------------------------------------------
\* Messages reach the file in the order of pushLog and none twice: file, batch of the
\* writer and queue make up what has been pushed, also when messages arrive while the
\* writer writes (logger.cpp:119-120, 144-149).  What is not in the file is the last
\* part of what was pushed; it stays there for ever once the writer has returned.
FirstInFirstOut == written \o batch \o queue = pushed

\* On exit the writer has recorded the log that was in the queue when ~Logger began,
\* as logger.cpp:142-143 says, unless it was between its last look at the queue and
\* its test of done_: what was pushed during that write, and what is pushed once
\* ~Logger has begun, may be left in the queue (logger.cpp:151).
RemainingLogRecorded == pc = "exited" => Len(written) >= owed

\* A queue beyond COUNT_THRESHOLD is taken by the writer, or the logger is
\* being destroyed: the notification, sent without the mutex, is not lost
\* (logger.cpp:122-129, 139-146).
OverfullQueueFlushed ==
    Len(queue) > COUNT_THRESHOLD ~> Len(queue) <= COUNT_THRESHOLD \/ done
=============================================================================
