---------------------------- MODULE LoggerProofs ----------------------------
(***************************************************************************)
(* The logger writes messages in the order in which they were pushed, and  *)
(* on exit has written those that ~Logger found, for any number of threads *)
(* and messages and any threshold.                                         *)
(***************************************************************************)
EXTENDS Logger, TLAPS

\* The writer's own queue is empty except while it has a batch to write.
BatchInv == pc # "write" => batch = <<>>

\* What is owed has been pushed; once the writer will not look at the queue again,
\* it is in the file or in the batch.
OwedInv ==
    done => /\ owed <= Len(pushed)
            /\ pc \in {"write", "flushed", "test", "exited"} =>
                  owed <= Len(written) + Len(batch)

\* The destructor sets done_ once, and the writer returns only when it has seen it.
ExitInv == (pc = "exited" => done) /\ (ownerPc = "use" => ~done)

IInv == TypeOK /\ BatchInv /\ FirstInFirstOut /\ OwedInv /\ ExitInv

\* Appending to the last of three sequences appends to what they make up.
LEMMA ConcatAppend ==
    ASSUME NEW S, NEW a \in Seq(S), NEW b \in Seq(S), NEW c \in Seq(S), NEW m \in S
    PROVE  a \o b \o Append(c, m) = Append(a \o b \o c, m)
<1> DEFINE ab == a \o b
<1>1. ab \in Seq(S)
  OBVIOUS
<1> HIDE DEF ab
<1>2. ab \o Append(c, m) = Append(ab \o c, m)
  BY <1>1
<1>. QED  BY <1>2 DEF ab

\* An empty batch may be dropped: the one the writer starts with, and the one it
\* leaves behind.
LEMMA ConcatEmpty ==
    ASSUME NEW S, NEW a \in Seq(S), NEW b \in Seq(S), NEW c \in Seq(S)
    PROVE  /\ a \o b \o <<>> = a \o <<>> \o b
           /\ (a \o b) \o <<>> \o c = a \o b \o c
<1> DEFINE ab == a \o b
<1>1. ab \in Seq(S)
  OBVIOUS
<1>2. a \o <<>> = a
  OBVIOUS
<1> HIDE DEF ab
<1>3. ab \o <<>> = ab
  BY <1>1
<1>. QED  BY <1>2, <1>3 DEF ab

\* Init of the logger (logger.cpp:93-97) establishes the invariant.
LEMMA Initially == Init => IInv
<1> SUFFICES ASSUME Init  PROVE IInv
  OBVIOUS
<1>1. <<>> \in Seq(Logs) /\ <<>> \o <<>> \o <<>> = <<>>
  BY ConcatEmpty
<1>2. TypeOK /\ BatchInv /\ OwedInv /\ ExitInv
  BY <1>1 DEF Init, TypeOK, BatchInv, OwedInv, ExitInv
<1>3. FirstInFirstOut
  BY <1>1 DEF Init, FirstInFirstOut
<1>. QED  BY <1>2, <1>3 DEF IInv

\* Every step of a logging thread, the writer and the destructor preserves it.
LEMMA Inductive == IInv /\ [Next]_vars => IInv'
<1> SUFFICES ASSUME IInv, [Next]_vars  PROVE IInv'
  OBVIOUS
<1> USE DEF IInv, TypeOK, BatchInv, FirstInFirstOut, OwedInv, ExitInv, writerVars, history
<1>1. CASE Tick
  BY <1>1 DEF Tick
<1>2. ASSUME NEW p \in Producers, Push(p)  PROVE IInv'
  <2>1. PICK m \in Logs \ Logged : queue' = Append(queue, m) /\ pushed' = Append(pushed, m)
    BY <1>2 DEF Push
  <2>2. UNCHANGED <<batch, written, pc, expired, locked, done, ownerPc, owed>>
    BY <1>2 DEF Push
  <2>3. FirstInFirstOut'
    <3>1. written \o batch \o Append(queue, m) = Append(written \o batch \o queue, m)
      <4>1. m \in Logs /\ written \in Seq(Logs) /\ batch \in Seq(Logs) /\ queue \in Seq(Logs)
        OBVIOUS
      <4>. QED  BY ONLY <4>1, ConcatAppend
    <3>. QED  BY <2>1, <2>2, <3>1
  <2>4. notifying' \subseteq Producers
    BY <1>2 DEF Push
  <2>5. TypeOK' /\ BatchInv'
    BY <2>1, <2>2, <2>4
  <2>6. Len(pushed') = Len(pushed) + 1 /\ Len(pushed) \in Nat
    BY <2>1
  <2>7. OwedInv' /\ ExitInv'
    BY <2>2, <2>6
  <2>. QED  BY <2>3, <2>5, <2>7
<1>3. ASSUME NEW p \in Producers, Notify(p)  PROVE IInv'
  BY <1>3 DEF Notify, WakeWriter
<1>4. CASE Lock \/ Check \/ Block
  <2>1. UNCHANGED <<queue, batch, written, pushed, owed>>
    BY <1>4 DEF Lock, Check, Block
  <2>2. TypeOK' /\ BatchInv'
    BY <1>4 DEF Lock, Check, Block
  <2>3. ExitInv'
    BY <1>4 DEF Lock, Check, Block
  <2>4. OwedInv'
    BY <1>4, <2>1 DEF Lock, Check, Block
  <2>. QED  BY <2>1, <2>2, <2>3, <2>4
<1>5. CASE Swap
  <2>1. batch = <<>> /\ batch' = queue /\ queue' = <<>> /\ UNCHANGED <<written, pushed>>
    BY <1>5 DEF Swap
  <2>2. FirstInFirstOut'
    BY <2>1, ConcatEmpty
  <2>3. TypeOK' /\ BatchInv' /\ ExitInv'
    BY <1>5 DEF Swap
  <2>4. Len(pushed) = Len(written) + Len(queue)
    BY <2>1
  <2>5. OwedInv'
    BY <1>5, <2>1, <2>4 DEF Swap
  <2>. QED  BY <2>2, <2>3, <2>5
<1>6. CASE Write
  <2>1. written' = written \o batch /\ batch' = <<>> /\ UNCHANGED <<queue, pushed>>
    BY <1>6 DEF Write
  <2>2. FirstInFirstOut'
    BY <2>1, ConcatEmpty
  <2>3. TypeOK' /\ BatchInv' /\ ExitInv'
    BY <1>6 DEF Write
  <2>4. Len(written') + Len(batch') = Len(written) + Len(batch)
    BY <2>1
  <2>5. OwedInv'
    BY <1>6, <2>1, <2>4 DEF Write
  <2>. QED  BY <2>2, <2>3, <2>5
<1>7. CASE Flushed \/ Test \/ Wakeup
  <2>1. UNCHANGED <<queue, batch, written, pushed, owed>>
    BY <1>7 DEF Flushed, Test, Wakeup
  <2>2. TypeOK' /\ BatchInv'
    BY <1>7 DEF Flushed, Test, Wakeup
  <2>3. ExitInv'
    BY <1>7 DEF Flushed, Test, Wakeup
  <2>4. OwedInv'
    BY <1>7, <2>1 DEF Flushed, Test, Wakeup
  <2>. QED  BY <2>1, <2>2, <2>3, <2>4
<1>8. CASE SetDone
  <2>1. Len(written) + Len(batch) <= Len(pushed) /\ Len(pushed) \in Nat
    <3>1. Len(written \o batch \o queue) = Len(written) + Len(batch) + Len(queue)
      OBVIOUS
    <3>. QED  BY <3>1
  <2>2. /\ pc # "exited"
        /\ owed' \in {Len(pushed), Len(written) + Len(batch)}
        /\ pc \in {"write", "flushed", "test"} => owed' = Len(written) + Len(batch)
        /\ UNCHANGED <<queue, writerVars, expired, notifying, pushed>>
    BY <1>8 DEF SetDone
  <2>3. TypeOK' /\ BatchInv' /\ FirstInFirstOut' /\ ExitInv'
    BY <1>8 DEF SetDone
  <2>4. owed' <= Len(pushed)
    BY <2>1, <2>2
  <2>5. OwedInv'
    BY <2>2, <2>4
  <2>. QED  BY <2>3, <2>5
<1>10. CASE NotifyDone \/ Join
  <2>1. UNCHANGED <<queue, batch, written, pushed, owed>>
    BY <1>10 DEF NotifyDone, Join, WakeWriter
  <2>2. TypeOK' /\ BatchInv'
    BY <1>10 DEF NotifyDone, Join, WakeWriter
  <2>3. ExitInv'
    BY <1>10 DEF NotifyDone, Join, WakeWriter
  <2>4. OwedInv'
    BY <1>10, <2>1 DEF NotifyDone, Join, WakeWriter
  <2>. QED  BY <2>1, <2>2, <2>3, <2>4
<1>9. CASE UNCHANGED vars
  BY <1>9 DEF vars
<1>. QED
  BY <1>1, <1>2, <1>3, <1>4, <1>5, <1>6, <1>7, <1>8, <1>9, <1>10 DEF Next, WriterStep

\* The queue, the batch and the file hold messages in every reachable state
\* (logger.cpp:89-156).
THEOREM TypeCorrect == Spec => []TypeOK
<1>1. IInv => TypeOK
  BY DEF IInv
<1>. QED  BY <1>1, Initially, Inductive, PTL DEF Spec

\* Messages are written in the order of pushLog and none twice, whatever arrives
\* while the writer writes (logger.cpp:119-120, 144-149).
THEOREM InOrder == Spec => []FirstInFirstOut
<1>1. IInv => FirstInFirstOut
  BY DEF IInv
<1>. QED  BY <1>1, Initially, Inductive, PTL DEF Spec

\* The writer does not return before it has written what it found, or could still find,
\* in the queue when ~Logger began (logger.cpp:102-108, 142-154).
THEOREM Recorded == Spec => []RemainingLogRecorded
<1>1. IInv => RemainingLogRecorded
  BY DEF IInv, TypeOK, BatchInv, OwedInv, ExitInv, RemainingLogRecorded
<1>. QED  BY <1>1, Initially, Inductive, PTL DEF Spec
=============================================================================
