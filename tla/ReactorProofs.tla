---------------------------- MODULE ReactorProofs ----------------------------
(***************************************************************************)
(* Proofs about Reactor, for any number of loops, clients, descriptors and *)
(* connections and any bounds.                                             *)
(*                                                                         *)
(* None of the safety properties is inductive by itself: that a callback's *)
(* connection is alive rests on what epoll may report, which rests on when *)
(* descriptors are closed and re-used, which rests on the map and on the   *)
(* mutex.  IInv collects these facts; one lemma per action shows that the  *)
(* action preserves them.  The same invariant carries the refinement: each *)
(* step is a step of Sessions or leaves every session as it is.            *)
(***************************************************************************)
EXTENDS Reactor, TLAPS

\* A live Connection has a loop and an open descriptor of its own, and every
\* open descriptor of a client has a Connection.
FdInv ==
    /\ \A p \in Live : connLoop[p] # None /\ fdFile[connFd[p]] \in Clients
    /\ \A p, q \in Live : connFd[p] = connFd[q] => p = q
    /\ \A f \in Fds : fdFile[f] # None =>
         (\E p \in Live : connFd[p] = f) \/ (CgiEnabled /\ fdFile[f] = ResultFile)

\* No client's file has two descriptors, and a waiting client has no file yet.
FileInv ==
    /\ \A f, g \in Fds : fdFile[f] = fdFile[g] /\ fdFile[f] \in Clients => f = g
    /\ \A i, j \in 1 .. Len(backlog) : backlog[i] = backlog[j] => i = j
    /\ \A i \in 1 .. Len(backlog) :
         /\ \A f \in Fds : fdFile[f] # backlog[i]
         /\ \A l \in Loops : backlog[i] \notin childFiles[l]

\* A map entry is the live Connection of its loop and descriptor.
MapInv ==
    \A l \in Loops, f \in Fds : connections[l][f] # None =>
        /\ connections[l][f] \in Live
        /\ connFd[connections[l][f]] = f
        /\ connLoop[connections[l][f]] = l

\* Every live Connection is in its loop's map or in the main thread's hands.
OwnerInv ==
    \A p \in Live : \/ InFlight /\ newConn = p
                    \/ connections[connLoop[p]][connFd[p]] = p

\* The mutex is held by whoever is inside addConnection or deleteConnection.
MutexInv ==
    /\ mainPc \in {"ctl", "insert"} => mtx[connLoop[newConn]] = Main
    /\ \A l \in Loops : loopPc[l] = "erase" => mtx[l] = l

\* A callback runs for a live Connection of its loop, and one that is still
\* being handed over has been registered.
HandlerInv ==
    \A l \in Loops : InHandler(l) =>
        /\ cur[l] \in Live
        /\ connLoop[cur[l]] = l
        /\ InFlight /\ newConn = cur[l] => mainPc = "insert"

\* So does every callback still to come, and none is due twice.
BatchInv ==
    \A l \in Loops :
        /\ loopPc[l] = "poll" => batch[l] = {}
        /\ \A r \in batch[l] :
             /\ Current(r)
             /\ connLoop[r.ptr] = l
             /\ InHandler(l) => cur[l] # r.ptr
             /\ InFlight /\ newConn = r.ptr => mainPc = "insert"

\* A registration is that of a live Connection of the loop, or one that only
\* a CGI child's copy of the descriptor keeps.
EpollInv ==
    \A l \in Loops :
        /\ ready[l] \subseteq interest[l]
        /\ \A r \in interest[l] :
             \/ /\ Current(r)
                /\ connLoop[r.ptr] = l
                /\ InFlight /\ newConn = r.ptr => mainPc = "insert"
             \/ /\ \E m \in Loops : r.file \in childFiles[m]
                /\ \A f \in Fds : fdFile[f] # r.file

\* Only a loop that waits for its CGI child has one.
ChildInv ==
    \A l \in Loops :
        /\ loopPc[l] # "cgi" => childFiles[l] = {}
        /\ ~CgiEnabled => loopPc[l] # "cgi"

\* While epoll_ctl succeeds, every Connection handed over is registered.
RegisteredInv ==
    ~CtlMayFail => \A p \in Live :
        \/ InFlight /\ newConn = p /\ mainPc # "insert"
        \/ RegOf(p) \in interest[connLoop[p]]

IInv ==
    /\ TypeOK
    /\ FdInv
    /\ FileInv
    /\ MapInv
    /\ HandoverSafe
    /\ OwnerInv
    /\ MutexInv
    /\ HandlerInv
    /\ BatchInv
    /\ EpollInv
    /\ ChildInv
    /\ NoStuckInput
    /\ RegisteredInv
----------------------------------------------------------------------------
USE NamesAssumption, BoundsAssumption
USE DEF HandlerPcs, LoopPcs, MainPcs, InFlight, InHandler, Reg, procVars, mainVars, loopVars,
        sockVars, epollVars

\* basicAcceptBehavior takes a fresh descriptor and a fresh Connection.
LEMMA AcceptStep ==
    ASSUME IInv, Accept
    PROVE  IInv'
<1>1. PICK f \in FreeFds, p \in Conns \ Live, l \in Loops :
         /\ fdFile' = [fdFile EXCEPT ![f] = Head(backlog)]
         /\ connFd' = [connFd EXCEPT ![p] = f]
         /\ connLoop' = [connLoop EXCEPT ![p] = l]
         /\ newConn' = p
  BY DEF Accept
<1>2. f \in Fds /\ fdFile[f] = None /\ p \in Conns /\ connFd[p] = None
  BY DEF FreeFds, Live
<1>3. Live' = Live \cup {p}
  BY <1>1, <1>2 DEF IInv, TypeOK, Live
<1>4. /\ backlog \in Seq(Clients) /\ backlog # <<>>
      /\ backlog' = Tail(backlog)
  BY DEF IInv, TypeOK, Accept
<1>5. /\ Head(backlog) \in Clients
      /\ Head(backlog) = backlog[1]
      /\ Len(backlog') = Len(backlog) - 1 /\ Len(backlog) \in Nat \ {0}
      /\ \A i \in 1 .. Len(backlog') : backlog'[i] = backlog[i + 1] /\ i + 1 \in 1 .. Len(backlog)
  BY <1>4
<1>6. /\ \A g \in Fds : fdFile[g] # Head(backlog)
      /\ \A m \in Loops : Head(backlog) \notin childFiles[m]
      /\ \A i \in 1 .. Len(backlog') : backlog'[i] # Head(backlog)
  <2>1. 1 \in 1 .. Len(backlog) /\ \A i \in 1 .. Len(backlog') : i + 1 # 1
    BY <1>5
  <2>2. /\ \A g \in Fds : fdFile[g] # Head(backlog)
        /\ \A m \in Loops : Head(backlog) \notin childFiles[m]
    BY <1>5, <2>1 DEF IInv, FileInv
  <2>3. \A i \in 1 .. Len(backlog') : backlog'[i] # Head(backlog)
    BY <1>5, <2>1 DEF IInv, FileInv
  <2>. QED
    BY <2>2, <2>3
<1>7. \A m \in Loops : \A r \in interest[m] : r \in Reg /\ r.file # Head(backlog)
  BY <1>6 DEF IInv, EpollInv, Current, TypeOK, Live
<1>10. TypeOK'
  BY <1>1, <1>2, <1>4, <1>5 DEF IInv, TypeOK, Accept
<1>11. FdInv'
  BY <1>1, <1>2, <1>3, <1>5 DEF IInv, TypeOK, FdInv, Live
<1>12. FileInv'
  BY <1>1, <1>2, <1>5, <1>6 DEF IInv, TypeOK, FileInv, Accept
<1>13. MapInv'
  BY <1>1, <1>2, <1>3 DEF IInv, TypeOK, MapInv, Accept, Live
<1>14. HandoverSafe'
  BY <1>1, <1>2, <1>3 DEF IInv, TypeOK, FdInv, MapInv, HandoverSafe, Accept, Live
<1>15. OwnerInv'
  BY <1>1, <1>2, <1>3 DEF IInv, TypeOK, OwnerInv, Accept, Live
<1>16. MutexInv'
  BY DEF IInv, MutexInv, Accept
<1>17. HandlerInv'
  BY <1>1, <1>2, <1>3 DEF IInv, TypeOK, HandlerInv, Accept, Live
<1>18. BatchInv'
  BY <1>1, <1>2, <1>3 DEF IInv, TypeOK, BatchInv, Current, Accept, Live
<1>19. EpollInv'
  BY <1>1, <1>2, <1>3, <1>7 DEF IInv, TypeOK, EpollInv, Current, Accept, Live
<1>20. ChildInv'
  BY DEF IInv, ChildInv, Accept
<1>21. NoStuckInput'
  BY <1>1, <1>2, <1>3, <1>7 DEF IInv, TypeOK, NoStuckInput, Readable, Current, Accept, Live
<1>22. RegisteredInv'
  BY <1>1, <1>2, <1>3 DEF IInv, TypeOK, FdInv, RegisteredInv, RegOf, Accept, Live
<1>. QED
  BY <1>10, <1>11, <1>12, <1>13, <1>14, <1>15, <1>16, <1>17, <1>18, <1>19, <1>20, <1>21, <1>22
     DEF IInv

\* addConnection inserts under a key that is free.
LEMMA AddInsertStep ==
    ASSUME IInv, AddInsert
    PROVE  IInv'
<1> DEFINE l == connLoop[newConn]
           f == connFd[newConn]
<1>1. newConn \in Live /\ l \in Loops /\ f \in Fds /\ connections[l][f] = None
  BY DEF IInv, TypeOK, FdInv, HandoverSafe, AddInsert, Live
<1>2. /\ connections' = [connections EXCEPT ![l][f] = newConn]
      /\ mtx' = [mtx EXCEPT ![l] = None]
      /\ UNCHANGED <<connFd, connLoop, loopVars, sockVars, epollVars, childFiles>>
      /\ mainPc = "insert" /\ mainPc' = "poll" /\ newConn' = None
  BY <1>1 DEF AddInsert
<1>3. \A m \in Loops, g \in Fds :
        connections'[m][g] = IF m = l /\ g = f THEN newConn ELSE connections[m][g]
  BY <1>1, <1>2 DEF IInv, TypeOK
<1>4. Live' = Live
  BY <1>2 DEF Live
<1>10. TypeOK'
  <2>1. newConn \in Conns
    BY <1>1 DEF Live
  <2>2. connections' \in [Loops -> [Fds -> Conns \cup {None}]]
    BY <1>1, <1>2, <2>1 DEF IInv, TypeOK
  <2>3. mtx' \in [Loops -> Loops \cup {Main, None}]
    BY <1>2 DEF IInv, TypeOK
  <2>. QED
    BY <1>2, <2>2, <2>3 DEF IInv, TypeOK
<1>11. FdInv' /\ FileInv' /\ ChildInv'
  BY <1>2, <1>4 DEF IInv, FdInv, FileInv, ChildInv
<1>12. MapInv'
  BY <1>1, <1>2, <1>3, <1>4 DEF IInv, MapInv
<1>13. HandoverSafe'
  BY <1>2 DEF HandoverSafe
<1>14. OwnerInv'
  BY <1>1, <1>2, <1>3, <1>4 DEF IInv, TypeOK, FdInv, OwnerInv, Live
<1>15. MutexInv'
  BY <1>1, <1>2 DEF IInv, TypeOK, MutexInv
<1>16. HandlerInv' /\ BatchInv' /\ EpollInv' /\ NoStuckInput'
  BY <1>2, <1>4 DEF IInv, HandlerInv, BatchInv, EpollInv, NoStuckInput, Current, Readable
<1>17. RegisteredInv'
  BY <1>2, <1>4 DEF IInv, RegisteredInv, RegOf
<1>. QED
  BY <1>10, <1>11, <1>12, <1>13, <1>14, <1>15, <1>16, <1>17 DEF IInv

\* A CGI child inherits open files only, so none that waits in the listen queue.
LEMMA ForkStep ==
    ASSUME NEW l \in Loops, IInv, Fork(l)
    PROVE  IInv'
<1>1. /\ childFiles' = [childFiles EXCEPT ![l] = OpenFiles]
      /\ childFiles[l] = {} /\ loopPc[l] = "handle"
      /\ loopPc' = [loopPc EXCEPT ![l] = "cgi"]
      /\ UNCHANGED <<procVars, mainVars, batch, cur, sockVars, epollVars>>
  BY DEF IInv, ChildInv, Fork
<1>2. Live' = Live /\ \A r : Current(r)' = Current(r)
  BY <1>1 DEF Live, Current
<1>3. TypeOK'
  BY DEF IInv, TypeOK, Fork, OpenFiles
<1>4. FdInv' /\ MapInv' /\ HandoverSafe' /\ OwnerInv' /\ RegisteredInv'
  BY <1>1, <1>2 DEF IInv, FdInv, MapInv, HandoverSafe, OwnerInv, RegisteredInv, RegOf
<1>5. FileInv'
  BY <1>1 DEF IInv, TypeOK, FileInv, OpenFiles
<1>6. MutexInv' /\ HandlerInv' /\ BatchInv'
  BY <1>1, <1>2 DEF IInv, TypeOK, MutexInv, HandlerInv, BatchInv
<1>7. \A m \in Loops : childFiles[m] \subseteq childFiles'[m]
  BY <1>1 DEF IInv, TypeOK
<1>8. EpollInv'
  BY <1>1, <1>2, <1>7 DEF IInv, EpollInv
<1>9. ChildInv'
  BY <1>1 DEF IInv, TypeOK, ChildInv, Fork
<1>10. NoStuckInput'
  BY <1>1, <1>2 DEF IInv, TypeOK, NoStuckInput, Readable
<1>. QED
  BY <1>3, <1>4, <1>5, <1>6, <1>8, <1>9, <1>10 DEF IInv

\* The descriptor a failed fork() leaves open was free, and is no client's.
LEMMA ForkFailsStep ==
    ASSUME NEW l \in Loops, IInv, ForkFails(l)
    PROVE  IInv'
<1>1. PICK f \in Fds : fdFile[f] = None /\ fdFile' = [fdFile EXCEPT ![f] = ResultFile]
  BY DEF ForkFails, FreeFds
<1>2. /\ CgiEnabled /\ loopPc[l] = "handle" /\ reqs[l] > 0
      /\ loopPc' = [loopPc EXCEPT ![l] = "send"]
      /\ reqs' = [reqs EXCEPT ![l] = @ - 1]
      /\ UNCHANGED <<procVars, mainVars, batch, cur, backlog, rx, fin, stalled, epollVars,
                     childFiles>>
  BY DEF ForkFails
<1>3. /\ \A g \in Fds : fdFile'[g] = IF g = f THEN ResultFile ELSE fdFile[g]
      /\ \A g \in Fds : fdFile'[g] \in Clients => fdFile'[g] = fdFile[g] /\ g # f
      /\ \A g \in Fds : fdFile[g] \in Clients => fdFile'[g] = fdFile[g]
  BY <1>1 DEF IInv, TypeOK
<1>4. Live' = Live /\ \A p \in Live : connFd[p] \in Fds /\ fdFile'[connFd[p]] = fdFile[connFd[p]]
  BY <1>2, <1>3 DEF IInv, TypeOK, FdInv, Live
<1>5. \A r \in Reg : Current(r)' = Current(r) /\ Readable(r.file)' = Readable(r.file)
  BY <1>2, <1>3, <1>4 DEF Current, Readable
<1>6. TypeOK'
  <2>1. fdFile' \in [Fds -> Clients \cup {ResultFile, None}]
    BY <1>1 DEF IInv, TypeOK
  <2>2. reqs' \in [Loops -> 0 .. MaxReqs]
    BY <1>2 DEF IInv, TypeOK
  <2>. QED
    BY <1>2, <2>1, <2>2 DEF IInv, TypeOK
<1>7. FdInv'
  BY <1>1, <1>2, <1>3, <1>4 DEF IInv, FdInv
<1>8. FileInv'
  <2>1. \A i \in 1 .. Len(backlog) : backlog[i] \in Clients
    BY DEF IInv, TypeOK
  <2>. QED
    BY <1>2, <1>3, <2>1 DEF IInv, FileInv
<1>9. MapInv' /\ HandoverSafe' /\ OwnerInv'
  BY <1>2, <1>4 DEF IInv, MapInv, HandoverSafe, OwnerInv
<1>10. RegisteredInv'
  BY <1>2, <1>4 DEF IInv, RegisteredInv, RegOf
<1>11. MutexInv' /\ HandlerInv' /\ ChildInv'
  BY <1>2, <1>4 DEF IInv, TypeOK, MutexInv, HandlerInv, ChildInv
<1>12. BatchInv'
  BY <1>2, <1>5 DEF IInv, TypeOK, BatchInv
<1>13. EpollInv'
  <2> SUFFICES ASSUME NEW m \in Loops, NEW r \in interest[m]
               PROVE  \/ /\ Current(r)'
                         /\ connLoop[r.ptr] = m
                         /\ InFlight /\ newConn = r.ptr => mainPc = "insert"
                      \/ /\ \E k \in Loops : r.file \in childFiles[k]
                         /\ \A g \in Fds : fdFile'[g] # r.file
    BY <1>2 DEF IInv, EpollInv
  <2>1. r \in Reg /\ r.file \in Clients
    BY DEF IInv, TypeOK
  <2>. QED
    BY <1>3, <1>5, <2>1 DEF IInv, EpollInv
<1>14. NoStuckInput'
  <2>1. \A m \in Loops : \A r \in interest[m] : r \in Reg
    BY DEF IInv, TypeOK
  <2>. QED
    BY <1>2, <1>5, <2>1 DEF IInv, TypeOK, NoStuckInput
<1>. QED
  BY <1>6, <1>7, <1>8, <1>9, <1>10, <1>11, <1>12, <1>13, <1>14 DEF IInv

\* What only the child kept open leaves every epoll instance.
LEMMA ChildExitStep ==
    ASSUME NEW l \in Loops, IInv, ChildExit(l)
    PROVE  IInv'
<1> DEFINE gone == childFiles[l] \ (OpenFiles \cup UNION {childFiles[m] : m \in Loops \ {l}})
<1>1. /\ childFiles' = [childFiles EXCEPT ![l] = {}]
      /\ loopPc[l] = "cgi" /\ loopPc' = [loopPc EXCEPT ![l] = "send"]
      /\ UNCHANGED <<procVars, mainVars, batch, cur, reqs, fdFile, backlog>>
  BY DEF ChildExit
<1>2. /\ interest' = [m \in Loops |-> {r \in interest[m] : r.file \notin gone}]
      /\ ready' = [m \in Loops |-> {r \in ready[m] : r.file \notin gone}]
      /\ rx' = [c \in Clients |-> IF c \in gone THEN 0 ELSE rx[c]]
      /\ fin' = fin \ gone
      /\ stalled' = stalled \ gone
  BY DEF ChildExit, Release
<1>3. /\ \A f \in Fds : fdFile[f] \in Clients => fdFile[f] \notin gone
      /\ \A c \in childFiles[l] \ gone :
            (\E f \in Fds : fdFile[f] = c) \/ (\E m \in Loops \ {l} : c \in childFiles[m])
  BY DEF IInv, TypeOK, OpenFiles
<1>4. Live' = Live /\ \A r : Current(r)' = Current(r)
  BY <1>1 DEF Live, Current
<1>5. TypeOK'
  <2>1. interest' \in [Loops -> SUBSET Reg] /\ ready' \in [Loops -> SUBSET Reg]
    BY <1>2 DEF IInv, TypeOK
  <2>2. rx' \in [Clients -> 0 .. MaxRx]
    BY <1>2 DEF IInv, TypeOK
  <2>3. childFiles' \in [Loops -> SUBSET Clients] /\ loopPc' \in [Loops -> LoopPcs]
    BY <1>1 DEF IInv, TypeOK
  <2>. QED
    BY <1>1, <1>2, <2>1, <2>2, <2>3 DEF IInv, TypeOK
<1>6. FdInv' /\ MapInv' /\ HandoverSafe' /\ OwnerInv'
  BY <1>1, <1>4 DEF IInv, FdInv, MapInv, HandoverSafe, OwnerInv
<1>7. FileInv'
  BY <1>1 DEF IInv, TypeOK, FileInv
<1>8. MutexInv' /\ HandlerInv' /\ BatchInv'
  BY <1>1, <1>4 DEF IInv, TypeOK, MutexInv, HandlerInv, BatchInv
<1>9. EpollInv'
  <2> SUFFICES ASSUME NEW m \in Loops, NEW r \in interest'[m]
               PROVE  \/ /\ Current(r)
                         /\ connLoop[r.ptr] = m
                         /\ InFlight /\ newConn = r.ptr => mainPc = "insert"
                      \/ /\ \E k \in Loops : r.file \in childFiles'[k]
                         /\ \A f \in Fds : fdFile[f] # r.file
    BY <1>1, <1>2, <1>4 DEF IInv, EpollInv
  <2>1. r \in interest[m] /\ r.file \notin gone
    BY <1>2
  <2>2. CASE \E k \in Loops : r.file \in childFiles[k] /\ \A f \in Fds : fdFile[f] # r.file
    <3>1. PICK k \in Loops : r.file \in childFiles[k]
      BY <2>2
    <3>2. PICK m2 \in Loops \ {l} : r.file \in childFiles[m2]
      <4>1. CASE k = l
        BY <1>3, <2>1, <2>2, <3>1, <4>1
      <4>2. CASE k # l
        BY <3>1, <4>2
      <4>. QED  BY <4>1, <4>2
    <3>3. childFiles'[m2] = childFiles[m2]
      BY <1>1, <3>2 DEF IInv, TypeOK
    <3>. QED  BY <2>2, <3>2, <3>3
  <2>. QED
    BY <2>1, <2>2 DEF IInv, EpollInv
<1>10. ChildInv'
  BY <1>1 DEF IInv, TypeOK, ChildInv
<1>11. NoStuckInput'
  BY <1>1, <1>2, <1>4 DEF IInv, TypeOK, NoStuckInput, Readable
<1>12. RegisteredInv'
  <2> SUFFICES ASSUME ~CtlMayFail, NEW p \in Live,
                      ~(InFlight /\ newConn = p /\ mainPc # "insert")
               PROVE  RegOf(p) \in interest'[connLoop[p]]
    BY <1>1, <1>4 DEF RegisteredInv, RegOf
  <2>1. RegOf(p) \in interest[connLoop[p]] /\ connLoop[p] \in Loops
    BY DEF IInv, TypeOK, FdInv, RegisteredInv, Live
  <2>2. RegOf(p).file \notin gone
    BY <1>3 DEF IInv, TypeOK, FdInv, RegOf, Live
  <2>. QED
    BY <1>2, <2>1, <2>2
<1>. QED
  BY <1>5, <1>6, <1>7, <1>8, <1>9, <1>10, <1>11, <1>12 DEF IInv

\* deleteConnection: the mutex excludes a handover of the same connection, so the
\* entry is the callback's own, and no batch refers to it.
LEMMA EraseStep ==
    ASSUME NEW l \in Loops, IInv, Erase(l)
    PROVE  IInv'
<1> DEFINE p == cur[l]
           f == connFd[p]
           file == fdFile[f]
           gone == {file} \ HeldByChild
<1>1. /\ p \in Live /\ p \in Conns /\ connLoop[p] = l
      /\ f \in Fds /\ file \in Clients
      /\ mtx[l] = l
  BY DEF IInv, TypeOK, FdInv, MutexInv, HandlerInv, Erase, Live
<1>2. ~(InFlight /\ newConn = p) /\ connections[l][f] = p
  BY <1>1 DEF IInv, OwnerInv, MutexInv, HandlerInv, Erase
<1>3. /\ connections' = [connections EXCEPT ![l][f] = None]
      /\ mtx' = [mtx EXCEPT ![l] = None]
      /\ connFd' = [connFd EXCEPT ![p] = None]
      /\ connLoop' = [connLoop EXCEPT ![p] = None]
      /\ fdFile' = [fdFile EXCEPT ![f] = None]
      /\ Release(gone)
      /\ Return(l)
      /\ UNCHANGED <<mainVars, batch, childFiles, backlog>>
  BY <1>1, <1>2 DEF Erase, Destroy
<1>4. /\ interest' = [m \in Loops |-> {r \in interest[m] : r.file \notin gone}]
      /\ ready' = [m \in Loops |-> {r \in ready[m] : r.file \notin gone}]
      /\ rx' = [c \in Clients |-> IF c \in gone THEN 0 ELSE rx[c]]
      /\ fin' = fin \ gone
      /\ stalled' = stalled \ gone
  BY <1>3 DEF Release
<1>5. /\ loopPc' \in [Loops -> LoopPcs]
      /\ loopPc'[l] \in {"poll", "dispatch"}
      /\ loopPc'[l] = "poll" => batch[l] = {}
      /\ \A m \in Loops \ {l} : loopPc'[m] = loopPc[m] /\ cur'[m] = cur[m]
      /\ cur' \in [Loops -> Conns \cup {None}]
      /\ reqs' \in [Loops -> 0 .. MaxReqs]
  BY <1>3 DEF IInv, TypeOK, Return
<1>6. Live' = Live \ {p}
  BY <1>1, <1>3 DEF IInv, TypeOK, Live
<1>7. /\ \A m \in Loops, g \in Fds :
            connections'[m][g] = IF m = l /\ g = f THEN None ELSE connections[m][g]
      /\ \A q \in Live \ {p} : q \in Conns /\ connFd'[q] = connFd[q] /\ connLoop'[q] = connLoop[q]
      /\ \A g \in Fds : fdFile'[g] = IF g = f THEN None ELSE fdFile[g]
  BY <1>1, <1>3 DEF IInv, TypeOK, Live
<1>8. \A q \in Live \ {p} : connFd[q] \in Fds /\ connFd[q] # f /\ fdFile[connFd[q]] # file
  BY <1>1 DEF IInv, TypeOK, FdInv, FileInv, Live
<1>9. \A r \in Reg : Current(r)' <=> Current(r) /\ r.ptr # p
  BY <1>1, <1>6, <1>7, <1>8 DEF Current
<1>10. TypeOK'
  <2>1. connections' \in [Loops -> [Fds -> Conns \cup {None}]]
    BY <1>1, <1>3 DEF IInv, TypeOK
  <2>2. mtx' \in [Loops -> Loops \cup {Main, None}]
    BY <1>3 DEF IInv, TypeOK
  <2>3. /\ connFd' \in [Conns -> Fds \cup {None}]
        /\ connLoop' \in [Conns -> Loops \cup {None}]
        /\ fdFile' \in [Fds -> Clients \cup {ResultFile, None}]
    BY <1>3 DEF IInv, TypeOK
  <2>4. interest' \in [Loops -> SUBSET Reg] /\ ready' \in [Loops -> SUBSET Reg]
    BY <1>4 DEF IInv, TypeOK
  <2>5. rx' \in [Clients -> 0 .. MaxRx] /\ fin' \subseteq Clients /\ stalled' \subseteq Clients
    BY <1>4 DEF IInv, TypeOK
  <2>. QED
    BY <1>3, <1>5, <2>1, <2>2, <2>3, <2>4, <2>5 DEF IInv, TypeOK
<1>11. FdInv'
  BY <1>6, <1>7, <1>8 DEF IInv, FdInv
<1>12. FileInv'
  BY <1>3, <1>7 DEF IInv, TypeOK, FileInv
<1>13. MapInv'
  BY <1>1, <1>2, <1>6, <1>7 DEF IInv, MapInv
<1>14. HandoverSafe'
  BY <1>2, <1>3, <1>6, <1>7, <1>8 DEF IInv, TypeOK, FdInv, HandoverSafe, Live
<1>15. OwnerInv'
  <2> SUFFICES ASSUME NEW q \in Live \ {p}
               PROVE  \/ InFlight /\ newConn = q
                      \/ connections'[connLoop[q]][connFd[q]] = q
    BY <1>3, <1>6, <1>7 DEF OwnerInv
  <2>1. connLoop[q] \in Loops
    BY DEF IInv, TypeOK, FdInv, Live
  <2>. QED
    BY <1>7, <1>8, <2>1 DEF IInv, OwnerInv
<1>16. MutexInv'
  <2>1. mainPc \in {"ctl", "insert"} =>
           newConn \in Live \ {p} /\ connLoop[newConn] \in Loops \ {l}
    BY <1>1, <1>2 DEF IInv, TypeOK, FdInv, HandoverSafe, MutexInv, Live
  <2>2. mainPc \in {"ctl", "insert"} => mtx'[connLoop'[newConn]] = Main
    BY <1>3, <1>7, <2>1 DEF IInv, TypeOK, MutexInv
  <2>3. ASSUME NEW m \in Loops, loopPc'[m] = "erase" PROVE mtx'[m] = m
    BY <1>3, <1>5, <2>3 DEF IInv, TypeOK, MutexInv
  <2>. QED
    BY <1>3, <2>2, <2>3 DEF MutexInv
<1>17. HandlerInv'
  BY <1>1, <1>3, <1>5, <1>6, <1>7 DEF IInv, HandlerInv
<1>18. BatchInv'
  <2> SUFFICES ASSUME NEW m \in Loops, NEW r \in batch[m]
               PROVE  /\ Current(r)'
                      /\ connLoop'[r.ptr] = m
                      /\ InHandler(m)' => cur'[m] # r.ptr
                      /\ InFlight /\ newConn = r.ptr => mainPc = "insert"
    BY <1>3, <1>5 DEF IInv, BatchInv
  <2>1. r \in Reg /\ Current(r) /\ connLoop[r.ptr] = m /\ r.ptr # p
    BY <1>1 DEF IInv, TypeOK, BatchInv, Erase
  <2>2. r.ptr \in Live \ {p}
    BY <2>1 DEF Current
  <2>. QED
    BY <1>3, <1>5, <1>7, <1>9, <2>1, <2>2 DEF IInv, BatchInv
<1>19. EpollInv'
  <2> SUFFICES ASSUME NEW m \in Loops, NEW r \in interest'[m]
               PROVE  \/ /\ Current(r)'
                         /\ connLoop'[r.ptr] = m
                         /\ InFlight /\ newConn = r.ptr => mainPc = "insert"
                      \/ /\ \E k \in Loops : r.file \in childFiles[k]
                         /\ \A g \in Fds : fdFile'[g] # r.file
    BY <1>3, <1>4 DEF IInv, EpollInv
  <2>1. r \in interest[m] /\ r.file \notin gone /\ r \in Reg
    BY <1>4 DEF IInv, TypeOK
  <2>2. CASE Current(r) /\ r.ptr = p
    <3>1. r.file = file
      BY <2>2 DEF Current
    <3>2. \E k \in Loops : r.file \in childFiles[k]
      BY <2>1, <3>1 DEF HeldByChild
    <3>3. \A g \in Fds : fdFile'[g] # r.file
      BY <1>1, <1>7, <3>1 DEF IInv, FileInv
    <3>. QED
      BY <3>2, <3>3
  <2>3. CASE Current(r) /\ r.ptr # p
    <3>1. r.ptr \in Live \ {p}
      BY <2>3 DEF Current
    <3>2. connLoop[r.ptr] = m /\ (InFlight /\ newConn = r.ptr => mainPc = "insert")
      BY <2>1, <2>3 DEF IInv, EpollInv, Current
    <3>. QED
      BY <1>7, <1>9, <2>1, <2>3, <3>1, <3>2
  <2>4. CASE ~Current(r)
    BY <1>7, <2>1, <2>4 DEF IInv, EpollInv
  <2>. QED
    BY <2>2, <2>3, <2>4
<1>20. ChildInv'
  BY <1>3, <1>5 DEF IInv, ChildInv, Erase
<1>21. NoStuckInput'
  <2> SUFFICES ASSUME NEW m \in Loops, NEW r \in interest'[m], Readable(r.file)', Current(r)'
               PROVE  \/ r \in ready'[m] \cup batch[m]
                      \/ cur'[m] = r.ptr /\ loopPc'[m] \in {"recv", "lock", "erase"}
    BY <1>3 DEF NoStuckInput
  <2>1. r \in interest[m] /\ r.file \notin gone /\ r \in Reg
    BY <1>4 DEF IInv, TypeOK
  <2>2. Current(r) /\ r.ptr # p
    BY <1>9, <2>1
  <2>3. Readable(r.file)
    BY <1>4, <2>1 DEF Readable
  <2>4. \/ r \in ready[m] \cup batch[m]
        \/ cur[m] = r.ptr /\ loopPc[m] \in {"recv", "lock", "erase"}
    BY <2>1, <2>2, <2>3 DEF IInv, NoStuckInput
  <2>. QED
    BY <1>4, <1>5, <2>1, <2>2, <2>4
<1>22. RegisteredInv'
  <2> SUFFICES ASSUME ~CtlMayFail, NEW q \in Live \ {p},
                      ~(InFlight /\ newConn = q /\ mainPc # "insert")
               PROVE  RegOf(q) \in interest'[connLoop[q]]
    BY <1>3, <1>6, <1>7, <1>8 DEF RegisteredInv, RegOf
  <2>1. RegOf(q) \in interest[connLoop[q]] /\ connLoop[q] \in Loops
    BY DEF IInv, TypeOK, FdInv, RegisteredInv, Live
  <2>2. RegOf(q).file \notin gone
    BY <1>8 DEF RegOf
  <2>. QED
    BY <1>4, <2>1, <2>2
<1>. QED
  BY <1>10, <1>11, <1>12, <1>13, <1>14, <1>15, <1>16, <1>17, <1>18, <1>19, <1>20, <1>21, <1>22
     DEF IInv

\* The main thread moves on without touching anything else.
LEMMA MainControlStep ==
    ASSUME IInv, MainPoll \/ AcceptFails
    PROVE  IInv'
<1>1. /\ ~InFlight /\ ~InFlight' /\ mainPc' \in {"poll", "accept"}
      /\ UNCHANGED <<procVars, newConn, loopVars, sockVars, epollVars, childFiles>>
  BY DEF MainPoll, AcceptFails
<1>2. Live' = Live /\ \A r : Current(r)' = Current(r)
  BY <1>1 DEF Live, Current
<1>3. TypeOK' /\ FdInv' /\ FileInv' /\ MapInv' /\ HandoverSafe' /\ OwnerInv' /\ MutexInv'
  BY <1>1, <1>2 DEF IInv, TypeOK, FdInv, FileInv, MapInv, HandoverSafe, OwnerInv, MutexInv
<1>4. HandlerInv' /\ BatchInv' /\ EpollInv' /\ ChildInv' /\ NoStuckInput' /\ RegisteredInv'
  BY <1>1, <1>2 DEF IInv, HandlerInv, BatchInv, EpollInv, ChildInv, NoStuckInput, Readable,
                    RegisteredInv, RegOf
<1>. QED
  BY <1>3, <1>4 DEF IInv

\* addConnection takes a mutex no deleting callback holds.
LEMMA AddLockStep ==
    ASSUME IInv, AddLock
    PROVE  IInv'
<1>1. TypeOK' /\ FdInv' /\ FileInv' /\ MapInv' /\ HandoverSafe' /\ OwnerInv' /\ ChildInv'
  BY DEF IInv, TypeOK, FdInv, FileInv, MapInv, HandoverSafe, OwnerInv, ChildInv, AddLock, Live
<1>2. connLoop[newConn] \in Loops
  BY DEF IInv, TypeOK, FdInv, HandoverSafe, AddLock, Live
<1>3. MutexInv'
  BY <1>2 DEF IInv, TypeOK, MutexInv, AddLock
<1>4. HandlerInv' /\ BatchInv' /\ EpollInv'
  BY DEF IInv, HandlerInv, BatchInv, EpollInv, AddLock, Live, Current
<1>5. NoStuckInput' /\ RegisteredInv'
  BY DEF IInv, NoStuckInput, RegisteredInv, AddLock, Live, Current, Readable, RegOf
<1>. QED
  BY <1>1, <1>3, <1>4, <1>5 DEF IInv

\* A failed epoll_ctl leaves the connection unregistered.
LEMMA AddCtlFailsStep ==
    ASSUME IInv, AddCtlFails
    PROVE  IInv'
<1>1. TypeOK' /\ FdInv' /\ FileInv' /\ MapInv' /\ HandoverSafe' /\ OwnerInv' /\ ChildInv' /\ MutexInv'
  BY DEF IInv, TypeOK, FdInv, FileInv, MapInv, HandoverSafe, OwnerInv, ChildInv, MutexInv,
         AddCtlFails, Live
<1>2. HandlerInv' /\ BatchInv' /\ EpollInv'
  BY DEF IInv, HandlerInv, BatchInv, EpollInv, AddCtlFails, Live, Current
<1>3. NoStuckInput' /\ RegisteredInv'
  BY DEF IInv, NoStuckInput, RegisteredInv, AddCtlFails, Live, Current, Readable
<1>. QED
  BY <1>1, <1>2, <1>3 DEF IInv

\* epoll_ctl registers a connection that only the main thread knows yet.
LEMMA AddCtlStep ==
    ASSUME IInv, AddCtl
    PROVE  IInv'
<1> DEFINE l == connLoop[newConn]
           new == RegOf(newConn)
<1>1. /\ newConn \in Live /\ newConn \in Conns /\ l \in Loops
      /\ connFd[newConn] \in Fds /\ fdFile[connFd[newConn]] \in Clients
  BY DEF IInv, TypeOK, FdInv, HandoverSafe, AddCtl, Live
<1>2. new \in Reg /\ Current(new) /\ new.ptr = newConn /\ new.file = fdFile[connFd[newConn]]
  BY <1>1 DEF RegOf, Current
<1>3. /\ mainPc = "ctl" /\ mainPc' = "insert"
      /\ interest' = [interest EXCEPT ![l] = @ \cup {new}]
      /\ ready' = [ready EXCEPT ![l] = IF Readable(new.file) THEN @ \cup {new} ELSE @]
      /\ UNCHANGED <<procVars, newConn, loopVars, sockVars, childFiles>>
  BY <1>2 DEF AddCtl
<1>4. Live' = Live /\ \A r : Current(r)' = Current(r) /\ Readable(r.file)' = Readable(r.file)
  BY <1>3 DEF Live, Current, Readable
<1>5. TypeOK'
  <2>1. interest' \in [Loops -> SUBSET Reg] /\ ready' \in [Loops -> SUBSET Reg]
    <3>1. interest \in [Loops -> SUBSET Reg] /\ ready \in [Loops -> SUBSET Reg]
      BY DEF IInv, TypeOK
    <3> HIDE DEF new
    <3>2. interest' \in [Loops -> SUBSET Reg]
      BY <1>2, <1>3, <3>1
    <3>3. ready' \in [Loops -> SUBSET Reg]
      BY <1>2, <1>3, <3>1
    <3>. QED  BY <3>2, <3>3
  <2>. QED
    BY <1>3, <2>1 DEF IInv, TypeOK
<1>6. FdInv' /\ FileInv' /\ MapInv' /\ HandoverSafe' /\ OwnerInv' /\ ChildInv' /\ MutexInv'
  BY <1>3, <1>4 DEF IInv, FdInv, FileInv, MapInv, HandoverSafe, OwnerInv, ChildInv, MutexInv
<1>7. HandlerInv' /\ BatchInv'
  BY <1>3, <1>4 DEF IInv, HandlerInv, BatchInv
<1>8. EpollInv'
  BY <1>2, <1>3, <1>4 DEF IInv, TypeOK, EpollInv
<1>9. NoStuckInput'
  BY <1>2, <1>3, <1>4 DEF IInv, TypeOK, NoStuckInput
<1>10. RegisteredInv'
  BY <1>1, <1>3, <1>4 DEF IInv, TypeOK, FdInv, RegisteredInv, RegOf, Live
<1>. QED
  BY <1>5, <1>6, <1>7, <1>8, <1>9, <1>10 DEF IInv

\* epoll_wait hands over registrations of live connections of the loop.
LEMMA PollStep ==
    ASSUME NEW l \in Loops, IInv, Poll(l)
    PROVE  IInv'
<1>1. TypeOK' /\ FdInv' /\ FileInv' /\ MapInv' /\ HandoverSafe' /\ OwnerInv' /\ ChildInv'
  BY DEF IInv, TypeOK, FdInv, FileInv, MapInv, HandoverSafe, OwnerInv, ChildInv, Poll, Live
<1>2. MutexInv' /\ HandlerInv' /\ RegisteredInv'
  BY DEF IInv, TypeOK, MutexInv, HandlerInv, RegisteredInv, Poll, Live, RegOf
<1>3. BatchInv'
  BY DEF IInv, TypeOK, BatchInv, EpollInv, Poll, Live, Current
<1>4. EpollInv'
  BY DEF IInv, TypeOK, EpollInv, Poll, Live, Current
<1>5. NoStuckInput'
  BY DEF IInv, TypeOK, NoStuckInput, BatchInv, Poll, Live, Current, Readable
<1>. QED
  BY <1>1, <1>2, <1>3, <1>4, <1>5 DEF IInv

\* The connection dispatched is in the batch once.
LEMMA DispatchStep ==
    ASSUME NEW l \in Loops, IInv, Dispatch(l)
    PROVE  IInv'
<1>1. PICK e \in batch[l] : /\ cur' = [cur EXCEPT ![l] = e.ptr]
                            /\ batch' = [batch EXCEPT ![l] = @ \ {e}]
  BY DEF Dispatch
<1>2. /\ e \in Reg /\ Current(e) /\ connLoop[e.ptr] = l
      /\ InFlight /\ newConn = e.ptr => mainPc = "insert"
  BY DEF IInv, TypeOK, BatchInv
<1>3. \A r \in batch[l] : r.ptr = e.ptr => r = e
  <2> SUFFICES ASSUME NEW r \in batch[l], r.ptr = e.ptr PROVE r = e
    OBVIOUS
  <2>1. r \in Reg /\ r.fd = e.fd /\ r.file = e.file
    BY <1>2 DEF IInv, TypeOK, BatchInv, Current
  <2>. QED
    BY <1>2, <2>1
<1>4. /\ loopPc[l] = "dispatch" /\ loopPc' = [loopPc EXCEPT ![l] = "recv"]
      /\ UNCHANGED <<procVars, mainVars, reqs, sockVars, epollVars, childFiles>>
  BY DEF Dispatch
<1>5. Live' = Live /\ \A r : Current(r)' = Current(r) /\ Readable(r.file)' = Readable(r.file)
  BY <1>4 DEF Live, Current, Readable
<1>6. TypeOK'
  BY <1>1, <1>2, <1>4 DEF IInv, TypeOK
<1>7. FdInv' /\ FileInv' /\ MapInv' /\ HandoverSafe' /\ OwnerInv' /\ RegisteredInv'
  BY <1>4, <1>5 DEF IInv, FdInv, FileInv, MapInv, HandoverSafe, OwnerInv, RegisteredInv, RegOf
<1>8. ChildInv' /\ MutexInv'
  BY <1>4 DEF IInv, TypeOK, ChildInv, MutexInv
<1>9. HandlerInv'
  BY <1>1, <1>2, <1>4, <1>5 DEF IInv, TypeOK, HandlerInv, Current
<1>10. BatchInv'
  BY <1>1, <1>3, <1>4, <1>5 DEF IInv, TypeOK, BatchInv
<1>11. EpollInv'
  BY <1>4, <1>5 DEF IInv, EpollInv
<1>12. NoStuckInput'
  BY <1>1, <1>4, <1>5 DEF IInv, TypeOK, NoStuckInput
<1>. QED
  BY <1>6, <1>7, <1>8, <1>9, <1>10, <1>11, <1>12 DEF IInv

\* What a callback works on: the client of a live connection.
LEMMA PeerIsClient ==
    ASSUME NEW l \in Loops, IInv, InHandler(l)
    PROVE  Peer(l) \in Clients
BY DEF IInv, TypeOK, FdInv, HandlerInv, Live, Peer

\* recv() only removes input.
LEMMA RecvChunkStep ==
    ASSUME NEW l \in Loops, IInv, RecvChunk(l)
    PROVE  IInv'
<1>1. Peer(l) \in Clients
  BY PeerIsClient DEF RecvChunk
<1>2. /\ rx[Peer(l)] > 0 /\ rx' = [rx EXCEPT ![Peer(l)] = @ - 1]
      /\ UNCHANGED <<procVars, mainVars, loopPc, batch, cur, fdFile, backlog, fin, stalled,
                     epollVars, childFiles>>
  BY DEF RecvChunk
<1>3. /\ Live' = Live
      /\ \A r \in Reg : Current(r)' = Current(r) /\ (Readable(r.file)' => Readable(r.file))
  BY <1>1, <1>2 DEF IInv, TypeOK, Live, Current, Readable
<1>4. TypeOK'
  <2>1. rx' \in [Clients -> 0 .. MaxRx]
    BY <1>1, <1>2 DEF IInv, TypeOK
  <2>2. reqs' \in [Loops -> 0 .. MaxReqs]
    BY DEF IInv, TypeOK, RecvChunk
  <2>. QED
    BY <1>2, <2>1, <2>2 DEF IInv, TypeOK
<1>5. FdInv' /\ FileInv' /\ MapInv' /\ HandoverSafe' /\ OwnerInv' /\ ChildInv' /\ MutexInv' /\ HandlerInv'
  BY <1>2, <1>3 DEF IInv, FdInv, FileInv, MapInv, HandoverSafe, OwnerInv, ChildInv, MutexInv, HandlerInv
<1>6. BatchInv' /\ EpollInv' /\ NoStuckInput' /\ RegisteredInv'
  BY <1>2, <1>3 DEF IInv, TypeOK, BatchInv, EpollInv, NoStuckInput, RegisteredInv, RegOf
<1>. QED
  BY <1>4, <1>5, <1>6 DEF IInv

\* The steps that only move a callback on to its next stage.
LEMMA HandlerMoveStep ==
    ASSUME NEW l \in Loops, IInv,
           RecvExit(l) \/ RecvAgain(l) \/ Respond(l) \/ SendFull(l) \/ Send(l)
    PROVE  IInv'
<1>1. PICK pc \in {"handle", "send", "spin", "lock"} : loopPc' = [loopPc EXCEPT ![l] = pc]
  BY DEF RecvExit, RecvAgain, Respond, SendFull, Send
<1>2. /\ loopPc[l] \in {"recv", "handle", "send", "spin"}
      /\ loopPc[l] = "recv" => pc = "lock" \/ ~Readable(Peer(l))
      /\ UNCHANGED <<procVars, mainVars, batch, cur, fdFile, backlog, rx, fin, epollVars, childFiles>>
  BY <1>1 DEF RecvExit, RecvAgain, Respond, SendFull, Send, IInv, TypeOK
<1>3. Peer(l) \in Clients
  BY <1>2, PeerIsClient
<1>4. Live' = Live /\ \A r : Current(r)' = Current(r) /\ Readable(r.file)' = Readable(r.file)
  BY <1>2 DEF Live, Current, Readable
<1>5. TypeOK'
  <2>1. stalled' \subseteq Clients
    BY <1>3 DEF IInv, TypeOK, RecvExit, RecvAgain, Respond, SendFull, Send
  <2>2. Respond(l) => reqs' \in [Loops -> 0 .. MaxReqs]
    BY DEF IInv, TypeOK, Respond
  <2>3. ~Respond(l) => reqs' = reqs
    BY DEF RecvExit, RecvAgain, SendFull, Send
  <2>4. reqs' \in [Loops -> 0 .. MaxReqs]
    BY <2>2, <2>3 DEF IInv, TypeOK
  <2>. QED
    BY <1>1, <1>2, <2>1, <2>4 DEF IInv, TypeOK
<1>6. FdInv' /\ FileInv' /\ MapInv' /\ HandoverSafe' /\ OwnerInv' /\ RegisteredInv' /\ EpollInv'
  BY <1>2, <1>4 DEF IInv, FdInv, FileInv, MapInv, HandoverSafe, OwnerInv, RegisteredInv, RegOf, EpollInv
<1>7. ChildInv' /\ MutexInv' /\ HandlerInv' /\ BatchInv'
  BY <1>1, <1>2, <1>4 DEF IInv, TypeOK, ChildInv, MutexInv, HandlerInv, BatchInv
<1>8. NoStuckInput'
  BY <1>1, <1>2, <1>4 DEF IInv, TypeOK, NoStuckInput, Current, Peer
<1>. QED
  BY <1>5, <1>6, <1>7, <1>8 DEF IInv

\* A callback that returns has read to EAGAIN.
LEMMA HandlerDoneStep ==
    ASSUME NEW l \in Loops, IInv, HandlerDone(l)
    PROVE  IInv'
<1>1. TypeOK' /\ FdInv' /\ FileInv' /\ MapInv' /\ HandoverSafe' /\ OwnerInv'
  BY DEF IInv, TypeOK, FdInv, FileInv, MapInv, HandoverSafe, OwnerInv, HandlerDone, Return, Live
<1>2. ChildInv' /\ MutexInv' /\ HandlerInv' /\ BatchInv'
  BY DEF IInv, TypeOK, ChildInv, MutexInv, HandlerInv, BatchInv, HandlerDone, Return, Live, Current
<1>3. EpollInv' /\ NoStuckInput' /\ RegisteredInv'
  BY DEF IInv, TypeOK, EpollInv, NoStuckInput, RegisteredInv, HandlerDone, Return, Live, Current,
         Readable, RegOf
<1>. QED
  BY <1>1, <1>2, <1>3 DEF IInv

\* deleteConnection takes a mutex no handover holds.
LEMMA DeleteLockStep ==
    ASSUME NEW l \in Loops, IInv, DeleteLock(l)
    PROVE  IInv'
<1>1. connLoop[cur[l]] = l
  BY DEF IInv, HandlerInv, DeleteLock
<1>2. TypeOK' /\ FdInv' /\ FileInv' /\ MapInv' /\ HandoverSafe' /\ OwnerInv' /\ ChildInv'
  BY <1>1 DEF IInv, TypeOK, FdInv, FileInv, MapInv, HandoverSafe, OwnerInv, ChildInv, DeleteLock, Live
<1>3. MutexInv'
  BY <1>1 DEF IInv, TypeOK, MutexInv, DeleteLock
<1>4. HandlerInv' /\ BatchInv' /\ EpollInv'
  BY DEF IInv, TypeOK, HandlerInv, BatchInv, EpollInv, DeleteLock, Live, Current
<1>5. NoStuckInput' /\ RegisteredInv'
  BY DEF IInv, TypeOK, NoStuckInput, RegisteredInv, DeleteLock, Live, Current, Readable, RegOf
<1>. QED
  BY <1>2, <1>3, <1>4, <1>5 DEF IInv

\* A client that connects has no file in the process or in a child.
LEMMA ConnectStep ==
    ASSUME NEW c \in Clients, IInv, Connect(c)
    PROVE  IInv'
<1>1. TypeOK' /\ FdInv' /\ MapInv' /\ HandoverSafe' /\ OwnerInv' /\ MutexInv' /\ HandlerInv' /\ ChildInv'
  BY DEF IInv, TypeOK, FdInv, MapInv, HandoverSafe, OwnerInv, MutexInv, HandlerInv, ChildInv,
         Connect, Live
<1>2. FileInv'
  BY SMTT(30) DEF IInv, TypeOK, FileInv, Connect, Established, Waiting, OpenFiles, HeldByChild
<1>3. BatchInv' /\ EpollInv' /\ NoStuckInput' /\ RegisteredInv'
  BY DEF IInv, BatchInv, EpollInv, NoStuckInput, RegisteredInv, Connect, Live, Current, Readable, RegOf
<1>. QED
  BY <1>1, <1>2, <1>3 DEF IInv

\* A client sends, closes or reads: only what its loop may see changes.
LEMMA PeerStep ==
    ASSUME NEW c \in Clients, IInv, PeerSend(c) \/ PeerClose(c) \/ PeerRead(c)
    PROVE  IInv'
<1>1. UNCHANGED <<procVars, mainVars, loopVars, fdFile, backlog, interest, childFiles>>
  BY DEF PeerSend, PeerClose, PeerRead
<1>2. /\ TypeOK'
      /\ \A l \in Loops : ready[l] \subseteq ready'[l] /\ ready'[l] \subseteq ready[l] \cup interest[l]
      /\ \A l \in Loops : \A r \in interest[l] :
            Readable(r.file)' => Readable(r.file) \/ r \in ready'[l]
  <2>1. CASE PeerSend(c)
    <3>1. TypeOK'
      <4>1. rx' \in [Clients -> 0 .. MaxRx]
        BY <2>1 DEF IInv, TypeOK, PeerSend
      <4>2. ready' \in [Loops -> SUBSET Reg]
        BY <2>1 DEF IInv, TypeOK, PeerSend, Wake
      <4>. QED
        BY <1>1, <2>1, <4>1, <4>2 DEF IInv, TypeOK, PeerSend
    <3>. QED
      BY <2>1, <3>1 DEF IInv, TypeOK, PeerSend, Wake, Readable
  <2>2. CASE PeerClose(c)
    <3>1. TypeOK'
      BY <2>2 DEF IInv, TypeOK, PeerClose, Wake
    <3>. QED
      BY <2>2, <3>1 DEF IInv, TypeOK, PeerClose, Wake, Readable
  <2>3. CASE PeerRead(c)
    BY <2>3 DEF IInv, TypeOK, PeerRead, Readable
  <2>. QED
    BY <2>1, <2>2, <2>3
<1>3. Live' = Live /\ \A r : Current(r)' = Current(r)
  BY <1>1 DEF Live, Current
<1>4. FdInv' /\ FileInv' /\ MapInv' /\ HandoverSafe' /\ OwnerInv' /\ MutexInv' /\ HandlerInv' /\ ChildInv'
  BY <1>1, <1>3 DEF IInv, FdInv, FileInv, MapInv, HandoverSafe, OwnerInv, MutexInv, HandlerInv, ChildInv
<1>5. BatchInv' /\ EpollInv' /\ RegisteredInv'
  BY <1>1, <1>2, <1>3 DEF IInv, BatchInv, EpollInv, RegisteredInv, RegOf
<1>6. NoStuckInput'
  BY <1>1, <1>2, <1>3 DEF IInv, NoStuckInput
<1>. QED
  BY <1>2, <1>4, <1>5, <1>6 DEF IInv
----------------------------------------------------------------------------
(***************************************************************************)
(* The theorems                                                            *)
(***************************************************************************)

\* The inductive invariant holds initially ...
LEMMA InitIInv == Init => IInv
<1> SUFFICES ASSUME Init PROVE IInv
  OBVIOUS
<1>1. Live = {}
  BY DEF Init, Live
<1>2. TypeOK
  BY DEF Init, TypeOK
<1>3. FdInv /\ FileInv /\ MapInv /\ HandoverSafe /\ OwnerInv /\ MutexInv
  BY <1>1 DEF Init, FdInv, FileInv, MapInv, HandoverSafe, OwnerInv, MutexInv
<1>4. HandlerInv /\ BatchInv /\ EpollInv /\ ChildInv /\ NoStuckInput /\ RegisteredInv
  BY <1>1 DEF Init, HandlerInv, BatchInv, EpollInv, ChildInv, NoStuckInput, RegisteredInv
<1>. QED
  BY <1>2, <1>3, <1>4 DEF IInv

\* ... and every step of every thread and client preserves it.
LEMMA NextIInv == IInv /\ [Next]_vars => IInv'
<1> SUFFICES ASSUME IInv, [Next]_vars PROVE IInv'
  OBVIOUS
<1>1. CASE MainNext
  BY <1>1, MainControlStep, AcceptStep, AddLockStep, AddCtlStep, AddCtlFailsStep, AddInsertStep
     DEF MainNext
<1>2. ASSUME NEW l \in Loops, LoopNext(l) PROVE IInv'
  BY <1>2, PollStep, DispatchStep, RecvChunkStep, HandlerMoveStep, HandlerDoneStep, ForkStep,
     ForkFailsStep, ChildExitStep, DeleteLockStep, EraseStep
     DEF LoopNext
<1>3. ASSUME NEW c \in Clients, PeerNext(c) PROVE IInv'
  BY <1>3, ConnectStep, PeerStep DEF PeerNext
<1>4. CASE UNCHANGED vars
  BY <1>4 DEF vars, IInv, TypeOK, FdInv, FileInv, MapInv, HandoverSafe, OwnerInv, MutexInv,
              HandlerInv, BatchInv, EpollInv, ChildInv, NoStuckInput, RegisteredInv,
              Live, Current, Readable, RegOf
<1>. QED
  BY <1>1, <1>2, <1>3, <1>4 DEF Next

\* The inductive invariant holds in every reachable state.
THEOREM Invariance == Spec => []IInv
BY InitIInv, NextIInv, PTL DEF Spec

\* Every variable keeps its type: no counter underflows, no map is indexed
\* outside its domain.
THEOREM TypeCorrect == Spec => []TypeOK
<1>1. IInv => TypeOK
  BY DEF IInv
<1>. QED
  BY Invariance, <1>1, PTL

\* One loop per thread: a callback's connection exists and belongs to the
\* loop that runs it (event_loop.cpp:13-16), with or without CGI children.
THEOREM OneLoopPerThread == Spec => []LoopOwnsItsConnections
<1>1. IInv => LoopOwnsItsConnections
  BY DEF IInv, HandlerInv, BatchInv, LoopOwnsItsConnections
<1>. QED
  BY Invariance, <1>1, PTL

\* addConnection (event_loop.cpp:25-30) inserts a Connection that still exists
\* although its descriptor is already registered, and finds its key free.
THEOREM Handover == Spec => []HandoverSafe
<1>1. IInv => HandoverSafe
  BY DEF IInv
<1>. QED
  BY Invariance, <1>1, PTL

\* deleteConnection (event_loop.cpp:32-40) finds the Connection its caller means:
\* addConnection has inserted it by then.
THEOREM Delete == Spec => []DeleteFindsConnection
<1>1. IInv => DeleteFindsConnection
  BY DEF IInv, DeleteFindsConnection, OwnerInv, MutexInv, HandlerInv
<1>. QED
  BY Invariance, <1>1, PTL

\* No descriptor and no Connection leaks (acceptor.cpp:28-45, event_loop.cpp:25-40),
\* except for the result file of a CGI run that could not fork (cgier.cpp:57-60).
THEOREM Leakless == Spec => []NoLeak
<1>1. IInv => NoLeak
  BY DEF IInv, FdInv, OwnerInv, NoLeak
<1>. QED
  BY Invariance, <1>1, PTL

\* Reading until EAGAIN is enough under edge triggering: no registered
\* connection keeps unread input that nothing will look at (connection.cpp:74-101).
THEOREM EdgeTriggeredReads == Spec => []NoStuckInput
<1>1. IInv => NoStuckInput
  BY DEF IInv
<1>. QED
  BY Invariance, <1>1, PTL

\* While epoll_ctl succeeds, every connection in a map is registered
\* (event_loop.cpp:25-30, poller.cpp:29-39).
THEOREM Registered ==
    ASSUME CtlMayFail = FALSE
    PROVE  Spec => []MapRegistered
<1>1. IInv => MapRegistered
  <2> SUFFICES ASSUME IInv, NEW l \in Loops, NEW f \in Fds, connections[l][f] # None
               PROVE  \E r \in interest[l] :
                         r.fd = f /\ r.ptr = connections[l][f] /\ Current(r)
    BY DEF MapRegistered
  <2> DEFINE p == connections[l][f]
  <2>1. p \in Live /\ connFd[p] = f /\ connLoop[p] = l
    BY DEF IInv, MapInv
  <2>2. ~(InFlight /\ newConn = p)
    BY <2>1 DEF IInv, HandoverSafe
  <2>3. RegOf(p) \in interest[l]
    BY <2>1, <2>2 DEF IInv, RegisteredInv
  <2>4. RegOf(p).fd = f /\ RegOf(p).ptr = p /\ Current(RegOf(p))
    BY <2>1 DEF RegOf, Current
  <2>. QED
    BY <2>3, <2>4
<1>. QED
  BY Invariance, <1>1, PTL

\* Without CGI children epoll never reports a destroyed Connection to
\* Poller::poll (poller.cpp:41-56): closing its descriptor removes it in time.
THEOREM EventsAreCurrent ==
    ASSUME CgiEnabled = FALSE
    PROVE  Spec => []NoDanglingEvent
<1>1. IInv => NoDanglingEvent
  BY DEF IInv, TypeOK, EpollInv, ChildInv, NoDanglingEvent
<1>. QED
  BY Invariance, <1>1, PTL

\* A Connection keeps its loop and its descriptor until the callback of that
\* very connection deletes it (event_loop.cpp:32-40).
THEOREM OwnDeletion == Spec => OnlyOwnHandlerDestroys
<1> DEFINE Kept == \A p \in Live :
        \/ connFd'[p] = connFd[p] /\ connLoop'[p] = connLoop[p]
        \/ p \notin Live' /\ \E l \in Loops : loopPc[l] = "erase" /\ cur[l] = p
<1>1. IInv /\ [Next]_vars => Kept
  <2> SUFFICES ASSUME IInv, [Next]_vars PROVE Kept
    OBVIOUS
  <2>1. CASE UNCHANGED <<connFd, connLoop>>
    BY <2>1
  <2>2. CASE Accept
    BY <2>2 DEF IInv, TypeOK, Accept, Live
  <2>3. CASE AddInsert
    BY <2>3 DEF IInv, HandoverSafe, AddInsert
  <2>4. ASSUME NEW l \in Loops, Erase(l) PROVE Kept
    <3> DEFINE q == cur[l]
    <3>1. q \in Live /\ q \in Conns /\ connLoop[q] = l /\ mtx[l] = l
      BY <2>4 DEF IInv, MutexInv, HandlerInv, Erase, Live
    <3>2. connections[l][connFd[q]] = q
      BY <2>4, <3>1 DEF IInv, OwnerInv, MutexInv, HandlerInv, Erase
    <3>3. /\ connFd' = [connFd EXCEPT ![q] = None]
          /\ connLoop' = [connLoop EXCEPT ![q] = None]
      BY <2>4, <3>1, <3>2 DEF Erase, Destroy
    <3>. QED
      BY <2>4, <3>1, <3>3 DEF IInv, TypeOK, Erase, Live
  <2>5. ASSUME NEW l \in Loops, LoopNext(l), ~Erase(l) PROVE UNCHANGED <<connFd, connLoop>>
    BY <2>5 DEF LoopNext, Poll, Dispatch, RecvChunk, RecvExit, RecvAgain, HandlerDone, Respond,
                Fork, ForkFails, ChildExit, SendFull, Send, DeleteLock
  <2>6. ASSUME NEW c \in Clients, PeerNext(c) PROVE UNCHANGED <<connFd, connLoop>>
    BY <2>6 DEF PeerNext, Connect, PeerSend, PeerClose, PeerRead
  <2>7. ASSUME MainNext, ~Accept, ~AddInsert PROVE UNCHANGED <<connFd, connLoop>>
    BY <2>7 DEF MainNext, MainPoll, AcceptFails, AddLock, AddCtl, AddCtlFails
  <2>. QED
    BY <2>1, <2>2, <2>3, <2>4, <2>5, <2>6, <2>7 DEF Next, vars
<1>. QED
  BY Invariance, <1>1, PTL DEF Spec, OnlyOwnHandlerDestroys
----------------------------------------------------------------------------
(***************************************************************************)
(* Reactor implements Sessions.  Most steps leave every session as it is.  *)
(***************************************************************************)

\* What the mapping reads: a step that changes no Connection, no descriptor and not the
\* queue, and no callback's connection, changes no session.
LEMMA SessionsKept ==
    ASSUME UNCHANGED <<connFd, connLoop, fdFile, backlog>>,
           \A m \in Loops : InHandler(m)' = InHandler(m) /\ (InHandler(m) => cur'[m] = cur[m])
    PROVE  UNCHANGED Served!vars
<1>1. Live' = Live
  BY DEF Live
<1>2. \A c \in Clients : ServersOf(c)' = ServersOf(c)
  BY <1>1 DEF ServersOf
<1>3. \A m \in Loops : Serves(m)' = Serves(m)
  <2> SUFFICES ASSUME NEW m \in Loops PROVE Serves(m)' = Serves(m)
    OBVIOUS
  <2>1. CASE InHandler(m)
    BY <2>1 DEF Serves, Peer
  <2>2. CASE ~InHandler(m)
    BY <2>2 DEF Serves
  <2>. QED
    BY <2>1, <2>2
<1>. QED
  BY <1>2, <1>3 DEF Served!vars

\* A client's threads: none while it has no file, and the loop of its one Connection
\* once it has.
LEMMA OneServer ==
    ASSUME IInv, NEW p \in Live
    PROVE  ServersOf(fdFile[connFd[p]]) = {connLoop[p]}
<1> DEFINE c == fdFile[connFd[p]]
<1>1. \A q \in Live : fdFile[connFd[q]] = c => q = p
  BY DEF IInv, TypeOK, FdInv, FileInv, Live
<1>2. {q \in Live : fdFile[connFd[q]] = c} = {p}
  BY <1>1
<1>. QED
  BY <1>2 DEF ServersOf

LEMMA NoServer ==
    ASSUME IInv, NEW c \in Clients, \A f \in Fds : fdFile[f] # c
    PROVE  ServersOf(c) = {}
BY DEF IInv, TypeOK, ServersOf, Live

\* Two callbacks never run for one client.
LEMMA OneCallback ==
    ASSUME IInv, NEW l \in Loops, NEW p \in Live, connLoop[p] = l,
           NEW m \in Loops, InHandler(m), Serves(m) = fdFile[connFd[p]]
    PROVE  m = l /\ cur[l] = p
<1>1. cur[m] \in Live /\ connLoop[cur[m]] = m
  BY DEF IInv, HandlerInv
<1>2. fdFile[connFd[cur[m]]] = fdFile[connFd[p]]
  BY DEF Serves, Peer
<1>3. cur[m] = p
  BY <1>1, <1>2 DEF IInv, TypeOK, FdInv, FileInv, Live
<1>. QED
  BY <1>1, <1>3

\* accept() takes the first client and gives it to the loop it draws.
LEMMA AcceptAssigns ==
    ASSUME IInv, Accept
    PROVE  \E l \in Loops : Served!Assign(l)
<1>1. /\ backlog # <<>> /\ backlog' = Tail(backlog)
      /\ UNCHANGED loopVars
  BY DEF Accept
<1>2. PICK f \in FreeFds, p \in Conns \ Live, l \in Loops :
         /\ fdFile' = [fdFile EXCEPT ![f] = Head(backlog)]
         /\ connFd' = [connFd EXCEPT ![p] = f]
         /\ connLoop' = [connLoop EXCEPT ![p] = l]
  BY DEF Accept
<1>. PICK h \in Clients : h = Head(backlog)
  BY <1>1 DEF IInv, TypeOK
<1>3. /\ h # None /\ f \in Fds /\ fdFile[f] = None
      /\ \A g \in Fds : fdFile[g] # h
  <2>1. h # None /\ f \in Fds /\ fdFile[f] = None
    BY DEF FreeFds
  <2>2. Len(backlog) \in Nat \ {0} /\ h = backlog[1]
    BY <1>1 DEF IInv, TypeOK
  <2>3. 1 \in 1 .. Len(backlog)
    BY <2>2
  <2>. QED
    BY <2>1, <2>2, <2>3 DEF IInv, FileInv
<1>4. Live' = Live \cup {p} /\ p \notin Live
  BY <1>2, <1>3 DEF IInv, TypeOK, Live
<1>5. \A q \in Live : /\ connFd'[q] = connFd[q] /\ connLoop'[q] = connLoop[q]
                      /\ fdFile'[connFd[q]] = fdFile[connFd[q]] /\ fdFile[connFd[q]] # h
  BY <1>2, <1>3 DEF IInv, TypeOK, FdInv, Live
<1>6. connFd'[p] = f /\ connLoop'[p] = l /\ fdFile'[f] = h
  BY <1>2, <1>3 DEF IInv, TypeOK
<1>7. ASSUME NEW c \in Clients, c # h PROVE ServersOf(c)' = ServersOf(c)
  <2>1. {q \in Live : fdFile[connFd[q]] = c}' = {q \in Live : fdFile[connFd[q]] = c}
    BY <1>4, <1>5, <1>6, <1>7
  <2>2. \A q \in {q \in Live : fdFile[connFd[q]] = c} : connLoop'[q] = connLoop[q]
    BY <1>5
  <2>. QED
    BY <2>1, <2>2 DEF ServersOf
<1>8. ServersOf(h)' = {l}
  <2>1. {q \in Live : fdFile[connFd[q]] = h}' = {p}
    BY <1>4, <1>5, <1>6
  <2>. QED
    BY <2>1, <1>6 DEF ServersOf
<1>9. \A m \in Loops : Serves(m)' = Serves(m)
  <2> SUFFICES ASSUME NEW m \in Loops PROVE Serves(m)' = Serves(m)
    OBVIOUS
  <2>1. CASE InHandler(m)
    <3>1. cur[m] \in Live
      BY <2>1 DEF IInv, HandlerInv
    <3>. QED
      BY <1>1, <1>5, <2>1, <3>1 DEF Serves, Peer
  <2>2. CASE ~InHandler(m)
    BY <1>1, <2>2 DEF Serves
  <2>. QED
    BY <2>1, <2>2
<1>10. [c \in Clients |-> ServersOf(c)]' = [[c \in Clients |-> ServersOf(c)] EXCEPT ![h] = {l}]
  BY <1>3, <1>7, <1>8
<1>. QED
  BY <1>1, <1>9, <1>10 DEF Served!Assign

\* The callback that poll() reported is for a client of the loop that no callback runs for.
LEMMA DispatchBegins ==
    ASSUME NEW l \in Loops, IInv, Dispatch(l)
    PROVE  \E c \in Clients : Served!Begin(l, c)
<1>1. PICK e \in batch[l] : cur' = [cur EXCEPT ![l] = e.ptr]
  BY DEF Dispatch
<1>2. /\ loopPc[l] = "dispatch" /\ loopPc' = [loopPc EXCEPT ![l] = "recv"]
      /\ UNCHANGED <<connFd, connLoop, fdFile, backlog>>
  BY DEF Dispatch
<1> DEFINE p == e.ptr
           c == fdFile[connFd[p]]
<1>3. p \in Live /\ connLoop[p] = l /\ c \in Clients /\ c # None
  BY DEF IInv, TypeOK, BatchInv, Current
<1>4. ServersOf(c) = {l}
  BY <1>3, OneServer
<1>5. ~InHandler(l)
  BY <1>2
<1>6. ASSUME NEW m \in Loops PROVE Serves(m) # c
  <2>1. CASE InHandler(m)
    BY <1>3, <1>5, <2>1, OneCallback
  <2>2. CASE ~InHandler(m)
    BY <1>3, <2>2 DEF Serves
  <2>. QED
    BY <2>1, <2>2
<1>7. Live' = Live
  BY <1>2 DEF Live
<1>8. \A d \in Clients : ServersOf(d)' = ServersOf(d)
  BY <1>2, <1>7 DEF ServersOf
<1>9. Serves(l) = None
  BY <1>5 DEF Serves
<1>10. Serves(l)' = c
  <2>1. InHandler(l)' /\ cur'[l] = p
    BY <1>1, <1>2 DEF IInv, TypeOK
  <2>. QED
    BY <1>2, <2>1 DEF Serves, Peer
<1>11. \A m \in Loops : m # l => Serves(m)' = Serves(m)
  BY <1>1, <1>2 DEF IInv, TypeOK, Serves, Peer
<1>12. [m \in Loops |-> Serves(m)]' = [[m \in Loops |-> Serves(m)] EXCEPT ![l] = c]
  BY <1>10, <1>11
<1>13. [d \in Clients |-> ServersOf(d)][c] = {l}
  BY <1>3, <1>4
<1>14. Served!Begin(l, c)
  BY <1>2, <1>6, <1>8, <1>9, <1>12, <1>13 DEF Served!Begin
<1>. QED
  BY <1>3, <1>14

\* A callback that returns leaves its client to the loop.
LEMMA DonePauses ==
    ASSUME NEW l \in Loops, IInv, HandlerDone(l)
    PROVE  Served!Pause(l)
<1>1. /\ InHandler(l)
      /\ UNCHANGED <<connFd, connLoop, fdFile, backlog>>
      /\ cur' = [cur EXCEPT ![l] = None]
      /\ loopPc' = [loopPc EXCEPT ![l] = IF batch[l] = {} THEN "poll" ELSE "dispatch"]
  BY DEF HandlerDone, Return
<1>2. Serves(l) # None
  BY <1>1, PeerIsClient DEF Serves
<1>3. Live' = Live
  BY <1>1 DEF Live
<1>4. \A d \in Clients : ServersOf(d)' = ServersOf(d)
  BY <1>1, <1>3 DEF ServersOf
<1>5. ~InHandler(l)'
  BY <1>1 DEF IInv, TypeOK
<1>6. Serves(l)' = None
  BY <1>5 DEF Serves
<1>7. \A m \in Loops : m # l => Serves(m)' = Serves(m)
  BY <1>1 DEF IInv, TypeOK, Serves, Peer
<1>8. [m \in Loops |-> Serves(m)]' = [[m \in Loops |-> Serves(m)] EXCEPT ![l] = None]
  BY <1>6, <1>7
<1>. QED
  BY <1>1, <1>2, <1>4, <1>8 DEF Served!Pause

\* deleteConnection ends the session of the client the callback runs for, and no other.
LEMMA EraseFinishes ==
    ASSUME NEW l \in Loops, IInv, Erase(l)
    PROVE  Served!Finish(l)
<1>. PICK p \in Live : p = cur[l] /\ connLoop[p] = l
  BY DEF IInv, HandlerInv, Erase
<1>. PICK f \in Fds : f = connFd[p]
  BY DEF IInv, TypeOK, Live
<1>. PICK c \in Clients : c = fdFile[f]
  BY DEF IInv, TypeOK, FdInv
<1>1. p \in Conns /\ c # None /\ mtx[l] = l
  BY DEF IInv, MutexInv, Erase, Live
<1>2. connections[l][f] = p
  BY <1>1 DEF IInv, OwnerInv, MutexInv, HandlerInv, Erase
<1>3. /\ connFd' = [connFd EXCEPT ![p] = None]
      /\ connLoop' = [connLoop EXCEPT ![p] = None]
      /\ fdFile' = [fdFile EXCEPT ![f] = None]
      /\ Return(l)
      /\ UNCHANGED backlog
  BY <1>1, <1>2 DEF Erase, Destroy
<1>4. Live' = Live \ {p}
  BY <1>1, <1>3 DEF IInv, TypeOK, Live
<1>5. ASSUME NEW q \in Live \ {p}
      PROVE  /\ connFd'[q] = connFd[q] /\ connLoop'[q] = connLoop[q]
             /\ fdFile'[connFd[q]] = fdFile[connFd[q]] /\ fdFile[connFd[q]] # c
  <2>1. q \in Conns /\ connFd[q] \in Fds /\ connFd[q] # f
    BY <1>1 DEF IInv, TypeOK, FdInv, Live
  <2>2. fdFile[connFd[q]] # c
    BY <1>1, <2>1 DEF IInv, FileInv
  <2>. QED
    BY <1>1, <1>3, <2>1, <2>2 DEF IInv, TypeOK
<1>6. ServersOf(c)' = {}
  BY <1>4, <1>5 DEF ServersOf
<1>7. ASSUME NEW d \in Clients, d # c PROVE ServersOf(d)' = ServersOf(d)
  <2>1. {q \in Live : fdFile[connFd[q]] = d}' = {q \in Live : fdFile[connFd[q]] = d}
    BY <1>4, <1>5, <1>7
  <2>2. \A q \in {q \in Live : fdFile[connFd[q]] = d} : connLoop'[q] = connLoop[q]
    BY <1>5, <1>7
  <2>. QED
    BY <2>1, <2>2 DEF ServersOf
<1>8. Serves(l) = c
  BY DEF Erase, Serves, Peer
<1>9. /\ loopPc' = [loopPc EXCEPT ![l] = IF batch[l] = {} THEN "poll" ELSE "dispatch"]
      /\ cur' = [cur EXCEPT ![l] = None]
  BY <1>3 DEF Return
<1>10. Serves(l)' = None
  <2>1. ~InHandler(l)'
    BY <1>9 DEF IInv, TypeOK
  <2>. QED
    BY <2>1 DEF Serves
<1>11. ASSUME NEW m \in Loops, m # l PROVE Serves(m)' = Serves(m)
  <2>1. loopPc'[m] = loopPc[m] /\ cur'[m] = cur[m]
    BY <1>9, <1>11 DEF IInv, TypeOK
  <2>2. CASE InHandler(m)
    <3>1. cur[m] \in Live \ {p}
      BY <1>1, <1>11, <2>2 DEF IInv, HandlerInv
    <3>. QED
      BY <1>5, <2>1, <2>2, <3>1 DEF Serves, Peer
  <2>3. CASE ~InHandler(m)
    BY <2>1, <2>3 DEF Serves
  <2>. QED
    BY <2>2, <2>3
<1>12. [m \in Loops |-> Serves(m)]' = [[m \in Loops |-> Serves(m)] EXCEPT ![l] = None]
  BY <1>10, <1>11
<1>13. [d \in Clients |-> ServersOf(d)]' = [[d \in Clients |-> ServersOf(d)] EXCEPT ![c] = {}]
  BY <1>1, <1>6, <1>7
<1>14. [m \in Loops |-> Serves(m)][l] = c
  BY <1>8
<1>. QED
  BY <1>1, <1>3, <1>12, <1>13, <1>14 DEF Served!Finish

\* A client that connects is in the queue only, and last.
LEMMA ConnectArrives ==
    ASSUME NEW c \in Clients, IInv, Connect(c)
    PROVE  Served!Arrive(c)
<1>1. /\ UNCHANGED <<connFd, connLoop, fdFile, loopPc, cur>>
      /\ backlog' = Append(backlog, c)
      /\ \A i \in DOMAIN backlog : backlog[i] # c
      /\ \A f \in Fds : fdFile[f] # c
  BY DEF Connect, Established, Waiting, OpenFiles
<1>2. ServersOf(c) = {}
  BY <1>1, NoServer
<1>3. Live' = Live
  BY <1>1 DEF Live
<1>4. \A d \in Clients : ServersOf(d)' = ServersOf(d)
  BY <1>1, <1>3 DEF ServersOf
<1>5. \A m \in Loops : Serves(m)' = Serves(m)
  BY <1>1 DEF Serves, Peer
<1>. QED
  BY <1>1, <1>2, <1>4, <1>5 DEF Served!Arrive

\* The result file belongs to no Connection.
LEMMA ForkFailsUnseen ==
    ASSUME NEW l \in Loops, IInv, ForkFails(l)
    PROVE  UNCHANGED Served!vars
<1>1. PICK f \in Fds : fdFile[f] = None /\ fdFile' = [fdFile EXCEPT ![f] = ResultFile]
  BY DEF ForkFails, FreeFds
<1>2. /\ UNCHANGED <<connFd, connLoop, backlog, cur>>
      /\ \A m \in Loops : InHandler(m)' = InHandler(m)
  BY DEF ForkFails, IInv, TypeOK
<1>3. Live' = Live /\ \A p \in Live : fdFile'[connFd[p]] = fdFile[connFd[p]]
  BY <1>1, <1>2 DEF IInv, TypeOK, FdInv, Live
<1>4. ASSUME NEW c \in Clients PROVE ServersOf(c)' = ServersOf(c)
  <2>1. {q \in Live : fdFile[connFd[q]] = c}' = {q \in Live : fdFile[connFd[q]] = c}
    BY <1>2, <1>3
  <2>. QED
    BY <1>2, <2>1 DEF ServersOf
<1>5. ASSUME NEW m \in Loops PROVE Serves(m)' = Serves(m)
  <2>1. CASE InHandler(m)
    <3>1. cur[m] \in Live
      BY <2>1 DEF IInv, HandlerInv
    <3>. QED
      BY <1>2, <1>3, <2>1, <3>1 DEF Serves, Peer
  <2>2. CASE ~InHandler(m)
    BY <1>2, <2>2 DEF Serves
  <2>. QED
    BY <2>1, <2>2
<1>. QED
  BY <1>2, <1>4, <1>5 DEF Served!vars

\* No other step of a loop's thread, of the main thread or of a client is seen.
LEMMA LoopUnseen ==
    ASSUME NEW l \in Loops, IInv, LoopNext(l), ~Dispatch(l), ~HandlerDone(l), ~Erase(l),
           ~ForkFails(l)
    PROVE  UNCHANGED Served!vars
<1>1. UNCHANGED <<connFd, connLoop, fdFile, backlog, cur>>
  BY DEF LoopNext, Poll, RecvChunk, RecvExit, RecvAgain, Respond, Fork, ChildExit, SendFull,
         Send, DeleteLock
<1>2. \/ UNCHANGED loopPc
      \/ loopPc[l] = "poll" /\ loopPc' = [loopPc EXCEPT ![l] = "dispatch"]
      \/ InHandler(l) /\ \E pc \in HandlerPcs : loopPc' = [loopPc EXCEPT ![l] = pc]
  BY DEF LoopNext, Poll, RecvChunk, RecvExit, RecvAgain, Respond, Fork, ChildExit, SendFull,
         Send, DeleteLock
<1>3. \A m \in Loops : InHandler(m)' = InHandler(m)
  BY <1>2 DEF IInv, TypeOK
<1>. QED
  BY <1>1, <1>3, SessionsKept

LEMMA MainUnseen ==
    ASSUME IInv, MainNext, ~Accept
    PROVE  UNCHANGED Served!vars
<1>1. UNCHANGED <<connFd, connLoop, fdFile, backlog, loopPc, cur>>
  BY DEF IInv, HandoverSafe, MainNext, MainPoll, AcceptFails, AddLock, AddCtl, AddCtlFails,
         AddInsert
<1>. QED
  BY <1>1, SessionsKept

LEMMA PeerUnseen ==
    ASSUME NEW c \in Clients, PeerNext(c), ~Connect(c)
    PROVE  UNCHANGED Served!vars
<1>1. UNCHANGED <<connFd, connLoop, fdFile, backlog, loopPc, cur>>
  BY DEF PeerNext, PeerSend, PeerClose, PeerRead
<1>. QED
  BY <1>1, SessionsKept

\* The clients are divided among the threads in the order of their arrival, each stays
\* with the thread it was given to, and only that thread, while it works for the client,
\* ends the session (acceptor.cpp:28-45, event_loop.cpp:12-40): whatever descriptors and
\* Connection objects are reused, and with or without CGI children.
THEOREM SessionRefinement == Spec => ImplementsSessions
<1>1. Init => Served!Init
  <2> SUFFICES ASSUME Init PROVE Served!Init
    OBVIOUS
  <2>1. Live = {}
    BY DEF Init, Live
  <2>2. \A c \in Clients : ServersOf(c) = {}
    BY <2>1 DEF ServersOf
  <2>3. \A l \in Loops : Serves(l) = None
    BY DEF Init, Serves
  <2>4. backlog = <<>>
    BY DEF Init
  <2>. QED
    BY <2>2, <2>3, <2>4 DEF Served!Init
<1>2. IInv /\ [Next]_vars => [Served!Next]_(Served!vars)
  <2> SUFFICES ASSUME IInv, [Next]_vars PROVE Served!Next \/ UNCHANGED Served!vars
    OBVIOUS
  <2>1. CASE UNCHANGED vars
    BY <2>1, SessionsKept DEF vars
  <2>2. CASE MainNext
    BY <2>2, AcceptAssigns, MainUnseen DEF Served!Next
  <2>3. ASSUME NEW l \in Loops, LoopNext(l) PROVE Served!Next \/ UNCHANGED Served!vars
    BY <2>3, DispatchBegins, DonePauses, EraseFinishes, ForkFailsUnseen,
       LoopUnseen DEF Served!Next
  <2>4. ASSUME NEW c \in Clients, PeerNext(c) PROVE Served!Next \/ UNCHANGED Served!vars
    BY <2>4, ConnectArrives, PeerUnseen DEF Served!Next
  <2>. QED
    BY <2>1, <2>2, <2>3, <2>4 DEF Next
<1>. QED
  BY <1>1, <1>2, Invariance, PTL DEF Spec, ImplementsSessions, Served!Spec
=============================================================================
