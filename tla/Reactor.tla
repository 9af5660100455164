------------------------------- MODULE Reactor -------------------------------
(***************************************************************************)
(* The main/sub reactor core of FalconLink: the main thread runs the       *)
(* acceptor's EventLoop and hands every accepted client to one of the sub  *)
(* EventLoops, each of which runs on a thread of its own ("one loop per    *)
(* thread").  A sub loop polls its epoll instance and runs the callback of *)
(* every connection the kernel reports; the callback reads the socket      *)
(* until EAGAIN or EOF, answers, and may delete its own connection.        *)
(*                                                                         *)
(* Source: net/acceptor.cpp, net/event_loop.cpp, net/poller.cpp,           *)
(* net/connection.cpp, net/socket.cpp, and the handlers of the two example *)
(* servers (examples/echo, examples/http_server).                          *)
(*                                                                         *)
(* Threads interleave at the points where they touch shared state: the     *)
(* kernel (accept, epoll_ctl, epoll_wait, recv, send, close) and a loop's  *)
(* mutex.  The kernel is external: a client's TCP connection is one open   *)
(* file description, named by the client; epoll is edge-triggered.         *)
(***************************************************************************)
EXTENDS Naturals, Sequences, FiniteSets

CONSTANTS Loops,      \* the sub reactors (and the threads that run them)
          Clients,    \* the peers; each holds at most one TCP connection
          Fds,        \* file descriptor numbers the process may use
          Conns,      \* heap addresses a Connection object may occupy
          None,       \* no connection, no file, no holder
          Main,       \* the main thread
          ResultFile, \* the file a CGI run prints into, no client's
          Steady,     \* the clients that read what they are sent, and stop sending
          PollSize,   \* size of one epoll_wait batch (DEFAULT_EVENTS_LISTENED)
          MaxRx,      \* bound: chunks a client may have unread at once
          MaxReqs,    \* bound: complete requests in a read buffer at once
          CgiEnabled, \* whether a handler may fork a CGI child
          CtlMayFail  \* whether epoll_ctl may fail

ASSUME NamesAssumption ==
    /\ None \notin Loops \cup Clients \cup Fds \cup Conns \cup {Main}
    /\ Main \notin Loops
    /\ ResultFile \notin Clients \cup {None}
    /\ Steady \subseteq Clients

ASSUME BoundsAssumption ==
    /\ PollSize \in Nat \ {0}
    /\ MaxRx \in Nat \ {0}
    /\ MaxReqs \in Nat \ {0}
    /\ CgiEnabled \in BOOLEAN
    /\ CtlMayFail \in BOOLEAN

VARIABLES
    (* the process *)
    connFd,       \* Connection::fd(); None where no Connection is allocated
    connLoop,     \* Connection::owner_looper_
    connections,  \* EventLoop::connections_: per loop, fd -> Connection
    mtx,          \* EventLoop::mtx_: the thread that holds it
    mainPc,       \* where the main thread is
    newConn,      \* the main thread's client_connection
    loopPc,       \* where each sub loop's thread is
    batch,        \* what is left of the loop's ready_conns
    cur,          \* the connection whose callback the loop runs
    reqs,         \* complete requests left in that connection's read_buf_
    (* the kernel *)
    fdFile,       \* descriptor table: fd -> open file description
    backlog,      \* the listen queue: clients waiting for accept()
    rx,           \* chunks a client has sent that recv() has not taken
    fin,          \* clients that have closed their side
    stalled,      \* clients whose window is full: send() gets EAGAIN
    interest,     \* per epoll instance, its registrations
    ready,        \* per epoll instance, the registrations on its ready list
    childFiles    \* per loop, the files the CGI child it forked inherited

procVars   == <<connFd, connLoop, connections, mtx>>
mainVars   == <<mainPc, newConn>>
loopVars   == <<loopPc, batch, cur, reqs>>
sockVars   == <<fdFile, backlog, rx, fin, stalled>>
epollVars  == <<interest, ready>>
vars == <<procVars, mainVars, loopVars, sockVars, epollVars, childFiles>>

\* A registration as epoll keeps it: keyed by file and descriptor, carrying
\* the Connection pointer of epoll_event.data.ptr.
Reg == [file : Clients, fd : Fds, ptr : Conns]

MainPcs == {"poll", "accept", "lock", "ctl", "insert"}

\* "recv" .. "erase": the callback of cur is running.
HandlerPcs == {"recv", "handle", "cgi", "send", "spin", "lock", "erase"}
LoopPcs == {"poll", "dispatch"} \cup HandlerPcs

TypeOK ==
    /\ connFd \in [Conns -> Fds \cup {None}]
    /\ connLoop \in [Conns -> Loops \cup {None}]
    /\ connections \in [Loops -> [Fds -> Conns \cup {None}]]
    /\ mtx \in [Loops -> Loops \cup {Main, None}]
    /\ mainPc \in MainPcs
    /\ newConn \in Conns \cup {None}
    /\ loopPc \in [Loops -> LoopPcs]
    /\ batch \in [Loops -> SUBSET Reg]
    /\ cur \in [Loops -> Conns \cup {None}]
    /\ reqs \in [Loops -> 0 .. MaxReqs]
    /\ fdFile \in [Fds -> Clients \cup {ResultFile, None}]
    /\ backlog \in Seq(Clients)
    /\ rx \in [Clients -> 0 .. MaxRx]
    /\ fin \subseteq Clients
    /\ stalled \subseteq Clients
    /\ interest \in [Loops -> SUBSET Reg]
    /\ ready \in [Loops -> SUBSET Reg]
    /\ childFiles \in [Loops -> SUBSET Clients]
----------------------------------------------------------------------------
(***************************************************************************)
(* The kernel                                                              *)
(***************************************************************************)

Live == {p \in Conns : connFd[p] # None}
FreeFds == {f \in Fds : fdFile[f] = None}
OpenFiles == {fdFile[f] : f \in Fds} \ {ResultFile, None}
HeldByChild == UNION {childFiles[l] : l \in Loops}

\* Input a recv() would return at once: data, or the end of the stream.
Readable(c) == rx[c] > 0 \/ c \in fin

\* An edge: every registration of the client's file joins its ready list.
Wake(c) ==
    ready' = [l \in Loops |-> ready[l] \cup {r \in interest[l] : r.file = c}]

\* The last descriptor of these files is gone: the kernel drops them from
\* every epoll instance and the TCP connections end.
Release(files) ==
    /\ interest' = [l \in Loops |-> {r \in interest[l] : r.file \notin files}]
    /\ ready' = [l \in Loops |-> {r \in ready[l] : r.file \notin files}]
    /\ rx' = [c \in Clients |-> IF c \in files THEN 0 ELSE rx[c]]
    /\ fin' = fin \ files
    /\ stalled' = stalled \ files

\* Mutant of Destroy: ~Socket does not close its descriptor.
DestroyWithoutClose(p) ==
    /\ connFd' = [connFd EXCEPT ![p] = None]
    /\ connLoop' = [connLoop EXCEPT ![p] = None]
    /\ UNCHANGED <<sockVars, epollVars>>

\* ~Connection and ~Socket, which closes the descriptor.  A file that a
\* forked child still holds stays open, and so does its epoll registration.
Destroy(p) ==
    /\ fdFile' = [fdFile EXCEPT ![connFd[p]] = None]
    /\ Release({fdFile[connFd[p]]} \ HeldByChild)
    /\ UNCHANGED backlog
    /\ connFd' = [connFd EXCEPT ![p] = None]
    /\ connLoop' = [connLoop EXCEPT ![p] = None]
----------------------------------------------------------------------------
(***************************************************************************)
(* The main thread: EventLoop::loop() over the acceptor's connection.      *)
(***************************************************************************)

\* poll() reports the listening socket, which is level-triggered.
MainPoll ==
    /\ mainPc = "poll"
    /\ backlog # <<>>
    /\ mainPc' = "accept"
    /\ UNCHANGED <<procVars, newConn, loopVars, sockVars, epollVars, childFiles>>

\* Acceptor::basicAcceptBehavior up to addConnection(): accept, build the
\* Connection and give it to a sub reactor chosen by rand().
Accept ==
    /\ mainPc = "accept"
    /\ backlog # <<>>
    /\ backlog' = Tail(backlog)
    /\ \E f \in FreeFds, p \in Conns \ Live, l \in Loops :
         /\ fdFile' = [fdFile EXCEPT ![f] = Head(backlog)]
         /\ connFd' = [connFd EXCEPT ![p] = f]
         /\ connLoop' = [connLoop EXCEPT ![p] = l]
         /\ newConn' = p
    /\ mainPc' = "lock"
    /\ UNCHANGED <<connections, mtx, loopVars, rx, fin, stalled, epollVars, childFiles>>

\* Mutant of AcceptFails: the listening socket is edge-triggered too, and nothing
\* reports again the clients that are already waiting.
AcceptFailsForGood ==
    /\ mainPc = "accept"
    /\ FreeFds = {}
    /\ mainPc' = "edge"
    /\ UNCHANGED <<procVars, newConn, loopVars, sockVars, epollVars, childFiles>>

\* accept() returns -1 because the process is out of descriptors: the early
\* return, after which poll() reports the listening socket again.
AcceptFails ==
    /\ mainPc = "accept"
    /\ FreeFds = {}
    /\ mainPc' = "poll"
    /\ UNCHANGED <<procVars, newConn, loopVars, sockVars, epollVars, childFiles>>

\* Mutant of AddLock: addConnection takes no lock.
AddLockMissing ==
    /\ mainPc = "lock"
    /\ mainPc' = "ctl"
    /\ UNCHANGED <<procVars, newConn, loopVars, sockVars, epollVars, childFiles>>

\* EventLoop::addConnection takes the sub loop's mutex ...
AddLock ==
    /\ mainPc = "lock"
    /\ mtx[connLoop[newConn]] = None
    /\ mtx' = [mtx EXCEPT ![connLoop[newConn]] = Main]
    /\ mainPc' = "ctl"
    /\ UNCHANGED <<connFd, connLoop, connections, newConn, loopVars,
                   sockVars, epollVars, childFiles>>

\* ... registers the connection with the loop's epoll (Poller::addConnection),
\* which may make it ready at once ...
RegOf(p) == [file |-> fdFile[connFd[p]], fd |-> connFd[p], ptr |-> p]

\* Mutant of AddCtl: EPOLL_CTL_MOD, which fails for a descriptor that is new.
AddCtlModifies ==
    /\ mainPc = "ctl"
    /\ mainPc' = "insert"
    /\ interest' = [interest EXCEPT ![connLoop[newConn]] =
                       {IF r.fd = connFd[newConn] THEN RegOf(newConn) ELSE r : r \in @}]
    /\ UNCHANGED <<procVars, newConn, loopVars, sockVars, ready, childFiles>>

AddCtl ==
    /\ mainPc = "ctl"
    /\ interest' = [interest EXCEPT ![connLoop[newConn]] = @ \cup {RegOf(newConn)}]
    /\ ready' = [ready EXCEPT ![connLoop[newConn]] =
                    IF Readable(fdFile[connFd[newConn]]) THEN @ \cup {RegOf(newConn)} ELSE @]
    /\ mainPc' = "insert"
    /\ UNCHANGED <<procVars, newConn, loopVars, sockVars, childFiles>>

\* ... ignoring an error of epoll_ctl ...
AddCtlFails ==
    /\ CtlMayFail
    /\ mainPc = "ctl"
    /\ mainPc' = "insert"
    /\ UNCHANGED <<procVars, newConn, loopVars, sockVars, epollVars, childFiles>>

\* Mutants of AddInsert: the pointer is released and never inserted, or dies
\* with the argument.
AddInsertReleased ==
    /\ mainPc = "insert"
    /\ mtx' = [mtx EXCEPT ![connLoop[newConn]] = None]
    /\ mainPc' = "poll"
    /\ newConn' = None
    /\ UNCHANGED <<connFd, connLoop, connections, loopVars, sockVars, epollVars, childFiles>>

AddInsertDropped ==
    /\ mainPc = "insert"
    /\ Destroy(newConn)
    /\ mtx' = [mtx EXCEPT ![connLoop[newConn]] = None]
    /\ mainPc' = "poll"
    /\ newConn' = None
    /\ UNCHANGED <<connections, loopVars, childFiles>>

\* ... and inserts it into connections_.  unordered_map::insert leaves an
\* existing key alone, and then the new Connection dies with the argument.
AddInsert ==
    /\ mainPc = "insert"
    /\ LET l == connLoop[newConn]
           f == connFd[newConn]
       IN  /\ IF connections[l][f] = None
              THEN /\ connections' = [connections EXCEPT ![l][f] = newConn]
                   /\ UNCHANGED <<connFd, connLoop, sockVars, epollVars>>
              ELSE /\ Destroy(newConn)
                   /\ UNCHANGED connections
           /\ mtx' = [mtx EXCEPT ![l] = None]
    /\ mainPc' = "poll"
    /\ newConn' = None
    /\ UNCHANGED <<loopVars, childFiles>>

MainNext ==
    MainPoll \/ Accept \/ AcceptFails \/ AddLock \/ AddCtl \/ AddCtlFails \/ AddInsert
----------------------------------------------------------------------------
(***************************************************************************)
(* The thread of sub loop l: EventLoop::loop()                             *)
(***************************************************************************)

\* The registration's Connection is the one that registered the file.
Current(r) ==
    /\ r.ptr \in Live
    /\ connFd[r.ptr] = r.fd
    /\ fdFile[r.fd] = r.file

\* Poller::poll: epoll_wait reports up to PollSize edges, and setRevents()
\* writes through each reported pointer.  Behaviours end where that pointer is
\* not the Connection that was registered; NoDanglingEvent says none does.
Poll(l) ==
    /\ loopPc[l] = "poll"
    /\ \E S \in SUBSET ready[l] :
         /\ S # {}
         /\ Cardinality(S) <= PollSize
         /\ S = ready[l] \/ Cardinality(S) = PollSize
         /\ \A r \in S : Current(r)
         /\ ready' = [ready EXCEPT ![l] = @ \ S]
         /\ batch' = [batch EXCEPT ![l] = S]
    /\ loopPc' = [loopPc EXCEPT ![l] = "dispatch"]
    /\ UNCHANGED <<procVars, mainVars, cur, reqs, sockVars, interest, childFiles>>

\* conn->getCallback()(): the handler starts with client_conn->recv().
Dispatch(l) ==
    /\ loopPc[l] = "dispatch"
    /\ \E r \in batch[l] :
         /\ cur' = [cur EXCEPT ![l] = r.ptr]
         /\ batch' = [batch EXCEPT ![l] = @ \ {r}]
    /\ loopPc' = [loopPc EXCEPT ![l] = "recv"]
    /\ UNCHANGED <<procVars, mainVars, reqs, sockVars, epollVars, childFiles>>

\* The client at the other end of the connection the handler runs for.
Peer(l) == fdFile[connFd[cur[l]]]

\* The callback returns: on to the next pointer of ready_conns, or to poll().
Return(l) ==
    /\ loopPc' = [loopPc EXCEPT ![l] = IF batch[l] = {} THEN "poll" ELSE "dispatch"]
    /\ cur' = [cur EXCEPT ![l] = None]
    /\ reqs' = [reqs EXCEPT ![l] = 0]

\* Mutants of RecvChunk: a result of 0 counts as data; recv() is called once.
RecvChunkUnchecked(l) ==
    /\ loopPc[l] = "recv"
    /\ rx' = [rx EXCEPT ![Peer(l)] = @ - 1]
    /\ UNCHANGED <<procVars, mainVars, loopVars, fdFile, backlog, fin, stalled,
                   epollVars, childFiles>>

RecvChunkOnce(l) ==
    /\ loopPc[l] = "recv"
    /\ rx[Peer(l)] > 0
    /\ rx' = [rx EXCEPT ![Peer(l)] = @ - 1]
    /\ loopPc' = [loopPc EXCEPT ![l] = "handle"]
    /\ UNCHANGED <<procVars, mainVars, batch, cur, reqs, fdFile, backlog,
                   fin, stalled, epollVars, childFiles>>

\* Connection::recv, one turn of its loop: it takes a chunk, which completes
\* some number of requests in the read buffer ...
RecvChunk(l) ==
    /\ loopPc[l] = "recv"
    /\ rx[Peer(l)] > 0
    /\ rx' = [rx EXCEPT ![Peer(l)] = @ - 1]
    /\ \E n \in reqs[l] .. MaxReqs : reqs' = [reqs EXCEPT ![l] = n]
    /\ UNCHANGED <<procVars, mainVars, loopPc, batch, cur, fdFile, backlog,
                   fin, stalled, epollVars, childFiles>>

\* Mutant of RecvExit: the handler returns without deleting the connection.
RecvExitKeeps(l) ==
    /\ loopPc[l] = "recv"
    /\ rx[Peer(l)] = 0
    /\ Peer(l) \in fin
    /\ Return(l)
    /\ UNCHANGED <<procVars, mainVars, batch, sockVars, epollVars, childFiles>>

\* ... or meets the end of the stream: the handler deletes the connection,
\* whatever it has read ...
RecvExit(l) ==
    /\ loopPc[l] = "recv"
    /\ rx[Peer(l)] = 0
    /\ Peer(l) \in fin
    /\ loopPc' = [loopPc EXCEPT ![l] = "lock"]
    /\ UNCHANGED <<procVars, mainVars, batch, cur, reqs, sockVars,
                   epollVars, childFiles>>

\* ... or gets EAGAIN: all data is read.
RecvAgain(l) ==
    /\ loopPc[l] = "recv"
    /\ ~Readable(Peer(l))
    /\ loopPc' = [loopPc EXCEPT ![l] = "handle"]
    /\ UNCHANGED <<procVars, mainVars, batch, cur, reqs, sockVars,
                   epollVars, childFiles>>

\* The handler finds no (further) complete request and returns ...
HandlerDone(l) ==
    /\ loopPc[l] = "handle"
    /\ reqs[l] = 0
    /\ Return(l)
    /\ UNCHANGED <<procVars, mainVars, batch, sockVars, epollVars, childFiles>>

\* ... or pops one and writes its response to the write buffer (also that of a CGI
\* run for which no descriptor is left: a text that says so) ...
Respond(l) ==
    /\ loopPc[l] = "handle"
    /\ reqs[l] > 0
    /\ reqs' = [reqs EXCEPT ![l] = @ - 1]
    /\ loopPc' = [loopPc EXCEPT ![l] = "send"]
    /\ UNCHANGED <<procVars, mainVars, batch, cur, sockVars, epollVars, childFiles>>

\* ... after running a CGI program: Cgier::run opens the result file, forks and
\* closes it; the child inherits every descriptor of the process ...
Fork(l) ==
    /\ CgiEnabled
    /\ loopPc[l] = "handle"
    /\ reqs[l] > 0
    /\ FreeFds # {}
    /\ reqs' = [reqs EXCEPT ![l] = @ - 1]
    /\ childFiles' = [childFiles EXCEPT ![l] = OpenFiles]
    /\ loopPc' = [loopPc EXCEPT ![l] = "cgi"]
    /\ UNCHANGED <<procVars, mainVars, batch, cur, sockVars, epollVars>>

\* ... or fork() fails, and the answer says so; the early return leaves the
\* descriptor of the result file open for good ...
ForkFails(l) ==
    /\ CgiEnabled
    /\ loopPc[l] = "handle"
    /\ reqs[l] > 0
    /\ reqs' = [reqs EXCEPT ![l] = @ - 1]
    /\ \E f \in FreeFds : fdFile' = [fdFile EXCEPT ![f] = ResultFile]
    /\ loopPc' = [loopPc EXCEPT ![l] = "send"]
    /\ UNCHANGED <<procVars, mainVars, batch, cur, backlog, rx, fin, stalled, epollVars,
                   childFiles>>

\* ... until the child exits and waitpid() returns.
ChildExit(l) ==
    /\ loopPc[l] = "cgi"
    /\ childFiles' = [childFiles EXCEPT ![l] = {}]
    /\ Release(childFiles[l] \ (OpenFiles \cup UNION {childFiles[m] : m \in Loops \ {l}}))
    /\ loopPc' = [loopPc EXCEPT ![l] = "send"]
    /\ UNCHANGED <<procVars, mainVars, batch, cur, reqs, fdFile, backlog>>

\* Connection::send: the client's window is full (EAGAIN), and the call
\* spins until the client reads ...
SendFull(l) ==
    /\ loopPc[l] = "send"
    /\ stalled' = stalled \cup {Peer(l)}
    /\ loopPc' = [loopPc EXCEPT ![l] = "spin"]
    /\ UNCHANGED <<procVars, mainVars, batch, cur, reqs, fdFile, backlog, rx, fin,
                   epollVars, childFiles>>

\* Mutant of Send: an error is retried like EAGAIN.
SendRetriesErrors(l) ==
    /\ \/ loopPc[l] = "send"
       \/ loopPc[l] = "spin" /\ Peer(l) \notin stalled
    /\ \E pc \in {"handle", "lock"} : loopPc' = [loopPc EXCEPT ![l] = pc]
    /\ UNCHANGED <<procVars, mainVars, batch, cur, reqs, sockVars, epollVars, childFiles>>

\* ... and returns when all is written, or on an error.  The handler looks for
\* the next request, or closes the client (an error response, or the client
\* asked for it).
Send(l) ==
    /\ \/ loopPc[l] = "send"
       \/ loopPc[l] = "spin" /\ (Peer(l) \notin stalled \/ Peer(l) \in fin)
    /\ \E pc \in {"handle", "lock"} : loopPc' = [loopPc EXCEPT ![l] = pc]
    /\ UNCHANGED <<procVars, mainVars, batch, cur, reqs, sockVars, epollVars, childFiles>>

\* EventLoop::deleteConnection of the connection's own loop takes the mutex ...
DeleteLock(l) ==
    /\ loopPc[l] = "lock"
    /\ mtx[connLoop[cur[l]]] = None
    /\ mtx' = [mtx EXCEPT ![connLoop[cur[l]]] = l]
    /\ loopPc' = [loopPc EXCEPT ![l] = "erase"]
    /\ UNCHANGED <<connFd, connLoop, connections, mainVars, batch, cur, reqs,
                   sockVars, epollVars, childFiles>>

\* Mutants of Erase: the handler goes on with the deleted connection; the map
\* entry stays.
EraseThenContinue(l) ==
    /\ loopPc[l] = "erase"
    /\ Destroy(cur[l])
    /\ connections' = [connections EXCEPT ![l][connFd[cur[l]]] = None]
    /\ mtx' = [mtx EXCEPT ![l] = None]
    /\ loopPc' = [loopPc EXCEPT ![l] = "handle"]
    /\ UNCHANGED <<mainVars, batch, cur, reqs, childFiles>>

EraseKeepsEntry(l) ==
    /\ loopPc[l] = "erase"
    /\ Destroy(cur[l])
    /\ mtx' = [mtx EXCEPT ![l] = None]
    /\ Return(l)
    /\ UNCHANGED <<connections, mainVars, batch, childFiles>>

\* ... and erases the entry of the descriptor, if there is one, and with it
\* the Connection.
Erase(l) ==
    /\ loopPc[l] = "erase"
    /\ LET m == connLoop[cur[l]]
           f == connFd[cur[l]]
       IN  /\ IF connections[m][f] = None
              THEN UNCHANGED <<connFd, connLoop, connections, sockVars, epollVars>>
              ELSE /\ Destroy(connections[m][f])
                   /\ connections' = [connections EXCEPT ![m][f] = None]
           /\ mtx' = [mtx EXCEPT ![m] = None]
    /\ Return(l)
    /\ UNCHANGED <<mainVars, batch, childFiles>>

LoopNext(l) ==
    \/ Poll(l) \/ Dispatch(l)
    \/ RecvChunk(l) \/ RecvExit(l) \/ RecvAgain(l)
    \/ HandlerDone(l) \/ Respond(l) \/ Fork(l) \/ ForkFails(l) \/ ChildExit(l)
    \/ SendFull(l) \/ Send(l)
    \/ DeleteLock(l) \/ Erase(l)
----------------------------------------------------------------------------
(***************************************************************************)
(* The clients                                                             *)
(***************************************************************************)

Waiting(c) == \E i \in DOMAIN backlog : backlog[i] = c
Established(c) == Waiting(c) \/ c \in OpenFiles \cup HeldByChild

Connect(c) ==
    /\ ~Established(c)
    /\ backlog' = Append(backlog, c)
    /\ UNCHANGED <<procVars, mainVars, loopVars, fdFile, rx, fin, stalled,
                   epollVars, childFiles>>

PeerSend(c) ==
    /\ Established(c)
    /\ c \notin fin
    /\ rx[c] < MaxRx
    /\ rx' = [rx EXCEPT ![c] = @ + 1]
    /\ Wake(c)
    /\ UNCHANGED <<procVars, mainVars, loopVars, fdFile, backlog, fin, stalled,
                   interest, childFiles>>

PeerClose(c) ==
    /\ Established(c)
    /\ c \notin fin
    /\ fin' = fin \cup {c}
    /\ Wake(c)
    /\ UNCHANGED <<procVars, mainVars, loopVars, fdFile, backlog, rx, stalled,
                   interest, childFiles>>

\* The client reads what the server has sent.
PeerRead(c) ==
    /\ c \in stalled \ fin
    /\ stalled' = stalled \ {c}
    /\ UNCHANGED <<procVars, mainVars, loopVars, fdFile, backlog, rx, fin,
                   epollVars, childFiles>>

PeerNext(c) ==
    Connect(c) \/ PeerSend(c) \/ PeerClose(c) \/ PeerRead(c)
----------------------------------------------------------------------------
Init ==
    /\ connFd = [p \in Conns |-> None]
    /\ connLoop = [p \in Conns |-> None]
    /\ connections = [l \in Loops |-> [f \in Fds |-> None]]
    /\ mtx = [l \in Loops |-> None]
    /\ mainPc = "poll"
    /\ newConn = None
    /\ loopPc = [l \in Loops |-> "poll"]
    /\ batch = [l \in Loops |-> {}]
    /\ cur = [l \in Loops |-> None]
    /\ reqs = [l \in Loops |-> 0]
    /\ fdFile = [f \in Fds |-> None]
    /\ backlog = <<>>
    /\ rx = [c \in Clients |-> 0]
    /\ fin = {}
    /\ stalled = {}
    /\ interest = [l \in Loops |-> {}]
    /\ ready = [l \in Loops |-> {}]
    /\ childFiles = [l \in Loops |-> {}]

Next ==
    \/ MainNext
    \/ \E l \in Loops : LoopNext(l)
    \/ \E c \in Clients : PeerNext(c)

Spec == Init /\ [][Next]_vars

(***************************************************************************)
(* Fairness.  Every thread keeps running.  A steady client that stops      *)
(* reading resumes, or closes, some day, and does not send for ever; the   *)
(* others owe nothing.                                                     *)
(***************************************************************************)
ServerFairness ==
    /\ WF_vars(MainNext)
    /\ \A l \in Loops : WF_vars(LoopNext(l))

ClientFairness ==
    \A c \in Steady : WF_vars(PeerRead(c)) /\ <>[][~PeerSend(c)]_vars

FairSpec == Spec /\ ServerFairness /\ ClientFairness
----------------------------------------------------------------------------
(***************************************************************************)
(* Safety                                                                  *)
(***************************************************************************)
InHandler(l) == loopPc[l] \in HandlerPcs
InFlight == mainPc \in {"lock", "ctl", "insert"}

\* No event that a loop's next epoll_wait may return carries the pointer of a
\* Connection that has been destroyed or replaced: Poller::poll writes through
\* it (poller.cpp:52).
NoDanglingEvent ==
    \A l \in Loops : loopPc[l] = "poll" => \A r \in ready[l] : Current(r)

\* One loop per thread: the connection a callback runs for, and those still
\* to be dispatched, exist and belong to the loop that runs the callback, so
\* no two threads ever work on one Connection (event_loop.cpp:13-16).
LoopOwnsItsConnections ==
    \A l \in Loops :
        /\ InHandler(l) => cur[l] \in Live /\ connLoop[cur[l]] = l
        /\ \A r \in batch[l] : Current(r) /\ connLoop[r.ptr] = l

\* deleteConnection finds the connection its caller means, although epoll
\* reports a connection before addConnection has inserted it: the mutex, taken
\* before epoll_ctl, orders them (event_loop.cpp:26-29, 33-38).
DeleteFindsConnection ==
    \A l \in Loops :
        loopPc[l] = "erase" => connections[l][connFd[cur[l]]] = cur[l]

\* The pointer addConnection dereferences after epoll_ctl is still alive, and
\* insert() finds its key free, so the Connection is kept (event_loop.cpp:27-29).
HandoverSafe ==
    InFlight => /\ newConn \in Live
                /\ connections[connLoop[newConn]][connFd[newConn]] = None

\* Nothing leaks: every open descriptor is owned by exactly one Connection,
\* and every Connection by one map entry or by the accepting thread.  The one
\* exception is the result file of a CGI run whose fork() failed (cgier.cpp:57-60).
NoLeak ==
    /\ \A f \in Fds : fdFile[f] # None =>
         (\E p \in Live : connFd[p] = f) \/ (CgiEnabled /\ fdFile[f] = ResultFile)
    /\ \A p, q \in Live : connFd[p] = connFd[q] => p = q
    /\ \A p \in Live : \/ InFlight /\ newConn = p
                       \/ connections[connLoop[p]][connFd[p]] = p

\* Edge-triggered epoll reports an edge once.  Input that is still unread on
\* a registered connection is on its way to a recv(): the edge is pending or
\* in the batch, or the callback is still reading or will delete the
\* connection (connection.cpp:74-101, poller.cpp:41-56).
NoStuckInput ==
    \A l \in Loops : \A r \in interest[l] :
        Readable(r.file) /\ Current(r) =>
            \/ r \in ready[l] \cup batch[l]
            \/ cur[l] = r.ptr /\ loopPc[l] \in {"recv", "lock", "erase"}

\* Every connection in a loop's map is registered with that loop's poller
\* (event_loop.cpp:25-30); it holds as long as epoll_ctl succeeds.
MapRegistered ==
    \A l \in Loops : \A f \in Fds :
        connections[l][f] # None =>
            \E r \in interest[l] : r.fd = f /\ r.ptr = connections[l][f] /\ Current(r)

\* A Connection is destroyed only by the callback of that very connection, on
\* the loop it was given to; it never changes loop or descriptor.
OnlyOwnHandlerDestroys ==
    [][\A p \in Live :
         \/ connFd'[p] = connFd[p] /\ connLoop'[p] = connLoop[p]
         \/ p \notin Live' /\ \E l \in Loops : loopPc[l] = "erase" /\ cur[l] = p]_vars

\* The sub loops whose Connections lead to client c, and the client that loop l
\* works for.
ServersOf(c) == {connLoop[p] : p \in {q \in Live : fdFile[connFd[q]] = c}}
Serves(l) == IF InHandler(l) THEN Peer(l) ELSE None

Served == INSTANCE Sessions WITH Clients <- Clients, Loops <- Loops, None <- None,
                                 queue <- backlog,
                                 servers <- [c \in Clients |-> ServersOf(c)],
                                 serving <- [l \in Loops |-> Serves(l)]

\* To its clients the server is a set of threads among which the clients are divided
\* in the order of their arrival, each for good, although descriptors and Connection
\* objects are reused and two threads handle one map (acceptor.cpp:28-45,
\* event_loop.cpp:12-40).
ImplementsSessions == Served!Spec
----------------------------------------------------------------------------
(***************************************************************************)
(* Liveness                                                                *)
(***************************************************************************)

\* As long as descriptors become free again, every client in the listen queue is
\* accepted.  An accept() that fails for want of a descriptor is tried again, since the
\* listening socket is level-triggered, and no other client overtakes for ever
\* (acceptor.cpp:19, 28-45).
EveryClientAccepted ==
    []<>(FreeFds # {}) => \A c \in Clients : Waiting(c) ~> ~Waiting(c)

\* A client of loop l that may keep its thread for ever: one that is sent more than
\* it reads (send() spins on EAGAIN, connection.cpp:111), or sends without end
\* (recv() reads until EAGAIN, connection.cpp:79).
MayHold(l) == \E c \in Clients \ (Steady \cup fin) : l \in ServersOf(c)

\* Every connection whose client has closed is deleted and its descriptor released
\* (the exit path of the handlers), unless an unsteady client comes to its loop:
\* whatever those of the other loops do.  (A client has at most one loop.)
EveryExitReleased ==
    \A c \in Clients :
        c \in fin /\ ServersOf(c) # {} ~> \A l \in ServersOf(c) : MayHold(l)

\* One client can keep a loop from coming back to poll(), although the sockets do not
\* block; the steady clients of a loop, and all clients of the other loops, cannot.
LoopReturnsToPoll == \A l \in Loops : []<>(loopPc[l] = "poll" \/ MayHold(l))
=============================================================================
