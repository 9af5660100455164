# FalconLink: TLA+ specifications and proofs

FalconLink is a C++ network library (`falconlink/`) built as a main/sub reactor: one
thread accepts clients, a pool of threads runs one event loop each, and the user
supplies a callback per connection. `examples/` holds an echo server and an HTTP server
built on it. `build_support/` holds the tools that `make` runs over the sources:
cpplint, a parallel clang-tidy runner and a clang-format runner. This directory models
the concurrent core, the HTTP handler and the tools, checks them with TLC on small
instances and proves the safety properties of the core and of the cache, each with the
refinement of an abstract specification, of the HTTP handler and of the tools' drivers
with TLAPS for all instances.

## 1. The system

| Part | State | Operations | Talks to |
|---|---|---|---|
| Acceptor (`net/acceptor.cpp`) | listening connection, list of sub loops | accept a client, build its `Connection`, pick a loop with `rand()` | `EventLoop::addConnection` of a sub loop, from the main thread |
| EventLoop (`net/event_loop.cpp`) | `connections_` (fd to `Connection`), `mtx_`, `quit_` | `loop`, `addConnection`, `deleteConnection` | Poller; callbacks of connections |
| Poller (`net/poller.cpp`) | epoll instance, event buffer | `addConnection`, `poll` | the kernel; writes through the `Connection` pointer epoll returns |
| Connection, Socket (`net/connection.cpp`, `net/socket.cpp`) | descriptor, buffers, owning loop | `recv` until EAGAIN, `send` until all is written, close on destruction | the kernel |
| Handlers (`examples/`) | none (echo); cache, resource directory (HTTP) | answer requests, delete the own connection | Connection, EventLoop, Cache, Cgier |
| HTTP messages, Buffer (`http/`, `common/buffer.cpp`) | read buffer | cut, parse and answer requests | the HTTP handler |
| Cgier (`http/cgier.cpp`) | a result file per thread | fork, exec, waitpid | the kernel |
| Thread pool (`common/thread_pool.cpp`) | task queue, mutex, condition variable, stop flag | `addTask`, workers, destructor | runs `EventLoop::loop` |
| Cache (`net/cache.cpp`) | hash map, linked list, occupancy, shared mutex | `tryLoad`, `tryInsert`, `clear` | HTTP handlers of all loops |
| Logger (`common/logger.cpp`) | queue, mutex, condition variable, `done_` | `pushLog`, writer thread, destructor | every part |
| Server (`include/net/server.hpp`) | all of the above | construction, `start` | |
| clang-tidy runner (`build_support/run_clang_tidy.py`, `_extra.py`) | bounded queue, count of unfinished tasks, failed files, temporary directory | put, get, run, `task_done`, `join`, export and apply fixes, Ctrl-C | clang-tidy processes |
| cpplint driver (`build_support/cpplint.py`) | filters, settings, suppressions, counters, all global | options, `CPPLINT.cfg`, NOLINT, report, exit status | the checks |
| cpplint checks (`build_support/cpplint.py`) | cleansed lines, nesting stack, includes, function length | cleanse, update line by line, complete | the driver |
| clang-format runner (`build_support/run_clang_format.py`) | files to do, result flag | walk, format, compare | clang-format |

What is hard here is concurrency: the main thread inserts into the maps of the
loops while they run and delete; the kernel hands raw pointers back; edges are
reported once; condition variables are notified without the mutex; the cache is
changed under a shared lock; forked children share open files. In the tools it is
state that outlives the file it was made for, and passes over a text that must not
take each other's material. `PROJECT.json`
lists these hazards, each at its line with the properties that cover it.

Correctness, part by part: a callback only ever works on a live connection of its own
loop; no descriptor leaks and no input is forgotten; every client is accepted, every
closed one released; no task or request is lost, repeated or reordered, no log message
repeated or reordered, and none lost but those pushed while the logger ends; the cache
is an LRU cache within its capacity; destructors return; a tool looks at every file
once, reports what its configuration asks for and says so in its exit status.

## 2. The modules

| Module | Models | Runs | Proofs |
|---|---|---|---|
| `Reactor` | Acceptor, EventLoop, Poller, Connection, Socket, the handlers' control flow, CGI children; epoll and clients as environment | `safety`, `live`, `dangling` | `ReactorProofs` |
| `Sessions` | the abstract server that `Reactor` implements | (property of `safety`) | `ReactorProofs` |
| `ThreadPool` | the pool | `pool`, `hang` | `ThreadPoolProofs` |
| `Cache` | the cache, at the level of list pointers | `lru`, `shared` | `CacheProofs` |
| `LRU` | the abstract cache that `Cache` implements | (property of `lru`) | `CacheProofs` |
| `HttpServer` | one connection's requests and responses | `http` | `HttpServerProofs` |
| `Logger` | the logger | `flush` | `LoggerProofs` |
| `ClangTidy` | the clang-tidy runner | `tidy` | `ClangTidyProofs` |
| `CppLint` | the cpplint driver | `lint` | `CppLintProofs` |
| `LintText` | comments, raw strings, strings and brackets in cpplint | (used by `LintNesting`) | |
| `LintNesting` | cpplint's stack of blocks | (used by `LintFile`) | |
| `LintFile` | one file in cpplint: nesting, includes, function lengths | `lines` | |

`InductionLemmas` holds what several proof modules need of induction, sums and folds.
`MC*.tla` are the instances for TLC. Definitions named in comments as "Mutant of
X" are deliberately wrong variants of X; they occur in no specification and serve
to show that a property can fail.

### Reactor
`connFd`, `connLoop`, `connections`, `mtx` are the members of the same meaning; `batch`
is `ready_conns`; `cur` and `loopPc` the callback in progress. The kernel is external: a
client's TCP connection is one open file description; `interest` and `ready` are the two
lists of an epoll instance, keyed by file and descriptor and carrying the `Connection`
pointer. The ready list gains an entry on each edge (data, end of stream, or
registration of a readable socket) and loses it when `epoll_wait` returns it. Closing
the last descriptor of a file removes its registrations; a forked child holds a copy of
every descriptor until it exits. A thread's steps are divided where it touches shared
state: system calls and the mutex of a loop. `addConnection` is thus three steps (lock,
`epoll_ctl`, insert) and `deleteConnection` two, in the order of the code. The handler
covers both servers: read until EAGAIN or end of stream, then for each complete request
answer it (perhaps after a CGI run) and go on, or delete the connection. The content of
requests is abstracted to their number. Where `Poller::poll` would write through a
dangling pointer the behaviour ends: `NoDanglingEvent` is the statement that this does
not happen. `recv` errors other than EAGAIN end the connection like the end of the
stream, so `RecvExit` stands for them; EINTR is retried at once. `Send` covers errors.
When `fork` fails (`ForkFails`), the early return of `Cgier::run` leaves the descriptor
of the result file open; it then holds the file `ResultFile`, which is no client's, for
ever. `Steady` is the set of clients that read what they are sent and stop sending some
day; the others may stop reading, or send, for as long as they like. `SIGPIPE`, EINTR in
`epoll_wait` (the process exits) and the listening socket's own set-up are left out.

`Sessions` is what this promises to the clients, without descriptors, epoll, mutexes and
maps: a queue of waiting clients, for each client the threads it has been given to, and
for each thread the client it works for. A client arrives, is assigned to one thread, the
thread begins and pauses work for it, and ends the session while it works for it. In
`Served == INSTANCE Sessions WITH ...` the queue is `backlog`, a client's threads are the
loops of the live `Connection`s that lead to it (`ServersOf`), and a thread's client is
the peer of the callback in progress (`Serves`); `ImplementsSessions` says that every step of
`Reactor` is one of these or leaves all of it as it is. `OnlyOwnHandlerDestroys` says the
same of the `Connection` objects; it is proved and has no run of its own.

### ThreadPool and Logger
Both use a condition variable whose predicate reads an atomic flag that is set
without the mutex. Evaluating the predicate and joining the wait set are two
steps; both happen with the mutex held, so only a notifier without the mutex comes
between. Critical sections of the other side are one step, enabled when the mutex
is free. In the logger, time is the flag `expired`: more than `REFRESH_THRESHOLD`
since `last_flush_`. It becomes true at any moment and false at a flush. When the
logger is destroyed the writer returns without looking at the queue again: messages
pushed while it wrote its last batch, and what threads log once the destructor has
begun, may stay in the queue for ever. The comment at logger.cpp:142 ("need to record the
remaining log in either case") promises more than that. `FirstInFirstOut` speaks of the
order only, and holds with such a remainder; `RemainingLogRecorded` says what is kept of
the promise, with the history variable `owed`: how many messages were in the file, the
writer's batch or a queue that it was still going to look at when the destructor began.

### Cache and LRU
`tryInsert` holds the lock exclusively, so its list surgery is one step per eviction and
one for the insertion. `tryLoad` holds it shared, so each assignment to a pointer that
another thread may see is a step. (Reading both neighbours is one step, and memory is
sequentially consistent; the code has a data race there, and finer behaviour would only
add to what the `shared` run shows.) `size_t` is arithmetic modulo `Word`. `order` is a
history variable: the entries in order of their last use. `LRUCache == INSTANCE LRU WITH
...` maps the state of `Cache` to that of `LRU`, and `ImplementsLRU` says that its steps
are those of `LRU`, whose insertion evicts a minimal prefix at once; `ListInOrderOfUse`
ties it to the actual list. `clear` takes no lock; it is part of the run with one
caller.

### HttpServer
The stream is a sequence of lines, classified by what the parser tells apart. An
empty line ends a request unless it is the first line of one: this is what
searching for CRLF CRLF amounts to. The reference (`Deserved`, `AnsweredEnds`)
is defined on the whole stream, the handler works on its buffer read by read.
A read may end anywhere in the stream, within CRLF too, but the bytes of an unfinished
line cannot complete CRLF CRLF, which the code looks for in all of the buffer; so only
the lines that a read completes matter, and the model cuts between lines.
`get`, `head`, `cgi` and `cgihead` are the two methods for a file and for a CGI program.
For a CGI program the code sends the output whatever the method, although its comment
(http_server.cpp:92) has content for GET only; the reference says what the code sends,
so `AnswersFollowTheStream` shows that the length and the body belong to this very
request, and not that a client that sent HEAD can tell where the next response begins.
Files do not change, so where the body comes from (cache or disk) is not
distinguished.

### ClangTidy
`queue` and `unfinished` are those of Python's `queue.Queue`; `mainPc` and `pc` say
where the main thread and each daemon thread are. A file is its position in the
database. What the patterns match, what `should_skip` skips and the options are chosen
in `Init`; whether clang-tidy starts, fails or prints something that cannot be decoded,
at the step. An exception in a thread ends that thread (`Dies`) with its file in hand.
Ctrl-C may come while the main thread puts or joins; the threads go on while the
temporary directory is removed, so a file may appear between the two halves of `rmtree`.
Waiting in `put` until its timeout and trying again changes nothing and is a stutter. So
is the loop around a file that no pattern matches: with patterns that select some of the
files, as in the script's own first example, it never ends, and `EndsUnlessStuck` names
it as one of two exceptions, the other being a thread that died with its file. Exporting
fixes fails for any file to merge: the import of `yaml` is commented out.

### CppLint
The variables are the members of `_CppLintState` and the module's globals of the same
meaning. What the checks find in a file is an input: for each line the NOLINT comments
that are looked at (at most one), the findings and the width, the findings before and
after the lines, and the lines that the header guard check looks at (the `#ifndef`, then
the `#endif`) with what it finds there. A category is a string, a filter a sign and a
prefix, matched as the code's `startswith` does, so that `-build/include` filters
`build/include_alpha` too. `CheckForHeaderGuard` reads the NOLINT comments of its lines
before the first line is gone through: they are in force from then on, and an unknown
category on such a line is reported twice. Steps are the phases of `ProcessFile`: one
for each directory whose `CPPLINT.cfg` is looked for, one for each line of the guard and
of the file, and the early returns, each with the restoring of filters that the code has
(and the settings that it does not restore: line length, extensions and root of one
file's `CPPLINT.cfg` hold for all later files, against the usage text, so that
`ReportedAsDocumented` is stated for configurations without them). The reference
(`ExpectedFor`) is computed from the command line, the directories and the file alone.

### LintText, LintNesting, LintFile
A line is a sequence of tokens, the units that the regular expressions tell apart (see
the head of `LintText`). Each pass of cpplint is an operator on lines: comments over
several lines, raw strings, line comments, strings. `CloseExpression` and its reverse
keep the code's stack of brackets, in which an angle bracket is provisional.
`LintNesting` has `NestingState`: namespaces, classes and blocks, copies of the stack
at `#if` and `#else`, inline assembly, the checks at a block's end. `LintFile` runs
line by line through a file with these, `_IncludeState` and `_FunctionState`. Headers
carry the attributes that the include checks look at. The references are made on the
whole file: a lexer (`Lexed`) that reads from left to right, brackets that cancel,
the file without its `#else` branches, pairs of lines for includes, sets of lines for
function lengths. The lexer refuses texts that cpplint documents or obviously does not
handle (listed at its definition); there `ElidedIsCode` says nothing.

## 3. The runs

Passing runs:

| Run | Instance | Shows |
|---|---|---|
| `safety` | 2 loops, 3 clients, 2 descriptors, 2 connection addresses, batches of 2, 1 unread chunk and 1 request at a time, failing `epoll_ctl` | `NoDanglingEvent`, `LoopOwnsItsConnections`, `DeleteFindsConnection`, `HandoverSafe`, `NoLeak`, `NoStuckInput`, `ImplementsSessions` |
| `live` | 2 loops, 2 clients, one of them steady, 2 descriptors, 2 connection addresses, 1 request at a time, CGI children, failing `fork`, fairness | `MapRegistered`, `EveryClientAccepted`, `EveryExitReleased`, `LoopReturnsToPoll` |
| `pool` | 3 workers, 4 tasks (2 endless), spurious wakeups, fairness | `NoPopOfEmptyQueue`, `NoTaskLostOrDuplicated`, `DestroyedPoolIsDrained`, `EveryTaskStarts` |
| `lru` | 1 caller, 3 resources, sizes 0 to 4, capacity 3 | `ListInOrderOfUse`, `OccupancyExact`, `ImplementsLRU` |
| `http` | all streams of up to 5 lines, cut after any of them | `AnswersFollowTheStream` |
| `flush` | 2 threads, 4 messages, threshold 1, spurious wakeups, fairness | `FirstInFirstOut`, `RemainingLogRecorded`, `OverfullQueueFlushed` |
| `tidy` | 2 threads, up to 3 files, all sets of matching and skipped files, fairness | `EachFileOnce`, `ExitZeroMeansClean`, `EndsUnlessStuck` |
| `lint` | 2 files in nested directories, 36 sets of configuration files, 23 command lines; 64 pairs of NOLINT comments in a header with 3 kinds of guard | `ReportedAsDocumented`, `ExitCodeTellsErrors`, `QuietIsQuiet` |
| `lines` | some 46,700 files of up to 11 lines | `ElidedIsCode`, `BracketsClose`, `NestingFollowsCode`, `IncludesJudged`, `FunctionLengthExact` |

Each also checks the module's `TypeOK`, except `live`, whose module `safety` covers,
and `lines`.

Runs that show a disagreement between the code and what the repository says:

| Run | Property | What happens |
|---|---|---|
| `dangling` | `NoDanglingEvent` | A CGI child of one loop holds the socket of another client. That client's handler deletes its connection; the registration survives; the next edge makes `Poller::poll` write through the freed pointer. |
| `hang` | `DestructorReturns` | `stop_` and `notify_all` fall between a worker's test and its wait; the worker sleeps on and `join` never returns. |
| `shared` | `EvictFindsNode` | Two loads of the same resource interleave; the list ends up empty while the map is not, and the assertion in `evictOne` fails. |

Bounds. Two descriptors for three clients make `accept` fail and numbers and addresses
be reused at once, the case in which a stale pointer or map entry would be mistaken for
a new one. Two loops are enough for a connection to meet a loop that does not own it.
Batches of 2 with two connections let a callback run while another event of the same
batch waits. `MaxRx` and `MaxReqs` bound unread chunks and buffered requests; one of
each already gives data after EAGAIN and data with the end of the stream. In `live`
there are as many descriptors as clients, but a result file that a failed `fork` left
open takes one of them for ever, so that `accept` fails while clients wait; one loop may
be held by the unsteady client while the other one works. The ready list is a set and
`Poll` takes any `PollSize` of it, where epoll goes through it in order: with `PollSize`
2 no ready connection is passed over in `live`, as in epoll. `dangling` needs a third
descriptor for the result file of the CGI run. Three workers with two endless tasks
leave one for the rest. In `lru`, sizes 0, combinations that fill the capacity, and one
resource of exactly the capacity occur, an insertion may evict two, and one size exceeds
the capacity. Five lines hold a request that is kept alive and a second one. Three files
for two threads and a queue of two make `put` block. In `lint` a file that is excluded,
unreadable or full of findings precedes or follows another one, in either order where
the search is recursive, with filters of both directories contradicting each other; the
guard is absent, good, or bad on both lines that carry comments. In `lines` each group
of files is exhaustive over the tokens or lines of one mechanism: 4 or 5 tokens on a
line are enough for each kind of quote within each kind of comment and for two pairs of
brackets with an operator; 6 lines for a conditional with blocks in and around it; the
function limits are 1 and 2 lines. Symmetry is used for loops, clients, descriptors and
addresses in `safety`, and for resources and nodes in `lru`; never with liveness.

Deadlock is checked in `safety`, `live` and `lru`. Elsewhere the system may really
stop: a pool or logger is destroyed, a connection ends, a tool exits.

Fairness. Threads keep running (weak fairness of the main thread, each loop, each
worker, the writer, and of notifications already decided on); the operating system
guarantees no more. Clients owe nothing, except for the steady one in `live`: when it
has stopped reading it reads again or closes, and it does not send for ever. Any other
open client may hold the thread of its loop for good: `Connection::send` spins on EAGAIN
until it reads, and `recv` goes on until EAGAIN while it sends. `MayHold(l)` says that
loop `l` has such a client, and `EveryExitReleased` and `LoopReturnsToPoll` promise
nothing of that loop at that time; they say that no steady client, and no client of
another loop, has this power. `EveryClientAccepted` depends on descriptors: it assumes
that free ones occur again and again, since otherwise the main loop spins on a failing
`accept`. In `tidy` the main thread and the threads run and clang-tidy comes to an end;
nobody has to press Ctrl-C. Nobody is obliged to submit tasks, to log, to send, or to
destroy anything, and spurious wakeups may happen but are never relied on.

## 4. The proofs

All theorems hold for every value of the constants that satisfies the modules'
assumptions. These are: distinct names, positive bounds, at least two workers; for the
cache a capacity below the word size and as many nodes as paths (the heap does not run
out); for the tools finite sets of threads and files, and inputs of the right type
(`CppLintAssumption`: file names, options and findings are sequences, numbers and
strings where the code takes them to be). `StringAssumption` only says that the
words of the driver are strings, which the prover has no rule for. TLC evaluates all of
them on the runs.

`ReactorProofs` proves an inductive invariant `IInv`. The properties are not inductive
by themselves: that a handler's connection is alive rests on who may destroy it, which
rests on the mutexes, the map, and on which pointers epoll can return. Its parts:
`FdInv` (descriptors and live connections correspond), `FileInv` (a file has one
descriptor), `MapInv` and `OwnerInv` (each live connection is in its loop's map under
its descriptor, or with the main thread), `HandoverSafe`, `MutexInv` (who holds a mutex
is where the code says), `HandlerInv`, `BatchInv` (the connections a loop works on, or
is about to, are its own, registered and distinct), `EpollInv` (ready entries are
registered, registrations belong to open files), `ChildInv`, `NoStuckInput`,
`RegisteredInv`. From it follow `OneLoopPerThread`, `Handover`, `Delete`, `Leakless`,
`EdgeTriggeredReads`, `OwnDeletion` and `TypeCorrect` in all generality (CGI children,
failing `fork` and failing `epoll_ctl` included; `Leakless` has the result file of a
failed `fork` as its exception), `Registered` under the assumption that `epoll_ctl`
succeeds, and `EventsAreCurrent` (no dangling events) under the assumption that nothing
forks. The last is the counterpart of the run `dangling`. The same invariant carries
`SessionRefinement`: `Accept` is `Assign` since the first waiting client has no file
(`FileInv`), `Dispatch` is `Begin` since two callbacks for one client would need two
`Connection`s or one on two loops (`FdInv`, `FileInv`, `BatchInv`), `HandlerDone` is
`Pause`, `Erase` is `Finish` for the callback's own client since the entry it erases is
its own connection (`OwnerInv`, `MutexInv`), `Connect` is `Arrive`, and every other step
changes no session, an insertion because `HandoverSafe` excludes the branch that drops
the new `Connection`.

`ThreadPoolProofs`: `IInv` adds to the properties that a worker inside its critical
section holds the mutex (`MutexInv`), that the wait set is the set of waiting workers
(`WaitInv`), the stage of each `addTask` (`StageInv`), that all places a task may be in
are disjoint (`TaskInv`) and that workers leave only a stopped pool and a running task
keeps its worker from leaving (`DrainInv`). Theorems: `TypeCorrect`,
`QueueNotEmptyAtPop`, `TasksConserved`, and, from `DrainInv`, `Drained`: the
worker that runs a task which submits another is itself still there to take it.

`LoggerProofs`: the writer's own queue is empty except while it writes; with that,
file, batch and queue always concatenate to what has been pushed (`InOrder`). For
`Recorded` it also needs how much of that is owed: as long as the writer has not had its
last look at the queue, the file, its batch and the queue hold at least what is owed;
afterwards the file and the batch do (`OwedInv`), and the batch is empty when it returns;
and it returns only when it has seen `done_` (`ExitInv`).

`CacheProofs`. For any number of threads: `MapNamesItsNodes`, that the map leads from each
path to a node made for that path (the types admit that the list's pointers lead to freed
nodes, and under the race they do), and `OccupancyNeverWraps`:
`occupancy_` is the sum of the sizes of the cached resources and at most the capacity,
so the unsigned arithmetic of `tryInsert` never wraps; the invariant (`HeapInv`) is
that a path maps to a node with that path and that an insertion has the lock. For one
caller (`SoleCaller`; with two the run `shared` refutes it): `ListInv` says at every
label of `tryLoad` and `tryInsert` which nodes are linked to which, in terms of the
history `order`: through each single assignment the list is the history with one gap,
or without the entries evicted so far. From it follow `ListOrder` (between operations
the list, read in either direction, is the order of use), `EvictionFindsNode` (the
assertion in `evictOne` holds) and `Refinement`: every step of `Cache` is a step of
`LRU` or leaves `order` alone; in particular the evictions one by one are the minimal
prefix that `LRU` removes at once.

`HttpServerProofs`: there is a place in the stream, the end of a request, such that
exactly the requests before it are answered, as they deserve, and what is behind it is
the buffer followed by what has not been read (`AnsweredTo`, `StreamFrom`). That this
survives every way of cutting the stream needs that the end of a request depends only
on the lines before it (`EndLocal`), an induction over the stream. Theorems:
`AnswersInOrder`, `TypeCorrect`.

`ClangTidyProofs`: `PlacesInv` ties the counter behind `task_queue.join()` to the
files: each is in the queue, in the hands of one thread or done, and the counter is the
number of the first two. With what each thread has done at its label (`WorkInv`) the
main thread knows the outcome of every file once the counter is zero (`SettledInv`).
Theorems: `FilesConserved`, `CleanExit`, `TypeCorrect`.

`CppLintProofs`: every step appends messages about the current file to the report,
counts as many, and counts them under their categories (`Reporting`, `Appends`); so the
total, the counts by category and the report always agree (`CountInv`), errors counted
since a file was begun are reported for that file (`FileInv`), and the grouping of the
failures by file loses and repeats none (`XmlIsComplete`). Theorems: `ExitStatus`,
`Quiet`, `TypeCorrect`, for any files, options and configuration files. `Documented` is
that the report is the one the reference computes from the command line, the directories
and the files: while a file's configuration is read, what was collected and what the
directories above still hold add up to the reference's filters (`ClimbInv`), so those in
force are the right ones, and those of the file before are gone (`FilterInv`,
`SettingsInv`); the suppressions are those of the file's own comments on the guard lines
read so far and, afterwards, up to the current line too (`NolintInv`, `CheckedInv`); and
the report is what the finished files deserve followed by the part of the current one
that has been gone through (`ReportInv`).

Induction. The library's induction theorems take an operator and cannot be
instantiated by the installed provers. `InductionLemmas` therefore derives, from the
well-foundedness of `<`, induction for a *set* of naturals (`InductiveSet`): the set
`{n \in Nat : P(n)}` takes the place of the operator. Recursion over finite sets, hence
what `SumFunctionOnSet` and `FoldLeft` of the community modules compute, follows from it.

Only model-checked: liveness and everything else under fairness (outside the prover's
reach); the properties of `LintFile`, whose modules
declare recursive operators, with which the prover does not work.

## 5. Not modelled

URL decoding and text formatting, `InetAddr`, exceptions that leave a callback, signals,
`EventLoop::quit` and the destruction of a `Server`, files that change under the server,
the content of the CGI result file, the echo client. Of cpplint, the checks that look at
a line with regular expressions and keep nothing (spacing, casts, names, deprecated
headers and functions), what makes a header guard a good one, the indentation in
namespaces and the wording of messages. The clang-format runner is a plain loop; its one
flag is overwritten by each source directory, so `check-format` tells of the last one
only, and it selects `.h` and `.cpp` where the repository's headers end in `.hpp`.
Third-party files are not part of the system.

## 6. Plan

1. Server life cycle: construction that fails after the loops have started,
   destruction order, `quit`, a loop that ends because a callback throws; composed
   from `ThreadPool` and the loops.
2. Changing files: `Content-Length` from the disk against a body from the cache;
   the result file of a CGI run.
3. The checks of `LintFile` with recursive functions in place of recursive operators,
   as a first step to proofs about them.
