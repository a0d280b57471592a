# A TLA+ model of ccServer

ccServer is a small C++ network library in the manner of muduo: one event loop
per thread, non-blocking TCP connections, timers, and an asynchronous logger.
This directory holds TLA+ models of its components, the TLC configurations that
check them on small instances, and TLAPS proofs for every value of the
constants. `PROJECT.json` ties every definition to the lines it translates, and
names the hazards of the code and the properties that cover them.

Several source files do not compile as they stand (`setRevents` for
`set_revents`, `disableAll` for `diableAll`, `isNodeEvents` for `isNoneEvent`,
the private `Channel::remove`, `wakeup(...)` for `wakeupFd_(...)` in the
constructor of `EventLoop`, missing semicolons). The models follow the
evident intent of those lines and the code as written everywhere else.

To check a module: `tlc -config X.cfg M` with the pairs of section 4; to check
the proofs: `tlapm EventLoopProofs.tla`, and so on for the other `*Proofs`.

## 1. Inventory

| component | state | operations | hard because | correct when |
|---|---|---|---|---|
| EventLoop | looping_, quit_, pendingTasks_ (under mutex_), doingPendingTasks_, activeChannels_, an eventfd | loop, quit, runInLoop, queueInLoop, wakeup, doPendingTasks | other threads push and quit while the loop is anywhere; a lost wakeup is silent | nothing handed to it is left behind a sleeping loop; tasks run once, in order, and do not starve the descriptors |
| Channel, Epoll | events_, polling, revents_, tie_; the epoll set | enable/disable read and write, disableAll, handleEvent, updateChannel | one report carries several events; handlers close and destroy | a channel is in the set exactly while its owner wants events |
| TcpConnection | state_, outputBuffer_, inputBuffer_, a Channel | send, shutdown, forceClose, stopRead, startRead, handleRead/Write/Close/Error, connectEstablished | calls of other threads read state_, exchange it and queue a task in separate steps, while events close the connection | bytes reach the peer in order; FIN after data; closed once and for good; destroyed closed |
| TcpServerSingle, Acceptor | connections_; the listening socket | start, newConnection, closeConnection; listen, handleRead | channels of several connections in one round, callbacks that close other connections | server's set, epoll set and states agree; no event for a dead connection |
| TcpServer | started_, numThreads_, baseServer_, eventLoops_ | setNumThread, start, startInLoop, destruction | start() comes from any thread and carries on on the loop | started once, listens, serves |
| Connector | a socket, its Channel, connected_ | start, handleWrite, destruction | the socket changes hands, and may be reset before handleWrite() asks or after | one owner of the socket, closed once; the program is told what SO_ERROR said, and a later reset is not lost |
| Buffer | buffer_, readerIndex_, writerIndex_ | append, prepend, retrieve, unwrite, readFd, makeSpace | index arithmetic at boundaries | a reader sees the bytes the calls were given; it grows only when it must |
| TimerQueue, Timer | timers_, a timerfd; when_, canceled_ | addTimer, cancelTimer, handleRead | timers are cancelled by callbacks and other threads, addresses are reused | no timer slept through, run twice, leaked or touched when dead |
| EventLoopThread, Thread, CountDownLatch | loop_ (under mutex_), started_, joined_, latch_ | startLoop, threadFunc, start, join, wait, countDown | hand-over of an object on another thread's stack | start and destruction end; the loop handed over lives |
| AsyncLogging | currentBuffer_, nextBuffer_, buffers_ (under mutex_), running_; the backend's spare buffers | append, start, stop, threadFunc | buffers change hands between two threads | every line once, in order, unless dropped on overload |
| CircularBuffer | start_, indexOfHead, indexOfTail, size_ | construction, push_back, clear, copy, move | wrap-around, the empty buffer | it holds the last N elements |
| LogFile, AppendFile | count_, stdio's buffer, the file | append, flush, destruction | write(2) may fail in part | the file holds the lines once and in order; a flushed line is safe |
| LogStream, Logger | a fixed buffer of 4000 characters; AsyncLogger_, once_control_ | operator<<; a log statement, output, once_init | the end of the buffer, the least integer; the first lines of several threads | what fits is there and nothing is behind the buffer; one logger, started before it is used |
| ThreadPool | a bounded queue of tasks | runTask; stop, take and runInThread are not defined | | not modelled (section 7) |

**Interactions.** A server's acceptor hands sockets to `newConnection()`, which
makes a `TcpConnection` on the loop. Epoll reports channels to `loop()`, whose
`handleEvent()` calls the handlers of the connection; these call back the
program and the server. Any thread may call a connection or the loop; what must
run on the loop thread is queued with `queueInLoop()`, which writes the eventfd
that ends `epoll_wait()`. Timers are a channel of the loop. An
`EventLoopThread` makes a loop on a thread of its own. A `TcpServer` runs a
`TcpServerSingle` on its base loop; a `Connector` hands its socket to a
`TcpConnection` of the program's. A log statement makes a `Logger`, streams into
its `LogStream` and hands the line to the one `AsyncLogging`, whose thread writes
whole buffers to a `LogFile`.

**What is hard to test** is listed line by line under "hazards" in
`PROJECT.json`, each with the properties that cover it or why none does.

## 2. Plan

Done:

1. `EventLoop` (with the abstract `TaskExecutor`): everything else rests on it.
2. `AsyncLogging`: the other concurrent core.
3. `Channel` and `TcpConnection` (with what `TcpServerSingle` does for one
   connection).
4. `Buffer` (with the abstract `ByteQueue`).
5. `TimerQueue`; `EventLoopThread` with `Thread` and `CountDownLatch`.
6. `TcpServerSingle` with `Acceptor`: several connections in one round.
7. `CircularBuffer`.
8. `LogFile`, and `AsyncLogFile`: the backend of `AsyncLogging` with the file it
   writes to.
9. `LogStream` and `Logger`: what becomes of a line before it is appended.
10. `TcpServer` over `TcpServerSingle`; `Connector`.
11. `Logging`: the log statements with the `AsyncLogging` and the file they share.
12. Proofs (section 6) of every invariant and every action property that the
    runs check, of the refinement, and of the buffer's agreement with its queue.

Which module uses which: `EventLoop` instantiates `TaskExecutor`, the abstract
specification it implements; `Buffer` runs `ByteQueue` beside itself;
`TcpConnection` and `Connector` EXTEND `Channel`; `AsyncLogFile` composes
`AsyncLogging` and `LogFile`, `Logging` that and `Logger`; `TcpServer` builds on `TcpServerSingle`, `Logger` on
`LogStream`; each `*Proofs` module EXTENDS the modules it
is about: `LoggingProofs` `Logging` with all it is made of, `BufferProofs`
`Buffer` and `CircularBuffer`, `TcpServerProofs` `TcpServer`. (`Logger` and
`CircularBuffer` name their specifications `LoggerSpec` and `RingSpec`, and their
parts likewise, so that they can stand beside the others.) There is no separate MC module: the constants take model values or
small numbers directly in the `.cfg`.

## 3. The modules and the code

Conventions. Names of variables and actions are the source's where TLA+ allows.
A critical section under `mutex_` is one step; everything another thread can
see the middle of is several. `pc` says where the thread that owns the
component is, `thread` where the others are. An `assert()` that fails, or a
touch of a freed object, sets `failed` (or `aborted`, or `pc = "aborted"`) and
ends the behaviour: that the component aborts is thus a state like any other
and the properties can speak about it.

**EventLoop.tla.** One loop thread and `Threads`. `StartLoop`, `ResetQuit`,
`TestQuit`, `PollReturns`, `HandleWakeup`, `HandleIo`, `EndDispatch`,
`SwapPending`, `RunTask` follow `loop()` and `doPendingTasks()` line by line.
A foreign `queueInLoop()` is two steps, push and eventfd (`QueueElsewhere`,
`Wakeup`); on the loop thread it is one. `quit()` likewise. `aborted` is
`assert(!quit_)`. Closures are model values, each submitted at most once.

**TaskExecutor.tla** is what a loop promises: a line of tasks, run from the
front. `EventLoop` implements it with `waiting <- tasks \o pendingTasks_`.

**AsyncLogging.tla.** `AppendLine` is `append()`; `BackendStart`, `TestRunning`,
`BeginWait`, `TakeAtOnce`, `TakeBuffers`, `WaitEnds`, `Trim`, `WriteBuffer`, `EndWriting`, `Recycle` are the parts of
`threadFunc()` between two points another thread can tell apart; `StartLogging`,
`StartReturns`, `Stop`, `Join` the owner. A line is its number in the order of
`mutex_`. The limit of 25 buffers is the constant `MaxBuffers`; `running_` is a
plain `bool` in the source and read without the mutex, which is modelled as an
atomic read.

**LogFile.tla / AsyncLogFile.tla.** `LogFile` has the calls of `LogFile` and
`AppendFile` as operators on the file, what stdio holds, and `count_`; each holds
`mutex_`, so it is part of a step of its caller. When stdio hands what to the
kernel is its own choice within the size of its buffer, and `write(2)` may fail
`MaxErrors` times; after a failure `fwrite()` takes part of the data, and the
loop of `AppendFile::append()` writes the rest or gives it up. `AsyncLogFile`
joins each call to the step of `threadFunc()` that makes it: `AppendToFile`,
`FlushRound`, `CloseFile`.

**LogStream.tla / Logger.tla.** A fixed buffer is the pieces streamed into it,
which of them it took, its length and the end of what was written; the sizes are
those of the code, a text is its length, an integer itself. `convert` is the loop
of the source, with C's division; `ReadAs` is its reference, what a text of digits
comes to. A log statement is the constructor (`MakeLogger`), any `operator<<`
(`Stream`) and the destructor (`EndLine`); `pthread_once()` (`OnceFirst`,
`OncePasses`), `once_init()` (`OnceNew`, `OnceReturns`) and `append()` (`Deliver`)
are steps of their own.

**Logging.tla** joins the two: `CallStart` is `start()` up to `latch_.wait()`, a step
of `AsyncLogging` that its caller does not take with certainty (`pthread_create()`
may fail); `EndStart` is the return of `start()` and of `once_init()`; `AppendTo` the
`append()` of a statement. Nobody calls `stop()` there. A line of `AsyncLogging`,
always of length 1, stands for the text that the statement made.

**Channel.tla** is the interest set and the registration of one descriptor:
`Update` is `Epoll::updateChannel()` with its add, modify and delete.

**TcpConnection.tla.** One connection from `newConnection()` to its destructor,
with the program's calls on the loop thread (`Own...`) and on other threads
(`Begin...`, `DoExchange`, `QueueTask`: reading `state_`, exchanging it and
queueing the task are separate steps). `CloseTest`, `ErrorTest`, `ReadTest`
and `WriteTest` are the four tests of `Channel::handleEventWithGuard()`;
callbacks of the program run between them, so its calls may come at `"error"`
and `"write"`. The bytes of a message are numbered units; the kernel takes any
number of them. `holders`, `inServer` and the closures in `tasks` are the
`shared_ptr`s, and `Destroy` is the destructor once none is left.

**TcpServerSingle.tla.** The acceptor and several connections, each reduced to
its state, its place in the epoll set and its references. Connections live at
addresses that are used again. `PollReturns` takes any set of reported
channels, handled in any order. After a failed `accept4()` the handler goes on,
as the code does, with a connection of descriptor -1 (`HandleAcceptFails`).
`Destroy` is the destruction of the server.

**TcpServer.tla** adds the server around it: `SetNumThread`; `start()` on another
thread in two steps, `BeginStart` (the exchange) and `QueueStart`
(`runInLoop()`), and on the base loop's in one (`StartHere`); `RunStart` is the
closure. `startInLoop()` makes `Thread`s and waits for their loops without
starting them, so with more than one thread the base loop stays in `"waiting"`.

**Connector.tla.** One socket from `socket()` to its last `close()`. `Start` and
`StartAtOnce` are `start()` with `connect()` in progress and with an outcome at
once, `Answer` the network, `HandleWrite` `handleWrite()` up to the test of `errno`,
`Report` the rest up to the callback, `CallbackReturns` its return, `Destroy` the
destructor. The peer may reset the connection between any two of them: `err` is what
`SO_ERROR` held when it was read (and was cleared), `soError` what it holds since. The header declares neither constructor nor `start()`
nor setters of the callbacks, which the model takes as the source file has them;
`started_` is never set, so a build with assertions (`release` FALSE) ends in
`assert(started_)`. The program destroys a Connector neither in its own callback
nor in a round in which it is reported.

**Buffer.tla / ByteQueue.tla.** The functions of the class are operators on the
value `[mem, r, w]`, so `append()` calls `makeSpace()` as in the source; the
operations are actions. `ByteQueue` is the promise: pushes and pops at both ends of
a queue. `Next` joins each operation to that of the queue with the same argument, so
`content` is a history of what the callers gave and took, and what the buffer stores
is compared with it in every state.

**TimerQueue.tla.** `timers_` as a set of (instant, address) entries, the heap
of Timers, the timerfd, and a clock that stops at `MaxTime`, an instant that
stands for itself and all later ones. `HandleRead`, `RunTimer`,
`CallbackReturns`, `EndHandleRead` are `handleRead()`; callbacks may add and
cancel. Closures of other threads are queued in `tasks`. The program cancels a
timer it added at most once, and another thread only repeating timers, since
the pointer to a one-shot timer dangles once it has run; the constant
`CancelsExpired` says whether a callback may cancel a timer that expired with
its own.

**EventLoopThread.tla.** `CreateThread` to `WaitLoop` are `startLoop()` and
`Thread::start()`; `TellTid` to `EndThread` the new thread; `Destroy` to `Join`
the destructor, which reads `loop_` without `mutex_`. The loop is `EventLoop`
reduced to `quit()` and `loop()`. `pthread_create()` may fail; waits may end
for no reason.

**CircularBuffer.tla.** The cells and the two indices, with the `-1` of a
buffer constructed empty, and the history `line` of what it ought to hold.

## 4. The runs

| run | bounds | shows |
|---|---|---|
| EventLoop | 2 threads, 3 tasks, 2 quits | `NoLostWakeup`, `QuitNotSleptOn`: the loop never sleeps on a task or a quit; `BatchNeverGrows`: tasks that requeue themselves wait a round; `RunsTasksInOrder`: it implements `TaskExecutor`; `TaskEventuallyRuns`, `QuitEventuallyStops` |
| AsyncLogFile | 8 lines, 2 per buffer, overload at 3 buffers, a flush every 2 appends, stdio holds 2 lines, 1 failed write | `AssertsHold`, `LogIntact`, `FileIntact`, `KillLosesOneRound`; `StopReturns`, `LineEventuallyInFile` |
| Logging | 2 threads, 2 statements of one piece at most, the sizes of the code for a line, levels of six letters; buffers of 1 line, stdio holds 1, 1 failed write | `LineReadable`; `AppendsToRunning`, with `OneLogger`: one logger, and lines only for a running one; `LineReachesFile`: the first lines of a process reach the file, whichever thread logs first |
| TcpConnectionOwned | 2 messages of 2 units, 1 foreign sender, all closing on the loop thread or by the peer | `AssertionsHold`, `ChannelFollowsState` (registration and interest go with `state_` and the output buffer), `FinAfterData`, `ClosedIsFinal`; `ForceCloseCloses`, `ShutdownFinishes` |
| TcpConnectionAny | the same, another thread calls anything, urgent data | `StreamIntact` |
| TcpConnectionRace | 1 message, foreign shutdown, the peer closes | violation of `DestroyedClosed` |
| TcpServer | 3 addresses, 1 waiting peer, 2 closures, 2 callers of start() | `ServerKnowsOpen`, `ReportedStayOpen`, `StartsOnce`; `StartedListens` |
| Connector | one Connector, no other bound | `SocketHandedOver`, `ToldTheOutcome`; `ConnectReported` |
| Buffer | a vector of 5 to 9 bytes, 2 byte values, chunks up to 3 | `ActsAsByteQueue`, `GrowthBounded` |
| TimerQueue | 3 addresses, 3 instants, 2 closures | `AssertionsHold`, `TimerfdCoversFirst`, `EachTimerOnce`; `TimerEventuallyRuns` |
| EventLoopThread | 2 objects | `AssertionsHold`, `ReturnedLoopLives`, `DestroyedIsQuiet`; `CallsReturn` |
| CircularBuffer | 3 cells, 3 values | `HoldsRecent` |

The type invariants are proved for every value of the constants (section 6) or
are the first conjunct of a property: of `ChannelFollowsState`, `FileIntact`,
`OneLogger`, `ServerKnowsOpen`, `StartsOnce`, `SocketHandedOver`, `EachTimerOnce`
and `HoldsRecent`.

**Why the bounds are enough.** Two foreign threads can interleave with each
other and with the loop at every point, and one of the three tasks is left to
be queued by a task of a running batch. Eight lines fill four buffers: enough
for a round that uses both spare buffers, allocates one more, is cut on overload,
and is followed by a round that uses what was recycled. A stdio buffer as large
as one of the logger's is found empty, in part full and overrun, and a failed
write falls on `fwrite()`, on either flush or on the close of the file. In
`Logging`, behind a header of 34 characters, texts of 3918 and 3919 leave room for the
line number or just not, one of 3949 a single character where the number should go,
those of 3964 and 3965 room for the newline or for nothing; one thread makes the
logger while the other waits, and the second line overruns the buffer of the first.
Two messages of
two units give a partial write, a buffered rest and a message behind it; the high
water mark of three is crossed by the second. Three addresses let a third
connection be accepted at the address of one closed in the same round while
another is still to be handled. The vector of five to nine bytes is moved,
enlarged once and overrun by `readFd()`, and the two byte values tell a byte that
is lost, repeated or out of place from the one that belongs there. Three timers may expire together and
one of them be cancelled and replaced by another thread; with three instants
one is past, one present, one to come. Two objects show that a signal for one
does not disturb the other. Three cells wrap, and overwrite a cell that is
neither head nor tail.

**Deadlock** is not checked where the program may really stop: after a failed
assertion, after `stop()`, with every line logged, with a destroyed connection,
Connector, server, or every object destroyed. `Buffer`, `CircularBuffer`, `TimerQueue`
and `Logging` never stop and are checked for it.

**Fairness.** Every component assumes that the scheduler runs a thread that can
run and that callbacks return (weak fairness of the thread's steps), that
`epoll_wait()` returns when a descriptor it watches is ready, and, where the
code uses timed waits (`AsyncLogFile`, `Logging`) or the timerfd, that time passes, and that
a connection attempt (`Connector`) is answered or times out. The
strong fairness of `RunTask` in `TcpConnection` and `TimerQueue` stands for
`doPendingTasks()` being called in every iteration: other events come in
between, but not for ever, which is `TaskEventuallyRuns` of `EventLoop`. For
`ShutdownFinishes` the peer keeps reading, without which the code promises
nothing. `pthread_create()` is not assumed to succeed: `LineReachesFile` and
`CallsReturn` name what happens when it does not. Nobody is assumed to log, send,
quit, start or destroy anything, and no spurious wakeup is counted on.

## 5. What the violation shows, and what else a user should know

**TcpConnectionRace**: `~TcpConnection()` asserts `kDisconnected`. `shutdown()` on
another thread tests `state_`, the loop thread closes the connection, the exchange
then sets `kDisconnecting` on the closed connection, and its destructor's
assertion fails.

The models reach other states a user of the library should know of. No line of
the repository says otherwise, so they have no run of their own: they are excluded
by the contracts of section 3 or named as exceptions in the properties.

- `stop()` during a round: the backend tests `running_` before taking buffers, so
  what was appended meanwhile is never written (`LogIntact` counts it as still in
  memory). Nothing ever calls `stop()` on the logger of `Logging.cpp`, so the
  lines since its last round are missing at every exit;
- a callback that cancels a timer which expired with its own: `cancelTimer()`
  finds no entry (the batch was moved out), deletes the Timer, and `handleRead()`
  goes on to it; with its address reused, to a timer that has not expired, where
  `assert(timer->expired(now))` fails. With `CancelsExpired` TRUE the run breaks
  `AssertionsHold`;
- a `TcpServer` with more than one thread never serves: the base loop waits in
  `startInLoop()` for a loop whose thread was not started, with the listening
  socket open;
- a `TcpServer` destroyed while another thread is in `start()`, or before its
  closure has run, is touched afterwards (`"dangling"`); `setNumThread()` after
  another thread's `start()` aborts, though the server is not listening yet;
- a connection that is reset after `handleWrite()` read `SO_ERROR` is reported as one
  all the same; its `TcpConnection` hears of the reset (`ToldTheOutcome` says that the
  error is still there, `SocketHandedOver` that the socket is in the epoll set);
- a `Connector` whose `connect()` returns at once reports a connection whatever
  the outcome, and `removeChannel()` then adds the channel it should remove; and in
  a build with assertions no Connector gets past `assert(started_)`;
- near the end of its 4000 characters a log line loses pieces from its middle
  while later, shorter ones still fit, and when it is full its newline, so that
  the next line is joined to it;
- `setLogFileName()` after the first line of the process changes nothing;
  `LOG_FATAL` does not end the process;
- after a failed `write(2)` lines may be dropped, which is told on stderr only;
- when `pthread_create()` fails for the logger, every thread that logs waits in
  `pthread_once()` for ever;
- a second `quit()` aborts (`assert(!quit_)`), be it of `~EventLoopThread()`
  after a task of the loop has quit;
- a task queued by the owner before `loop()` waits for the first event;
- a `quit()` before `loop()` resets `quit_` is forgotten, and
  `~EventLoopThread()` then waits for ever in `join()`;
- after a failed `pthread_create()`, and when a loop quits itself before it was
  seen, `startLoop()` waits for ever;
- `quit()` goes on reading the loop after storing `quit_`, and the loop's thread
  may have destroyed it (`useAfterFree` in `EventLoopThread`);
- with urgent data and `stopRead()`, a hang-up is reported with `EPOLLPRI` and
  without `EPOLLIN`: the first test of `handleEventWithGuard()` closes the connection,
  the third calls `handleRead()` all the same, whose assertion fails (hence the last
  part of `OwnedUse`, section 6);
- `startRead()` and `stopRead()` carried out after the close put the socket
  back into the epoll set, or touch a destroyed connection;
- a message taken by `sendInLoop()` after the half-close is dropped;
- a failed `accept4()` leaves a connection without a socket in `connections_`;
- the destruction of a listening server, or of one with open connections, fails
  the assertions of `Channel::remove()` and `~TcpConnection()`;
- after `clear()`, `push_back()` of a `CircularBuffer` starts at cell 1 and
  `front()` reads the destroyed cell 0; a copy of a partly filled one has size N;
  and `end()` is the last element, so that a loop from `begin()` to `end()` leaves
  it out.

## 6. What is proved

The proofs hold for every value of the constants under the named assumptions of
the modules (sizes are natural numbers, a buffer holds at least one line,
`MaxBuffers` is at least 2, a sentinel is none of the values it stands beside).

**EventLoopProofs.** `TypeCorrect`; `NoLostWakeupHolds` and
`QuitNotSleptOnHolds` from `WakeupInv`, which extends the property from
`"poll"` to every point but those between the report of `epoll_wait()` and the
swap: there a task may be pending with the eventfd already read, since the swap
will take it, and only the loop's way back to `"poll"` through the swap makes
the property hold; `ImplementsExecutor`, the refinement, by
mapping each step to a submission, an execution or a stutter; `BatchesNeverGrow`,
an action property, for only the swap, which the program point keeps apart from
every task, lengthens the batch.

**LoggingProofs.** Of `AsyncLogging`: `TypeCorrect` and `AssertsNeverFail` from `SparesInv`:
between taking a round and recycling it, the round holds as many buffers as
there are empty spare pointers, since `newBuffer2` is given away only when
`nextBuffer_` was used, which happens only with a full buffer. `LogAlwaysIntact`
rests on two more invariants. `OrderInv`: the file, the rest of the round, `buffers_`
and `currentBuffer_`, one after the other, are one increasing chain, so that each
hand-over (a push, a swap, a write) moves the boundary between two neighbours and
reorders nothing. `AccountInv`: the lines taken are those of the chain and the dropped
ones, and these two have none in common. `LogFileImplements` shows that the logger
with its file is the logger without; `FileAlwaysIntact` and `OneRoundAtRisk` then
need only `FileInv`: what is dropped by a failed write was written by the thread,
and what file and stdio hold is the rest of it, in order.

Of the log statements: `OneLoggerMade` from `OnceInv`, which says that the flag of
`pthread_once()`, the pointer and what was made go together and that one thread at
most is in `once_init()`. `LinesReadable` from `LinesInv`: `BufferOK` says of a
buffer that there is always room for one more character and that whatever it did not
take would not fit now. `PutKeeps`, by a case for each kind of piece, shows that
every `operator<<` keeps it, for the room only shrinks; `EndOfLine` that after the
newline it holds the line's end or has the one character left. That an integer
reads back is `IntegersReadBack`, for every integer, and `SixtyFourBitsFit` shows
that the one assumption on the integers logged, that their digits and the NUL fit
into `kMaxNumericSize`, holds for every type that the code converts. Both need
induction on the digits. The library states induction and recursion with operators as
parameters; here they are first-order lemmas, `Induction` on the set of the numbers
that have a property, from the well-foundedness of `<`, and `Recursion`, that a
function exists whose value at an element is given by its value at a smaller one. From
these `LastFirstUnfolds` and `BelowUnfolds` show that the two recursive functions are
what their definitions describe, and `DigitsComeTo` that the one undoes the other.

Of the two together, `LoggingImplements`: each step of `Logging` is a step or a
stutter of `Logger` and of `AsyncLogFile`, so that what is proved of them holds of the
composition (`LoggingKeepsAll`). `AppendedWhileRunning` is about both: `LoggingInv` ties
`AsyncLogger_`, set by the thread in `once_init()`, to the owner of `AsyncLogging`, and
`OnceInv` and `SparesInv` say what each means for the other threads and for the one that
writes; that the latter does not leave its loop needs that nobody resets `running_`.

**BufferProofs.** Of `Buffer`: `TypeCorrect`, `BufferImplementsQueue` and `GrowthIsBounded`.
`TypeOK` is inductive, and with it `ActsAsByteQueue`. Lemmas say what `Copy`, `Resize`,
`makeSpace` and `append` do to the readable bytes, and one lemma for each operation
says what they are after it in terms of its argument, which is what the operation of
`ByteQueue` makes of the queue. Of `CircularBuffer`: `AlwaysHoldsRecent`, for any size.
`RingInv` adds to the property that the cell after the tail is the one `size_` cells
after the head: without it nothing says that `push_back()` writes to the free cell,
or to the oldest one when there is none.

**EventLoopThreadProofs.** `TypeCorrect`, `AssertionsNeverFail`,
`ReturnedLoopsLive` and `DestroyedAreQuiet`. `Handshake` ties the place of each
thread to what the owner has seen of it (`tid_`, `count_`, `loop_`, `stage`);
`OnlyOwnerQuits` adds that a thread is past its loop only when the destructor
has stored `quit_` or the loop quit itself. Neither property follows without
them: that a returned loop lives depends on nobody else having stored `quit_`.

**TcpConnectionProofs.** Without any hypothesis on who calls what: `TypeCorrect`,
whose invariant adds that `connectEstablished()` is behind whatever was called, and
`StreamAlwaysIntact`, by a case of `sendInLoop()` (all written, part of it, none) and
of `handleWrite()` each. The others have each the hypothesis it needs, which the
constants of TcpConnectionOwned satisfy; where an operation a hypothesis excludes is
allowed, TLC finds the property violated.

- `ClosedForGood`: no other thread calls `shutdown()` or `forceClose()`
  (`ClosersOwn`). All else that changes `state_` looks at it in the same step; only
  their exchange does not, and no thread is at one (`NoExchange`).
- `FinBehindData`: no other thread calls `shutdown()` (`ShutdownOwn`). The half-close
  is then that of a call on a connected connection, where output always awaits a
  write event (`OutputAwaited`), or follows the end of the output in `handleWrite()`.
- `ChannelAlwaysFollows`: `ClosersOwn`, and nobody calls `startRead()`
  (`NobodyRestarts`). `ChannelInv` says that interest, registration, `connections_`
  and `state_` change together, whichever handler fails an assertion.
- `OwnedAssertionsHold`: moreover other threads only send, and urgent data and
  `stopRead()` do not come together (`OwnedUse`). `OwnedInv` adds to `ChannelInv`:
  `HandledWhileOpen` for the tests of `handleEventWithGuard()` still to come (an
  event is handled on an open connection unless handling it closed it, though
  callbacks run in between), `OnlySends` for what other threads have on the way,
  and that a destroyed connection was closed.

**TimerQueueProofs.** `TypeCorrect` and `TimerfdAlwaysCovers` hold whatever
callbacks cancel: `addTimer()` rearms when the new entry comes first, `handleRead()`
on its way out, and a cancellation only moves the first entry back; that there is a
first entry at all is the well-foundedness of `<`. `AssertionsNeverFail` and
`TimersInOnePlace` need `LeaveExpired`, that no callback cancels a timer that
expired with its own; without it both are false (section 5). They come from
`TimersInv`: an entry carries its Timer's own instant, so a Timer has one entry
(`EntriesInv`); a Timer whose addition is still queued is nowhere else, and a
cancellation waits behind it (`TasksInv`); and every Timer is in an entry, running
or in a closure (`HeldInv`).

**TcpServerProofs.** `ServerKnowsOpen` and `ReportedStayOpen` are inductive
only together: that a handler removes the right connection needs that it was
reported open, and that the reports left in the round stay good needs that the server's
set, the epoll set and the states agree. `ServerAlwaysKnowsOpen` and
`ReportedAlwaysOpen` are about `TcpServerSingle`; `ServerImplementsSingle` carries
them over to the server a `TcpServer` makes (`MadeServerKnowsOpen`).
`StartedOnce` comes from `StartInv`: of all threads in `start()` one has passed
the exchange, and either it or its queued closure is there, not both.

**ConnectorProofs.** `SocketAlwaysHandedOver` and `OutcomeAlwaysTold` from
`ConnectorInv`. Neither property is inductive: that an open connection can be put
into the epoll set needs that `channel_` was there, and was taken out earlier in the
same call of `handleWrite()`; that the outcome told is the socket's needs that `SO_ERROR` has been
read by nobody else, and that a connection which is reset before `handleWrite()` asks
leaves its error there (`BeforeOutcome`); and that the question and the report are two
moments needs `AfterQuestion`: an error, once read, is the socket's for good, while a
socket without one may be reset in between, with its error in `SO_ERROR` again. The module has no constants, so TLC sees
all its states; the proof says why they are as they are.

**Only model-checked** are the liveness properties (`TaskEventuallyRuns`,
`QuitEventuallyStops`, `StopReturns`, `LineEventuallyInFile`, `LineReachesFile`,
`ForceCloseCloses`, `ShutdownFinishes`, `StartedListens`, `ConnectReported`,
`TimerEventuallyRuns`, `CallsReturn`): they need fairness, and with it ENABLED, which
are out of the prover's reach.

## 7. What is not modelled

- `ThreadPool`: `stop()`, `take()` and `runInThread()` are declared and never
  defined, and the constructor makes threads it does not start. There is no pool
  whose behaviour the code defines; `runTask()` alone waits for ever once the
  queue is full.
- `TcpServer::runInThread()` and with it the loops of further threads, their
  listening sockets and the loop of `~TcpServer()` over `eventLoops_`: as written
  no thread ever runs it (section 5).
- The opening of the log file and the assertion on the length of its `basename_` in
  the constructor of `AsyncLogging`; `localtime()` in `formatTime()`, which all threads
  call on one static result.
- Formatting of addresses, of floating point and of time stamps, `any`, `Atomic`: values
  without a state of their own.
- The contents of messages and lines, apart from their order and number.
- Failures of system calls that the code only logs and that change nothing.
- Weak memory: plain booleans read without a mutex are atomic in the models.
