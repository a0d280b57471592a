--------------------------- MODULE TcpConnection ----------------------------
(***************************************************************************)
(* src/TcpConnection.cpp with the parts of Channel, Epoll, EventLoop and   *)
(* TcpServerSingle it lives in: one connection, from newConnection() to    *)
(* its destruction.  The loop thread handles the events of its socket and  *)
(* runs the tasks queued for it; OwnThread stands for the program's own    *)
(* code on that thread, Threads for its other threads.  A call from        *)
(* another thread reads state_, changes it, and queues a task in separate  *)
(* steps.                                                                  *)
(*                                                                         *)
(* The bytes of a message are MsgLen numbered units.  The kernel takes as  *)
(* many units of a write() as it likes.  An assertion that fails ends the  *)
(* process: failed names it, and no step follows.                          *)
(***************************************************************************)
EXTENDS Channel, Sequences

CONSTANTS Threads,     \* threads other than the loop's
          OwnThread,   \* the loop thread, when it runs code of the program
          Messages,    \* each sent at most once
          MsgLen,      \* units in a message
          highWaterMark_,
          OwnOps,      \* what the program calls on the loop thread ...
          ForeignOps,  \* ... and on the other threads
          PeerOps,     \* what the peer may do: "fin", "rst", "urgent"
          MaxTasks     \* bound: the program makes no call while so many tasks wait

Ops == {"send", "shutdown", "forceClose", "stopRead", "startRead"}

ASSUME TcpConnectionAssumption ==
  /\ OwnThread \notin Threads
  /\ MsgLen \in Nat \ {0}
  /\ highWaterMark_ \in Nat
  /\ OwnOps \subseteq Ops
  /\ ForeignOps \subseteq Ops
  /\ PeerOps \subseteq {"fin", "rst", "urgent"}
  /\ MaxTasks \in Nat

VARIABLES
  state_,
  outputBuffer_,
  tasks,        \* pendingTasks_ of the loop, and the batch being run
  pc,           \* the loop thread
  revents_,     \* what epoll_wait() reported of the socket
  wire,         \* units the kernel has taken, in order
  shutWr,       \* ::shutdown(SHUT_WR) was called
  peer,         \* "open", "fin" or "rst": what came from the peer last
  inServer,     \* the server's connections_ holds the connection
  holders,      \* who else of the program holds a TcpConnectionPtr
  alive,        \* ~TcpConnection() has not run
  thread,       \* what each other thread is in the middle of
  sent,         \* messages handed to send()
  stream,       \* history: units sendInLoop() accepted, in order
  failed        \* the assertion that failed, or "none"

\* What the handlers of the connection change; the rest is their caller's.
connection == <<state_, channelVars, outputBuffer_, tasks, wire, shutWr, inServer, stream, failed>>
loopAt     == <<pc, revents_>>
program    == <<holders, alive, thread, sent>>
vars       == <<connection, loopAt, peer, program>>

Users == Threads \cup {OwnThread}

(***************************************************************************)
(* Tasks.  The first five hold a TcpConnectionPtr; those of stopRead() and *)
(* startRead() capture a plain `this`.                                     *)
(***************************************************************************)
SendTask(m)    == <<"sendInLoop", m>>
ShutdownTask   == <<"shutdownInLoop">>
CloseTask      == <<"forceCloseInLoop">>
WriteComplete  == <<"writeCompleteCallback_">>
HighWater      == <<"highWaterMarkCallback_">>
StopReadTask   == <<"stopRead">>
StartReadTask  == <<"startRead">>

OwningTasks == {SendTask(m) : m \in Messages}
                 \cup {ShutdownTask, CloseTask, WriteComplete, HighWater}
AllTasks    == OwningTasks \cup {StopReadTask, StartReadTask}

\* What a thread does next: nothing, an exchange of state_, or a queueInLoop().
Outside      == <<"outside">>
Exchange(op) == <<"exchange", op>>
Queue(t)     == <<"queue", t>>

(***************************************************************************)
(* The loop thread: "idle" between two tasks or polls; "dispatch" after    *)
(* epoll_wait() has reported the socket, other channels being handled      *)
(* before it; then handleEventWithGuard() before its four tests.           *)
(***************************************************************************)
LoopPoints == {"idle", "dispatch", "close", "error", "read", "write"}

States == {"kConnecting", "kConnected", "kDisconnecting", "kDisconnected"}

Units == Messages \X (1 .. MsgLen)

\* The units of a message, in order.
UnitsOf(m) == [k \in 1 .. MsgLen |-> <<m, k>>]

Revents == SUBSET {"IN", "PRI", "OUT", "HUP", "ERR"}

(***************************************************************************)
(* Types; events are pending only while the socket is being handled; and   *)
(* once SHUT_WR was called send() refuses.                                 *)
(***************************************************************************)
TypeOK ==
  /\ ChannelTypeOK
  /\ state_ \in States
  /\ outputBuffer_ \in Seq(Units)
  /\ tasks \in Seq(AllTasks)
  /\ pc \in LoopPoints
  /\ revents_ \in Revents
  /\ wire \in Seq(Units)
  /\ shutWr \in BOOLEAN
  /\ peer \in {"open", "fin", "rst"}
  /\ inServer \in BOOLEAN
  /\ holders \in SUBSET Users
  /\ alive \in BOOLEAN
  /\ thread \in [Threads -> {Outside} \cup {Exchange(op) : op \in Ops}
                               \cup {Queue(t) : t \in AllTasks}]
  /\ sent \in SUBSET Messages
  /\ stream \in Seq(Units)
  /\ failed \in {"none", "updateChannel", "sendInLoop", "handleRead", "handleWrite",
                 "handleClose", "closeConnection", "destructor", "shutdown", "useAfterFree"}
  /\ revents_ = {} <=> pc = "idle"
  /\ shutWr => state_ \in {"kDisconnecting", "kDisconnected"}

\* newConnection() has made the connection and put it into connections_.
Init ==
  /\ ChannelInit
  /\ state_ = "kConnecting"
  /\ outputBuffer_ = <<>>
  /\ tasks = <<>>
  /\ pc = "idle"
  /\ revents_ = {}
  /\ wire = <<>>
  /\ shutWr = FALSE
  /\ peer = "open"
  /\ inServer = TRUE
  /\ holders = {}
  /\ alive = TRUE
  /\ thread = [th \in Threads |-> Outside]
  /\ sent = {}
  /\ stream = <<>>
  /\ failed = "none"

\* connectEstablished(), then connectionCallback_: the program keeps pointers.
ConnectEstablished ==
  /\ state_ = "kConnecting"
  /\ state_' = "kConnected"
  /\ EnableRead
  /\ holders' = Users
  /\ UNCHANGED <<outputBuffer_, tasks, wire, shutWr, inServer, stream, failed,
                 loopAt, peer, alive, thread, sent>>

-----------------------------------------------------------------------------
(* The handlers, all on the loop thread.  Each says what becomes of        *)
(* `connection'; queue is what is left of tasks when the handler starts.   *)

\* Nothing changes but the queue.
Nothing(queue) ==
  /\ tasks' = queue
  /\ UNCHANGED <<state_, channelVars, outputBuffer_, wire, shutWr, inServer, stream, failed>>

\* assert() fails.
Abort(where) ==
  /\ failed' = where
  /\ UNCHANGED <<state_, channelVars, outputBuffer_, tasks, wire, shutWr, inServer, stream>>

\* write() fails with EPIPE or ECONNRESET.
Broken == shutWr \/ peer = "rst"

\* sendInLoop() crosses the high water mark.
Crosses(remain) == /\ Len(outputBuffer_) < highWaterMark_
                   /\ Len(outputBuffer_) + Len(remain) >= highWaterMark_

\* Mutant of Direct: older units may still be buffered.
DirectAlways == TRUE

\* sendInLoop() writes itself when no write event is awaited.
Direct == ~isWriting

\* What was buffered waits for a write event.
AwaitWritable(remain) == IF remain # <<>> THEN EnableWrite ELSE UNCHANGED channelVars

(***************************************************************************)
(* sendInLoop(): write directly when nothing is buffered, buffer what the  *)
(* kernel did not take; after EPIPE or ECONNRESET the message is dropped.  *)
(***************************************************************************)
SendInLoop(m, queue) ==
  IF state_ = "kDisconnected" THEN Nothing(queue)
  ELSE IF ~isWriting /\ outputBuffer_ # <<>> THEN Abort("sendInLoop")
  ELSE \E n \in IF Direct /\ ~Broken THEN 0 .. MsgLen ELSE {0} :
         LET fault  == Direct /\ Broken
             remain == IF fault THEN <<>> ELSE SubSeq(UnitsOf(m), n + 1, MsgLen)
         IN /\ wire' = wire \o SubSeq(UnitsOf(m), 1, n)
            /\ outputBuffer_' = outputBuffer_ \o remain
            /\ stream' = stream \o UnitsOf(m)
            /\ tasks' = queue \o (IF n = MsgLen THEN <<WriteComplete>> ELSE <<>>)
                              \o (IF remain # <<>> /\ Crosses(remain) THEN <<HighWater>> ELSE <<>>)
            /\ AwaitWritable(remain)
            /\ UNCHANGED <<state_, shutWr, inServer, failed>>

\* Mutant of ShutdownInLoop: it does not wait for the output buffer.
ShutdownInLoopAtOnce(state) == shutWr' = (shutWr \/ state # "kDisconnected")

\* shutdownInLoop(): SHUT_WR, unless there is output to write.
ShutdownInLoop(state) ==
  shutWr' = (shutWr \/ (state # "kDisconnected" /\ ~isWriting))

\* Mutant of RemoveChannel: the call is missing.
RemoveChannelNot == UNCHANGED channelVars

\* EventLoop::removeChannel().
RemoveChannel == DisableAll

(***************************************************************************)
(* handleClose(): out of the epoll set, then closeConnection() of the      *)
(* server erases the connection and runs connectionCallback_.              *)
(***************************************************************************)
HandleClose(queue) ==
  IF state_ \notin {"kConnected", "kDisconnecting"} THEN Abort("handleClose")
  ELSE IF UpdateAborts({}) THEN Abort("updateChannel")
  ELSE IF ~inServer THEN Abort("closeConnection")
  ELSE /\ state_' = "kDisconnected"
       /\ RemoveChannel
       /\ inServer' = FALSE
       /\ tasks' = queue
       /\ UNCHANGED <<outputBuffer_, wire, shutWr, stream, failed>>

\* Mutant of ForceCloseInLoop: the test leaves out kDisconnecting.
ForceCloseInLoopConnected(queue) ==
  IF state_ = "kConnected" THEN HandleClose(queue) ELSE Nothing(queue)

\* forceCloseInLoop().
ForceCloseInLoop(queue) ==
  IF state_ # "kDisconnected" THEN HandleClose(queue) ELSE Nothing(queue)

\* The closures of stopRead() and startRead().
StopReadInLoop(queue) ==
  /\ IF isReading THEN DisableRead ELSE UNCHANGED channelVars
  /\ tasks' = queue
  /\ UNCHANGED <<state_, outputBuffer_, wire, shutWr, inServer, stream, failed>>

StartReadInLoop(queue) ==
  /\ IF ~isReading THEN EnableRead ELSE UNCHANGED channelVars
  /\ tasks' = queue
  /\ UNCHANGED <<state_, outputBuffer_, wire, shutWr, inServer, stream, failed>>

\* What read() may find: data, the end of the stream, or an error.
ReadResults == CASE peer = "open" -> {"data", "error"}
                 [] peer = "fin"  -> {"data", "eof"}
                 [] peer = "rst"  -> {"data", "eof", "error"}

\* handleRead(): handleError() only logs; messageCallback_ is the program's.
HandleRead(result) ==
  IF state_ = "kDisconnected" THEN Abort("handleRead")
  ELSE IF result = "eof" THEN HandleClose(tasks)
  ELSE UNCHANGED connection

\* Mutant of AllWritten: write interest outlives the output.
AllWrittenKeepsWriting ==
  shutWr' = (shutWr \/ state_ = "kDisconnecting") /\ UNCHANGED channelVars

\* Mutant of AllWritten: a shutdown() that had to wait is forgotten.
AllWrittenNoShutdown == DisableWrite /\ UNCHANGED shutWr

\* Write interest ends, and a shutdown() that had to wait is carried out
\* (shutdownInLoop() finds isWriting() false).
AllWritten == DisableWrite /\ shutWr' = (shutWr \/ state_ = "kDisconnecting")

\* handleWrite().
HandleWrite(n) ==
  IF state_ = "kDisconnected" THEN UNCHANGED connection
  ELSE IF outputBuffer_ = <<>> \/ ~isWriting THEN Abort("handleWrite")
  ELSE /\ wire' = wire \o SubSeq(outputBuffer_, 1, n)
       /\ outputBuffer_' = SubSeq(outputBuffer_, n + 1, Len(outputBuffer_))
       /\ IF n = Len(outputBuffer_)
          THEN AllWritten /\ tasks' = Append(tasks, WriteComplete)
          ELSE UNCHANGED <<channelVars, shutWr, tasks>>
       /\ UNCHANGED <<state_, inServer, stream, failed>>

-----------------------------------------------------------------------------
(* The loop thread.                                                        *)

\* The kernel sees both directions closed.
HungUp == peer = "rst" \/ (peer = "fin" /\ shutWr)

(***************************************************************************)
(* What epoll_wait() may report: of the events asked for, IN and OUT at    *)
(* any time and PRI if the peer sends urgent data; HUP and ERR unasked.    *)
(* A socket that hung up is readable too.                                  *)
(***************************************************************************)
Reportable(r) ==
  /\ r # {}
  /\ r \cap {"IN", "PRI", "OUT"} \subseteq events_
  /\ "PRI" \in r => "urgent" \in PeerOps
  /\ "HUP" \in r <=> HungUp
  /\ "ERR" \in r => peer = "rst"
  /\ HungUp /\ isReading => "IN" \in r

PollReturns(r) ==
  /\ pc = "idle"
  /\ polling
  /\ Reportable(r)
  /\ revents_' = r
  /\ pc' = "dispatch"
  /\ UNCHANGED <<connection, peer, program>>

\* Channel::handleEvent(): tie_ keeps the connection until it returns, but
\* the channel itself is a member of the connection.
HandleEvent ==
  /\ pc = "dispatch"
  /\ pc' = "close"
  /\ IF alive THEN UNCHANGED connection ELSE Abort("useAfterFree")
  /\ UNCHANGED <<revents_, peer, program>>

CloseTest ==
  /\ pc = "close"
  /\ pc' = "error"
  /\ IF "HUP" \in revents_ /\ "IN" \notin revents_ THEN HandleClose(tasks)
                                                  ELSE UNCHANGED connection
  /\ UNCHANGED <<revents_, peer, program>>

\* handleError() clears the error of the socket and logs it.
ErrorTest ==
  /\ pc = "error"
  /\ pc' = "read"
  /\ UNCHANGED <<connection, revents_, peer, program>>

ReadTest(result) ==
  /\ pc = "read"
  /\ pc' = "write"
  /\ IF revents_ \cap {"IN", "PRI"} # {} THEN HandleRead(result) ELSE UNCHANGED connection
  /\ UNCHANGED <<revents_, peer, program>>

WriteTest(n) ==
  /\ pc = "write"
  /\ pc' = "idle"
  /\ revents_' = {}
  /\ IF "OUT" \in revents_ THEN HandleWrite(n) ELSE UNCHANGED connection
  /\ UNCHANGED <<peer, program>>

\* doPendingTasks() runs the next task.
RunTask ==
  /\ pc = "idle"
  /\ tasks # <<>>
  /\ LET t == Head(tasks) queue == Tail(tasks) IN
       IF t \notin OwningTasks /\ ~alive THEN Abort("useAfterFree")
       ELSE \/ \E m \in Messages : t = SendTask(m) /\ SendInLoop(m, queue)
            \/ /\ t = ShutdownTask
               /\ ShutdownInLoop(state_)
               /\ tasks' = queue
               /\ UNCHANGED <<state_, channelVars, outputBuffer_, wire, inServer, stream, failed>>
            \/ t = CloseTask /\ ForceCloseInLoop(queue)
            \/ t = StopReadTask /\ StopReadInLoop(queue)
            \/ t = StartReadTask /\ StartReadInLoop(queue)
            \/ t \in {WriteComplete, HighWater} /\ Nothing(queue)
  /\ UNCHANGED <<loopAt, peer, program>>

-----------------------------------------------------------------------------
(* Calls of the program on the loop thread: in a task, in the handler of   *)
(* another channel, in closeCallback_ (at "error" or "write") and in       *)
(* messageCallback_ (at "write").                                          *)

OwnCall(op) ==
  /\ op \in OwnOps
  /\ pc \in {"idle", "dispatch", "error", "write"}
  /\ OwnThread \in holders
  /\ Len(tasks) < MaxTasks

OwnSend(m) ==
  /\ OwnCall("send")
  /\ m \notin sent
  /\ sent' = sent \cup {m}
  /\ IF state_ = "kConnected" THEN SendInLoop(m, tasks) ELSE UNCHANGED connection
  /\ UNCHANGED <<loopAt, peer, holders, alive, thread>>

\* shutdown() asserts that the connection is not closed, which a caller on this
\* thread can make sure of.
OwnShutdown ==
  /\ OwnCall("shutdown")
  /\ state_ # "kDisconnected"
  /\ state_' = "kDisconnecting"
  /\ IF state_ = "kConnected" THEN ShutdownInLoop("kDisconnecting") ELSE UNCHANGED shutWr
  /\ UNCHANGED <<channelVars, outputBuffer_, tasks, wire, inServer, stream, failed,
                 loopAt, peer, program>>

\* Mutant of MayForceClose: the test is missing.
MayForceCloseAlways == TRUE

\* forceClose() tests state_ before the exchange.
MayForceClose == state_ # "kDisconnected"

OwnForceClose ==
  /\ OwnCall("forceClose")
  /\ MayForceClose
  /\ state_' = "kDisconnecting"
  /\ tasks' = Append(tasks, CloseTask)
  /\ UNCHANGED <<channelVars, outputBuffer_, wire, shutWr, inServer, stream, failed,
                 loopAt, peer, program>>

OwnStopRead ==
  /\ OwnCall("stopRead")
  /\ StopReadInLoop(tasks)
  /\ UNCHANGED <<loopAt, peer, program>>

OwnStartRead ==
  /\ OwnCall("startRead")
  /\ StartReadInLoop(tasks)
  /\ UNCHANGED <<loopAt, peer, program>>

-----------------------------------------------------------------------------
(* Calls on other threads.                                                 *)

ForeignCall(th, op) ==
  /\ op \in ForeignOps
  /\ th \in holders
  /\ thread[th] = Outside
  /\ Len(tasks) < MaxTasks

Continue(th, step) ==
  /\ thread' = [thread EXCEPT ![th] = step]
  /\ UNCHANGED <<connection, loopAt, peer, holders, alive>>

\* send(): state_ is read here, the task is queued later.
BeginSend(th, m) ==
  /\ ForeignCall(th, "send")
  /\ m \notin sent
  /\ sent' = sent \cup {m}
  /\ Continue(th, IF state_ = "kConnected" THEN Queue(SendTask(m)) ELSE Outside)

\* shutdown() asserts that the connection is not closed.
BeginShutdown(th) ==
  /\ ForeignCall(th, "shutdown")
  /\ IF state_ = "kDisconnected"
     THEN Abort("shutdown") /\ UNCHANGED thread
     ELSE UNCHANGED connection /\ thread' = [thread EXCEPT ![th] = Exchange("shutdown")]
  /\ UNCHANGED <<loopAt, peer, holders, alive, sent>>

\* forceClose() tests that.
BeginForceClose(th) ==
  /\ ForeignCall(th, "forceClose")
  /\ MayForceClose
  /\ Continue(th, Exchange("forceClose"))
  /\ UNCHANGED sent

\* stateAtomicGetAndSet(kDisconnecting).
DoExchange(th) ==
  /\ thread[th] \in {Exchange("shutdown"), Exchange("forceClose")}
  /\ state_' = "kDisconnecting"
  /\ thread' = [thread EXCEPT ![th] =
        CASE thread[th] = Exchange("shutdown") /\ state_ = "kConnected" -> Queue(ShutdownTask)
          [] thread[th] = Exchange("forceClose") /\ state_ # "kDisconnected" -> Queue(CloseTask)
          [] OTHER -> Outside]
  /\ UNCHANGED <<channelVars, outputBuffer_, tasks, wire, shutWr, inServer, stream, failed,
                 loopAt, peer, holders, alive, sent>>

\* stopRead() and startRead() only queue.
BeginReading(th, op) ==
  /\ ForeignCall(th, op)
  /\ Continue(th, Queue(IF op = "stopRead" THEN StopReadTask ELSE StartReadTask))
  /\ UNCHANGED sent

\* queueInLoop().
QueueTask(th) ==
  /\ \E t \in AllTasks :
       /\ thread[th] = Queue(t)
       /\ tasks' = Append(tasks, t)
  /\ thread' = [thread EXCEPT ![th] = Outside]
  /\ UNCHANGED <<state_, channelVars, outputBuffer_, wire, shutWr, inServer, stream, failed,
                 loopAt, peer, holders, alive, sent>>

-----------------------------------------------------------------------------
(* The life of the object, and the peer.                                   *)

\* A holder drops its pointer.
Release(u) ==
  /\ u \in holders
  /\ IF u = OwnThread THEN pc \in {"idle", "dispatch", "error", "write"} ELSE thread[u] = Outside
  /\ holders' = holders \ {u}
  /\ UNCHANGED <<connection, loopAt, peer, alive, thread, sent>>

\* Nobody owns the connection any more: ~TcpConnection().
Destroy ==
  /\ alive
  /\ ~inServer /\ holders = {}
  /\ pc \in {"idle", "dispatch"}
  /\ \A i \in DOMAIN tasks : tasks[i] \notin OwningTasks
  /\ alive' = FALSE
  /\ IF state_ = "kDisconnected" THEN UNCHANGED connection ELSE Abort("destructor")
  /\ UNCHANGED <<loopAt, peer, holders, thread, sent>>

PeerCloses ==
  /\ "fin" \in PeerOps
  /\ peer = "open"
  /\ peer' = "fin"
  /\ UNCHANGED <<connection, loopAt, program>>

PeerResets ==
  /\ "rst" \in PeerOps
  /\ peer # "rst"
  /\ peer' = "rst"
  /\ UNCHANGED <<connection, loopAt, program>>

-----------------------------------------------------------------------------
\* Units a write() of handleWrite() may take; 0 when it fails.
WriteResults == IF Broken THEN {0} ELSE 0 .. Len(outputBuffer_)

HandlerStep == \/ HandleEvent \/ CloseTest \/ ErrorTest
               \/ \E result \in ReadResults : ReadTest(result)
               \/ \E n \in WriteResults : WriteTest(n)

Poll == \E r \in Revents : PollReturns(r)

OwnStep == \/ \E m \in Messages : OwnSend(m)
           \/ OwnShutdown \/ OwnForceClose \/ OwnStopRead \/ OwnStartRead

ForeignStep(th) == \/ \E m \in Messages : BeginSend(th, m)
                   \/ BeginShutdown(th) \/ BeginForceClose(th)
                   \/ \E op \in {"stopRead", "startRead"} : BeginReading(th, op)
                   \/ DoExchange(th) \/ QueueTask(th)

Next == /\ failed = "none"
        /\ \/ ConnectEstablished
           \/ state_ # "kConnecting" /\ (Poll \/ PeerCloses \/ PeerResets)
           \/ HandlerStep \/ RunTask \/ OwnStep \/ Destroy
           \/ \E th \in Threads : ForeignStep(th)
           \/ \E u \in Users : Release(u)

(***************************************************************************)
(* Fairness: the loop thread finishes what epoll_wait() reported, and runs *)
(* its tasks; the peer keeps reading, so that the socket is reported       *)
(* writable again and again and a write() takes something.                 *)
(***************************************************************************)
Writable == \E r \in Revents : "OUT" \in r /\ PollReturns(r)
Progress == "OUT" \in revents_ /\ \E n \in WriteResults \ {0} : WriteTest(n)

Fairness == /\ WF_vars(failed = "none" /\ HandlerStep)
            /\ SF_vars(failed = "none" /\ RunTask)
            /\ SF_vars(failed = "none" /\ Writable)
            /\ SF_vars(failed = "none" /\ Progress)

Spec == Init /\ [][Next]_vars

FairSpec == Spec /\ Fairness

-----------------------------------------------------------------------------
(* Properties.  All hold when only the loop thread closes the connection,  *)
(* other threads only send and nobody calls startRead(), nor stopRead()    *)
(* where the peer sends urgent data; StreamIntact whoever calls what.      *)

Open == state_ \in {"kConnected", "kDisconnecting"}

(***************************************************************************)
(* No assertion fails: sendInLoop() finds nothing buffered when it may     *)
(* write directly, handleWrite() always has something to write, no event   *)
(* is handled after the close except a harmless write event, the server    *)
(* erases the connection once, and it is destroyed closed.                 *)
(***************************************************************************)
AssertionsHold == failed = "none"

(***************************************************************************)
(* The socket is in the epoll set exactly while the connection is open and *)
(* the server owns it, so an event never finds the connection destroyed;   *)
(* output never waits without write interest, and write interest never     *)
(* outlives the output (epoll would report the socket without end).        *)
(***************************************************************************)
RegisteredWhileOpen == (polling <=> Open) /\ (Open => inServer)

WritingIffBuffered == Open => (isWriting <=> outputBuffer_ # <<>>)

ChannelFollowsState == TypeOK /\ RegisteredWhileOpen /\ WritingIffBuffered

(***************************************************************************)
(* The half-close of shutdown() follows all that was sent before it: the   *)
(* FIN does not overtake buffered output.                                  *)
(***************************************************************************)
FinAfterData == [][shutWr' # shutWr => wire' = stream' \/ peer = "rst"]_vars

(***************************************************************************)
(* A closed connection stays closed, through every callback and task that  *)
(* still refers to it.                                                     *)
(***************************************************************************)
ClosedIsFinal == [][state_ = "kDisconnected" => state_' = "kDisconnected"]_vars

\* forceClose() is carried out.
ForceCloseCloses == CloseTask \in {tasks[i] : i \in DOMAIN tasks} ~> state_ = "kDisconnected"

(***************************************************************************)
(* shutdown() is carried out, at once or when the output is written, as    *)
(* long as the peer reads.                                                 *)
(***************************************************************************)
ShutdownFinishes ==
  state_ = "kDisconnecting" ~> shutWr \/ state_ = "kDisconnected" \/ peer = "rst"

(***************************************************************************)
(* Whoever calls what: the peer gets the units of the messages in the      *)
(* order in which sendInLoop() took them, none twice, none missing in the  *)
(* middle, and before the socket breaks the rest is in the buffer.         *)
(***************************************************************************)
StreamIntact ==
  /\ Len(wire) <= Len(stream)
  /\ \A i \in DOMAIN wire : wire[i] = stream[i]
  /\ ~Broken => wire \o outputBuffer_ = stream

-----------------------------------------------------------------------------
(* What the source says and the program does not do.                       *)

(***************************************************************************)
(* ~TcpConnection() asserts state_ == kDisconnected.                       *)
(***************************************************************************)
DestroyedClosed == failed # "destructor"
=============================================================================
