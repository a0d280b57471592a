------------------------ MODULE TcpConnectionProofs ------------------------
(***************************************************************************)
(* Proofs about TcpConnection.tla, for any threads, any messages of any    *)
(* length, any high water mark and any bound on the waiting tasks.         *)
(***************************************************************************)
EXTENDS TcpConnection, SequenceTheorems, TLAPS

\* What TypeOK says of the variables the handlers change.
ConnectionTypeOK ==
  /\ ChannelTypeOK
  /\ state_ \in States
  /\ outputBuffer_ \in Seq(Units)
  /\ tasks \in Seq(AllTasks)
  /\ wire \in Seq(Units)
  /\ shutWr \in BOOLEAN
  /\ inServer \in BOOLEAN
  /\ stream \in Seq(Units)
  /\ failed \in {"none", "updateChannel", "sendInLoop", "handleRead", "handleWrite",
                 "handleClose", "closeConnection", "destructor", "shutdown", "useAfterFree"}
  /\ shutWr => state_ \in {"kDisconnecting", "kDisconnected"}

(***************************************************************************)
(* A task carries out a call on a connection that was established; that of *)
(* shutdown() one whose state_ the call has changed.                       *)
(***************************************************************************)
CallsFollowConnect ==
  /\ state_ = "kConnecting" =>
       /\ holders = {} /\ tasks = <<>> /\ pc = "idle"
       /\ \A th \in Threads : thread[th] = Outside
  /\ (\E i \in DOMAIN tasks : tasks[i] = ShutdownTask)
       \/ (\E th \in Threads : thread[th] = Queue(ShutdownTask))
     => state_ \in {"kDisconnecting", "kDisconnected"}

-----------------------------------------------------------------------------
(* Sequences and tasks.                                                    *)

\* The units of a message are a sequence of MsgLen units.
LEMMA UnitsOfTyped ==
  ASSUME NEW m \in Messages
  PROVE  UnitsOf(m) \in Seq(Units) /\ Len(UnitsOf(m)) = MsgLen
<1>1. MsgLen \in Nat /\ \A k \in 1 .. MsgLen : <<m, k>> \in Units
  BY TcpConnectionAssumption DEF Units
<1>2. UnitsOf(m) \in [1 .. MsgLen -> Units]
  BY <1>1 DEF UnitsOf
<1>3. QED
  BY <1>1, <1>2, SeqDef

\* A sequence cut in two.
LEMMA CutTyped ==
  ASSUME NEW S, NEW s \in Seq(S), NEW n \in 0 .. Len(s)
  PROVE  /\ SubSeq(s, 1, n) \in Seq(S) /\ Len(SubSeq(s, 1, n)) = n
         /\ SubSeq(s, n + 1, Len(s)) \in Seq(S) /\ Len(SubSeq(s, n + 1, Len(s))) = Len(s) - n
         /\ SubSeq(s, 1, n) \o SubSeq(s, n + 1, Len(s)) = s
<1>1. /\ Len(s) \in Nat
      /\ \A i \in 1 .. n : s[i] \in S
      /\ \A i \in n + 1 .. Len(s) : s[i] \in S
  BY LenProperties, ElementOfSeq
<1>2. SubSeq(s, 1, n) \in Seq(S) /\ Len(SubSeq(s, 1, n)) = n
  BY <1>1, SubSeqProperties
<1>3. /\ SubSeq(s, n + 1, Len(s)) \in Seq(S)
      /\ Len(SubSeq(s, n + 1, Len(s))) = Len(s) - n
  BY <1>1, SubSeqProperties
<1>4. SubSeq(s, 1, n) \o SubSeq(s, n + 1, Len(s)) = SubSeq(s, 1, Len(s))
  <2>1. 1 \in 1 .. Len(s) + 1 /\ n \in 1 - 1 .. Len(s) /\ Len(s) \in n .. Len(s)
    BY <1>1
  <2>2. QED
    BY <2>1, ConcatAdjacentSubSeq
<1>5. QED
  BY <1>2, <1>3, <1>4, SubSeqFull

\* The elements of a sequence after an Append() and of a Tail().
LEMMA MemberAppend ==
  ASSUME NEW S, NEW s \in Seq(S), NEW e \in S, NEW i \in DOMAIN Append(s, e)
  PROVE  Append(s, e)[i] = e \/ \E j \in DOMAIN s : s[j] = Append(s, e)[i]
<1>1. /\ Len(s) \in Nat /\ DOMAIN s = 1 .. Len(s)
      /\ DOMAIN Append(s, e) = 1 .. Len(s) + 1
      /\ \A j \in 1 .. Len(s) : Append(s, e)[j] = s[j]
      /\ Append(s, e)[Len(s) + 1] = e
  BY AppendProperties, LenProperties
<1>2. i \in 1 .. Len(s) \/ i = Len(s) + 1
  BY <1>1
<1>3. QED
  BY <1>1, <1>2

LEMMA MemberTail ==
  ASSUME NEW S, NEW s \in Seq(S), s # <<>>
  PROVE  /\ Head(s) \in S /\ Tail(s) \in Seq(S)
         /\ \E j \in DOMAIN s : s[j] = Head(s)
         /\ \A i \in DOMAIN Tail(s) : \E j \in DOMAIN s : s[j] = Tail(s)[i]
<1>1. /\ Len(s) \in Nat \ {0} /\ DOMAIN s = 1 .. Len(s)
      /\ Tail(s) \in Seq(S) /\ Len(Tail(s)) = Len(s) - 1
      /\ DOMAIN Tail(s) = 1 .. Len(s) - 1
      /\ \A i \in 1 .. Len(s) - 1 : Tail(s)[i] = s[i + 1]
      /\ Head(s) \in S
  BY HeadTailProperties, LenProperties, EmptySeq
<1>2. Head(s) = s[1]
  OBVIOUS
<1>3. QED
  BY <1>1, <1>2

\* What a thread does next is one thing.
LEMMA StepsDiffer ==
  /\ \A op : Exchange(op) # Outside
  /\ \A t : Queue(t) # Outside
  /\ \A op, t : Exchange(op) # Queue(t)
  /\ \A op1, op2 : Exchange(op1) = Exchange(op2) => op1 = op2
  /\ \A t1, t2 : Queue(t1) = Queue(t2) => t1 = t2
BY DEF Exchange, Outside, Queue

\* s has the tasks of queue, and callbacks of the program.
CallbacksAfter(s, queue) ==
  \A i \in DOMAIN s :
    s[i] \in {WriteComplete, HighWater} \/ \E j \in DOMAIN queue : queue[j] = s[i]

\* It still has when another callback may be queued.
LEMMA CallbackQueued ==
  ASSUME NEW queue \in Seq(AllTasks), NEW s \in Seq(AllTasks), CallbacksAfter(s, queue),
         NEW e \in {WriteComplete, HighWater}, NEW b \in BOOLEAN
  PROVE  /\ s \o (IF b THEN <<e>> ELSE <<>>) \in Seq(AllTasks)
         /\ CallbacksAfter(s \o (IF b THEN <<e>> ELSE <<>>), queue)
<1>1. e \in AllTasks
  BY DEF AllTasks, OwningTasks
<1>2. CASE b
  <2>1. s \o <<e>> = Append(s, e) /\ Append(s, e) \in Seq(AllTasks)
    BY <1>1, AppendIsConcat, AppendProperties
  <2>2. \A i \in DOMAIN Append(s, e) :
          Append(s, e)[i] = e \/ \E j \in DOMAIN s : s[j] = Append(s, e)[i]
    BY <1>1, MemberAppend
  <2>3. CallbacksAfter(Append(s, e), queue)
    BY <2>2, Zenon DEF CallbacksAfter
  <2>4. QED
    BY <1>2, <2>1, <2>3
<1>3. CASE ~b
  BY <1>3, ConcatEmptySeq
<1>4. QED
  BY <1>2, <1>3

-----------------------------------------------------------------------------
(***************************************************************************)
(* The handlers keep the types, and queue nothing but callbacks.           *)
(***************************************************************************)
LEMMA SendInLoopTyped ==
  ASSUME ConnectionTypeOK, NEW m \in Messages, NEW queue \in Seq(AllTasks),
         SendInLoop(m, queue), failed = "none"
  PROVE  /\ ConnectionTypeOK' /\ state_' = state_
         /\ CallbacksAfter(tasks', queue) \/ tasks' = tasks
<1> USE DEF ConnectionTypeOK
<1>1. CASE state_ = "kDisconnected"
  BY <1>1 DEF SendInLoop, Nothing, channelVars, ChannelTypeOK, CallbacksAfter
<1>2. CASE state_ # "kDisconnected" /\ ~isWriting /\ outputBuffer_ # <<>>
  BY <1>2 DEF SendInLoop, Abort, channelVars, ChannelTypeOK
<1>3. CASE state_ # "kDisconnected" /\ ~(~isWriting /\ outputBuffer_ # <<>>)
  <2> DEFINE fault == Direct /\ Broken
  <2>1. PICK n \in IF Direct /\ ~Broken THEN 0 .. MsgLen ELSE {0} :
         LET remain == IF fault THEN <<>> ELSE SubSeq(UnitsOf(m), n + 1, MsgLen)
         IN /\ wire' = wire \o SubSeq(UnitsOf(m), 1, n)
            /\ outputBuffer_' = outputBuffer_ \o remain
            /\ stream' = stream \o UnitsOf(m)
            /\ tasks' = queue \o (IF n = MsgLen THEN <<WriteComplete>> ELSE <<>>)
                              \o (IF remain # <<>> /\ Crosses(remain) THEN <<HighWater>> ELSE <<>>)
            /\ AwaitWritable(remain)
            /\ UNCHANGED <<state_, shutWr, inServer, failed>>
    BY <1>3, Zenon DEF SendInLoop
  <2> DEFINE remain == IF fault THEN <<>> ELSE SubSeq(UnitsOf(m), n + 1, MsgLen)
  <2>2. n \in 0 .. MsgLen
    BY TcpConnectionAssumption
  <2>3. /\ UnitsOf(m) \in Seq(Units) /\ SubSeq(UnitsOf(m), 1, n) \in Seq(Units)
        /\ remain \in Seq(Units)
    BY <2>2, UnitsOfTyped, CutTyped, EmptySeq
  <2> HIDE DEF remain, fault
  <2>4. wire' \in Seq(Units) /\ outputBuffer_' \in Seq(Units) /\ stream' \in Seq(Units)
    BY <2>1, <2>3, ConcatProperties DEF remain
  <2>5. tasks' \in Seq(AllTasks) /\ CallbacksAfter(tasks', queue)
    <3> DEFINE a == n = MsgLen
               b == remain # <<>> /\ Crosses(remain)
    <3>1. a \in BOOLEAN /\ b \in BOOLEAN /\ CallbacksAfter(queue, queue)
      BY DEF CallbacksAfter
    <3>2. tasks' = queue \o (IF a THEN <<WriteComplete>> ELSE <<>>)
                         \o (IF b THEN <<HighWater>> ELSE <<>>)
      BY <2>1 DEF remain
    <3> HIDE DEF a, b
    <3>3. QED
      BY <3>1, <3>2, CallbackQueued
  <2>6. ChannelTypeOK'
    BY <2>1 DEF AwaitWritable, EnableWrite, Update, channelVars, ChannelTypeOK, EventMasks
  <2>7. QED
    BY <2>1, <2>4, <2>5, <2>6
<1>4. QED
  BY <1>1, <1>2, <1>3
\* handleClose() closes, or fails an assertion.
LEMMA HandleCloseTyped ==
  ASSUME ConnectionTypeOK, NEW queue \in Seq(AllTasks), HandleClose(queue), failed = "none"
  PROVE  /\ ConnectionTypeOK'
         /\ state_' \in {state_, "kDisconnected"} /\ tasks' \in {queue, tasks}
BY DEF HandleClose, Abort, RemoveChannel, DisableAll, Update, UpdateAborts, channelVars,
       ConnectionTypeOK, ChannelTypeOK, EventMasks, States

LEMMA ReadingTyped ==
  ASSUME ConnectionTypeOK, NEW queue \in Seq(AllTasks),
         StopReadInLoop(queue) \/ StartReadInLoop(queue)
  PROVE  ConnectionTypeOK' /\ tasks' = queue /\ state_' = state_ /\ failed' = failed
<1>1. ChannelTypeOK'
  BY DEF StopReadInLoop, StartReadInLoop, DisableRead, EnableRead, Update, channelVars,
         ConnectionTypeOK, ChannelTypeOK, EventMasks
<1>2. tasks' = queue
  BY DEF StopReadInLoop, StartReadInLoop
<1>3. QED
  BY <1>1, <1>2 DEF StopReadInLoop, StartReadInLoop, ConnectionTypeOK

LEMMA HandleReadTyped ==
  ASSUME ConnectionTypeOK, NEW result, HandleRead(result), failed = "none"
  PROVE  /\ ConnectionTypeOK'
         /\ state_' \in {state_, "kDisconnected"} /\ tasks' = tasks
<1>1. CASE state_ = "kDisconnected"
  BY <1>1 DEF HandleRead, Abort, ConnectionTypeOK, ChannelTypeOK, channelVars
<1>2. CASE state_ # "kDisconnected" /\ result = "eof"
  BY <1>2, HandleCloseTyped DEF HandleRead, ConnectionTypeOK
<1>3. CASE state_ # "kDisconnected" /\ result # "eof"
  BY <1>3 DEF HandleRead, connection, channelVars, ConnectionTypeOK, ChannelTypeOK
<1>4. QED
  BY <1>1, <1>2, <1>3

LEMMA HandleWriteTyped ==
  ASSUME ConnectionTypeOK, NEW n \in 0 .. Len(outputBuffer_), HandleWrite(n), failed = "none"
  PROVE  /\ ConnectionTypeOK' /\ state_' = state_
         /\ CallbacksAfter(tasks', tasks)
<1> USE DEF ConnectionTypeOK
<1>1. CASE state_ = "kDisconnected"
  BY <1>1 DEF HandleWrite, connection, ChannelTypeOK, channelVars, CallbacksAfter
<1>2. CASE state_ # "kDisconnected" /\ (outputBuffer_ = <<>> \/ ~isWriting)
  BY <1>2 DEF HandleWrite, Abort, ChannelTypeOK, channelVars,
              CallbacksAfter
<1>3. CASE state_ # "kDisconnected" /\ ~(outputBuffer_ = <<>> \/ ~isWriting)
  <2>1. wire' \in Seq(Units) /\ outputBuffer_' \in Seq(Units)
    <3>1. /\ SubSeq(outputBuffer_, 1, n) \in Seq(Units)
          /\ SubSeq(outputBuffer_, n + 1, Len(outputBuffer_)) \in Seq(Units)
      BY CutTyped
    <3>2. QED
      BY <1>3, <3>1, ConcatProperties DEF HandleWrite
  <2>2. WriteComplete \in AllTasks
    BY DEF AllTasks, OwningTasks
  <2>3. tasks' \in Seq(AllTasks) /\ CallbacksAfter(tasks', tasks)
    <3>1. Append(tasks, WriteComplete) \in Seq(AllTasks)
      BY <2>2, AppendProperties
    <3>2. CallbacksAfter(tasks, tasks) /\ CallbacksAfter(Append(tasks, WriteComplete), tasks)
      BY <2>2, MemberAppend DEF CallbacksAfter
    <3>3. QED
      BY <1>3, <3>1, <3>2 DEF HandleWrite
  <2>4. ChannelTypeOK'
    BY <1>3 DEF HandleWrite, AllWritten, DisableWrite, Update, channelVars, ChannelTypeOK,
                EventMasks
  <2>5. QED
    BY <1>3, <2>1, <2>3, <2>4 DEF HandleWrite, AllWritten, States
<1>4. QED
  BY <1>1, <1>2, <1>3
-----------------------------------------------------------------------------
(* Types, whoever calls what.                                              *)

\* What TypeOK says of the other variables.
RestTypeOK ==
  /\ pc \in LoopPoints
  /\ revents_ \in Revents
  /\ peer \in {"open", "fin", "rst"}
  /\ holders \in SUBSET Users
  /\ alive \in BOOLEAN
  /\ thread \in [Threads -> {Outside} \cup {Exchange(op) : op \in Ops}
                               \cup {Queue(t) : t \in AllTasks}]
  /\ sent \in SUBSET Messages
  /\ revents_ = {} <=> pc = "idle"

LEMMA TypeOKSplit ==
  /\ TypeOK <=> ConnectionTypeOK /\ RestTypeOK
  /\ TypeOK' <=> ConnectionTypeOK' /\ RestTypeOK'
BY DEF TypeOK, ConnectionTypeOK, RestTypeOK

LEMMA InitTyped == Init => TypeOK /\ CallsFollowConnect
<1> SUFFICES ASSUME Init PROVE TypeOK /\ CallsFollowConnect
  OBVIOUS
<1>1. <<>> \in Seq(Units) /\ <<>> \in Seq(AllTasks) /\ DOMAIN <<>> = {}
  BY EmptySeq
<1>2. ConnectionTypeOK
  BY <1>1 DEF Init, ConnectionTypeOK, ChannelInit, ChannelTypeOK, EventMasks, States
<1>3. RestTypeOK
  BY DEF Init, RestTypeOK, LoopPoints, Revents
<1>4. Outside # Queue(ShutdownTask)
  BY DEF Outside, Queue
<1>5. CallsFollowConnect
  BY <1>1, <1>4 DEF Init, CallsFollowConnect
<1>6. QED
  BY <1>2, <1>3, <1>5, TypeOKSplit

(***************************************************************************)
(* CallsFollowConnect is kept by a step that touches neither the program's *)
(* pointers nor its threads, moves the loop and the queue only after the   *)
(* connection was established, and adds nothing but callbacks.             *)
(***************************************************************************)
LEMMA CallsFollowHandler ==
  ASSUME TypeOK, CallsFollowConnect,
         state_' = state_ \/ state_' \in {"kDisconnecting", "kDisconnected"},
         CallbacksAfter(tasks', tasks),
         state_ # "kConnecting" \/ (tasks' = tasks /\ pc' = pc),
         holders' = holders, thread' = thread
  PROVE  CallsFollowConnect'
<1>1. (\E i \in DOMAIN tasks' : tasks'[i] = ShutdownTask)
        => \E i \in DOMAIN tasks : tasks[i] = ShutdownTask
  BY DEF CallbacksAfter, WriteComplete, HighWater, ShutdownTask
<1>2. QED
  BY <1>1 DEF CallsFollowConnect

LEMMA SameQueue == ASSUME tasks' = tasks PROVE CallbacksAfter(tasks', tasks)
BY DEF CallbacksAfter
\* RunTask, whose tasks are the calls of the program and its callbacks.
LEMMA RunTaskTyped ==
  ASSUME TypeOK, CallsFollowConnect, failed = "none", RunTask
  PROVE  (TypeOK /\ CallsFollowConnect)'
<1> DEFINE t == Head(tasks)
           queue == Tail(tasks)
<1>1. ConnectionTypeOK /\ RestTypeOK
  BY TypeOKSplit
<1>2. /\ tasks # <<>> /\ queue \in Seq(AllTasks)
      /\ CallbacksAfter(queue, tasks)
      /\ \E j \in DOMAIN tasks : tasks[j] = t
  BY <1>1, MemberTail DEF RunTask, ConnectionTypeOK, CallbacksAfter
<1>3. state_ # "kConnecting" /\ (t = ShutdownTask => state_ # "kConnected")
  BY <1>1, <1>2 DEF CallsFollowConnect
<1>4. ASSUME ConnectionTypeOK', state_' \in {state_, "kDisconnected"},
             CallbacksAfter(tasks', queue) \/ tasks' = tasks
      PROVE  (TypeOK /\ CallsFollowConnect)'
  <2>1. CallbacksAfter(tasks', tasks)
    BY <1>2, <1>4 DEF CallbacksAfter
  <2>2. RestTypeOK'
    BY <1>1 DEF RunTask, loopAt, program, RestTypeOK
  <2>3. holders' = holders /\ thread' = thread /\ pc' = pc
    BY DEF RunTask, loopAt, program
  <2>4. CallsFollowConnect'
    BY <1>3, <1>4, <2>1, <2>3, CallsFollowHandler
  <2>5. QED
    BY <1>4, <2>2, <2>4, TypeOKSplit
<1>5. CASE t \notin OwningTasks /\ ~alive
  BY <1>1, <1>4, <1>5 DEF RunTask, Abort, ConnectionTypeOK, ChannelTypeOK, channelVars
<1>6. CASE ~(t \notin OwningTasks /\ ~alive)
  <2> HIDE DEF t, queue
  <2>1. \/ \E m \in Messages : t = SendTask(m) /\ SendInLoop(m, queue)
        \/ /\ t = ShutdownTask
           /\ ShutdownInLoop(state_)
           /\ tasks' = queue
           /\ UNCHANGED <<state_, channelVars, outputBuffer_, wire, inServer, stream, failed>>
        \/ t = CloseTask /\ ForceCloseInLoop(queue)
        \/ t = StopReadTask /\ StopReadInLoop(queue)
        \/ t = StartReadTask /\ StartReadInLoop(queue)
        \/ t \in {WriteComplete, HighWater} /\ Nothing(queue)
    BY <1>6 DEF RunTask, t, queue
  <2>2. CallbacksAfter(queue, queue)
    BY DEF CallbacksAfter
  <2>3. ASSUME NEW m \in Messages, SendInLoop(m, queue)
        PROVE  (TypeOK /\ CallsFollowConnect)'
    BY <1>1, <1>2, <1>4, <2>3, SendInLoopTyped
  <2>4. CASE /\ t = ShutdownTask
             /\ ShutdownInLoop(state_)
             /\ tasks' = queue
             /\ UNCHANGED <<state_, channelVars, outputBuffer_, wire, inServer, stream, failed>>
    <3>1. ConnectionTypeOK'
      BY <1>1, <1>2, <1>3, <2>4
         DEF ConnectionTypeOK, ShutdownInLoop, ChannelTypeOK, channelVars, States
    <3>2. QED
      BY <1>4, <2>2, <2>4, <3>1
  <2>5. CASE ForceCloseInLoop(queue)
    <3>1. CASE state_ # "kDisconnected"
      BY <1>1, <1>2, <1>4, <2>2, <2>5, <3>1, HandleCloseTyped DEF ForceCloseInLoop
    <3>2. CASE state_ = "kDisconnected"
      BY <1>1, <1>2, <1>4, <2>2, <2>5, <3>2
         DEF ForceCloseInLoop, Nothing, ConnectionTypeOK, ChannelTypeOK, channelVars
    <3>3. QED
      BY <3>1, <3>2
  <2>6. CASE StopReadInLoop(queue) \/ StartReadInLoop(queue)
    BY <1>1, <1>2, <1>4, <2>2, <2>6, ReadingTyped
  <2>7. CASE Nothing(queue)
    <3>1. ConnectionTypeOK' /\ state_' = state_ /\ tasks' = queue
      BY <1>1, <1>2, <2>7 DEF Nothing, ConnectionTypeOK, ChannelTypeOK, channelVars
    <3>2. QED
      BY <1>4, <2>2, <3>1
  <2>8. QED
    BY <2>1, <2>3, <2>4, <2>5, <2>6, <2>7
<1>7. QED
  BY <1>5, <1>6
\* Types, and CallsFollowConnect, hold in every state.
LEMMA TypesInductive == Spec => [](TypeOK /\ CallsFollowConnect)
<1>1. TypeOK /\ CallsFollowConnect /\ [Next]_vars => (TypeOK /\ CallsFollowConnect)'
  <2> SUFFICES ASSUME TypeOK, CallsFollowConnect, [Next]_vars
               PROVE  (TypeOK /\ CallsFollowConnect)'
    OBVIOUS
  <2>a. ConnectionTypeOK /\ RestTypeOK
    BY TypeOKSplit
  <2>b. ASSUME ConnectionTypeOK', RestTypeOK',
               state_' = state_ \/ state_' \in {"kDisconnecting", "kDisconnected"},
               CallbacksAfter(tasks', tasks),
               state_ # "kConnecting" \/ (tasks' = tasks /\ pc' = pc),
               holders' = holders, thread' = thread
        PROVE  (TypeOK /\ CallsFollowConnect)'
    BY <2>b, CallsFollowHandler, TypeOKSplit
  <2>c. ASSUME UNCHANGED connection
        PROVE  ConnectionTypeOK' /\ CallbacksAfter(tasks', tasks) /\ state_' = state_
                 /\ tasks' = tasks
    BY <2>a, <2>c, SameQueue
       DEF connection, channelVars, ConnectionTypeOK, ChannelTypeOK
  <2>d. ASSUME NEW where \in {"destructor", "shutdown", "useAfterFree"}, Abort(where)
        PROVE  ConnectionTypeOK' /\ CallbacksAfter(tasks', tasks) /\ state_' = state_
                 /\ tasks' = tasks
    BY <2>a, <2>d, SameQueue
       DEF Abort, channelVars, ConnectionTypeOK, ChannelTypeOK
  <2>e. tasks \in Seq(AllTasks) /\ CallbacksAfter(tasks, tasks)
    BY <2>a DEF ConnectionTypeOK, CallbacksAfter
  <2>1. CASE ConnectEstablished
    <3>1. ConnectionTypeOK'
      BY <2>1, <2>a DEF ConnectEstablished, EnableRead, Update, ConnectionTypeOK,
                        ChannelTypeOK, EventMasks, States
    <3>2. RestTypeOK'
      BY <2>1, <2>a DEF ConnectEstablished, loopAt, RestTypeOK
    <3>3. \A th \in Threads : Outside # Queue(ShutdownTask)
      BY DEF Outside, Queue
    <3>4. CallsFollowConnect'
      BY <2>1, <3>3 DEF ConnectEstablished, CallsFollowConnect
    <3>5. QED
      BY <3>1, <3>2, <3>4, TypeOKSplit
  <2>2. CASE state_ # "kConnecting" /\ Poll
    <3>1. RestTypeOK'
      BY <2>2, <2>a DEF Poll, PollReturns, Reportable, program, RestTypeOK, LoopPoints
    <3>2. state_ # "kConnecting" /\ UNCHANGED <<connection, holders, thread>>
      BY <2>2 DEF Poll, PollReturns, program
    <3>3. QED
      BY <2>b, <2>c, <3>1, <3>2, Zenon
  <2>3. CASE state_ # "kConnecting" /\ (PeerCloses \/ PeerResets)
    <3>1. RestTypeOK'
      BY <2>3, <2>a DEF PeerCloses, PeerResets, loopAt, program, RestTypeOK
    <3>2. state_ # "kConnecting" /\ UNCHANGED <<connection, holders, thread>>
      BY <2>3 DEF PeerCloses, PeerResets, program
    <3>3. QED
      BY <2>b, <2>c, <3>1, <3>2, Zenon
  <2>4. CASE failed = "none" /\ HandlerStep
    <3>1. state_ # "kConnecting" /\ RestTypeOK' /\ holders' = holders /\ thread' = thread
      BY <2>4, <2>a DEF HandlerStep, HandleEvent, CloseTest, ErrorTest, ReadTest, WriteTest,
                        program, RestTypeOK, LoopPoints, Revents, CallsFollowConnect
    <3>2. CASE UNCHANGED connection
      BY <2>b, <2>c, <3>1, <3>2, Zenon
    <3>3. CASE HandleEvent /\ Abort("useAfterFree")
      BY <2>b, <2>d, <3>1, <3>3, Zenon
    <3>4. CASE HandleClose(tasks)
      <4>1. /\ ConnectionTypeOK' /\ state_' \in {state_, "kDisconnected"}
            /\ CallbacksAfter(tasks', tasks)
        BY <2>4, <2>a, <2>e, <3>4, HandleCloseTyped, SameQueue
      <4>2. QED
        BY <2>b, <3>1, <4>1, Zenon
    <3>5. CASE \E result \in ReadResults : HandleRead(result)
      <4>1. /\ ConnectionTypeOK' /\ state_' \in {state_, "kDisconnected"}
            /\ CallbacksAfter(tasks', tasks)
        BY <2>4, <2>a, <3>5, HandleReadTyped, SameQueue
      <4>2. QED
        BY <2>b, <3>1, <4>1, Zenon
    <3>6. CASE \E n \in WriteResults : HandleWrite(n)
      <4>1. WriteResults \subseteq 0 .. Len(outputBuffer_)
        BY <2>a, LenProperties DEF WriteResults, ConnectionTypeOK
      <4>2. /\ ConnectionTypeOK' /\ state_' = state_ /\ CallbacksAfter(tasks', tasks)
        BY <2>4, <2>a, <3>6, <4>1, HandleWriteTyped
      <4>3. QED
        BY <2>b, <3>1, <4>2, Zenon
    <3>7. QED
      BY <2>4, <3>2, <3>3, <3>4, <3>5, <3>6
         DEF HandlerStep, HandleEvent, CloseTest, ErrorTest, ReadTest, WriteTest
  <2>5. CASE failed = "none" /\ RunTask
    BY <2>5, RunTaskTyped
  <2>6. ASSUME NEW m \in Messages, OwnSend(m), failed = "none"
        PROVE  (TypeOK /\ CallsFollowConnect)'
    <3>1. RestTypeOK' /\ state_ # "kConnecting" /\ holders' = holders /\ thread' = thread
      BY <2>6, <2>a DEF OwnSend, OwnCall, loopAt, RestTypeOK, CallsFollowConnect
    <3>2. CASE SendInLoop(m, tasks)
      <4>1. ConnectionTypeOK' /\ state_' = state_ /\ CallbacksAfter(tasks', tasks)
        BY <2>6, <2>a, <2>e, <3>2, SendInLoopTyped, SameQueue
      <4>2. QED
        BY <2>b, <3>1, <4>1, Zenon
    <3>3. CASE UNCHANGED connection
      BY <2>b, <2>c, <3>1, <3>3, Zenon
    <3>4. QED
      BY <2>6, <3>2, <3>3 DEF OwnSend
  <2>7. CASE OwnShutdown
    <3>1. ConnectionTypeOK'
      BY <2>7, <2>a DEF OwnShutdown, ShutdownInLoop, ConnectionTypeOK, ChannelTypeOK,
                        channelVars, States
    <3>2. RestTypeOK' /\ state_ # "kConnecting"
      BY <2>7, <2>a DEF OwnShutdown, OwnCall, loopAt, program, RestTypeOK, CallsFollowConnect
    <3>3. /\ CallbacksAfter(tasks', tasks) /\ state_' = "kDisconnecting"
          /\ UNCHANGED <<holders, thread>>
      BY <2>7, SameQueue DEF OwnShutdown, program
    <3>4. QED
      BY <2>b, <3>1, <3>2, <3>3, Zenon
  <2>8. CASE OwnForceClose
    <3>1. CloseTask \in AllTasks /\ CloseTask # ShutdownTask
      BY DEF AllTasks, OwningTasks, CloseTask, ShutdownTask
    <3>2. Append(tasks, CloseTask) \in Seq(AllTasks)
      BY <2>e, <3>1, AppendProperties
    <3>3. ConnectionTypeOK' /\ RestTypeOK'
      BY <2>8, <2>a, <3>2 DEF OwnForceClose, ConnectionTypeOK, ChannelTypeOK, channelVars,
                        States, loopAt, program, RestTypeOK
    <3>4. CallsFollowConnect'
      BY <2>8 DEF OwnForceClose, CallsFollowConnect
    <3>5. QED
      BY <3>3, <3>4, TypeOKSplit
  <2>9. CASE OwnStopRead \/ OwnStartRead
    <3>1. RestTypeOK' /\ state_ # "kConnecting" /\ holders' = holders /\ thread' = thread
      BY <2>9, <2>a DEF OwnStopRead, OwnStartRead, OwnCall, loopAt, program, RestTypeOK,
                        CallsFollowConnect
    <3>2. ConnectionTypeOK' /\ tasks' = tasks /\ state_' = state_
      BY <2>9, <2>a, <2>e, ReadingTyped DEF OwnStopRead, OwnStartRead
    <3>3. CallbacksAfter(tasks', tasks)
      BY <3>2, SameQueue
    <3>4. QED
      BY <2>b, <3>1, <3>2, <3>3, Zenon
  <2>10. CASE Destroy
    <3>1. RestTypeOK'
      BY <2>10, <2>a DEF Destroy, loopAt, RestTypeOK
    <3>2. UNCHANGED <<pc, holders, thread>>
      BY <2>10 DEF Destroy, loopAt
    <3>3. CASE UNCHANGED connection
      BY <2>b, <2>c, <3>1, <3>2, <3>3, Zenon
    <3>4. CASE Abort("destructor")
      BY <2>b, <2>d, <3>1, <3>2, <3>4, Zenon
    <3>5. QED
      BY <2>10, <3>3, <3>4 DEF Destroy
  <2>11. ASSUME NEW th \in Threads, ForeignStep(th)
         PROVE  (TypeOK /\ CallsFollowConnect)'
    <3>1. state_ # "kConnecting"
      <4>1. th \in holders \/ thread[th] # Outside
        BY <2>11, StepsDiffer
           DEF ForeignStep, BeginSend, BeginShutdown, BeginForceClose, BeginReading,
               ForeignCall, DoExchange, QueueTask
      <4>2. QED
        BY <4>1 DEF CallsFollowConnect
    <3>2. CASE QueueTask(th)
      <4>1. PICK t \in AllTasks : thread[th] = Queue(t) /\ tasks' = Append(tasks, t)
        BY <3>2 DEF QueueTask
      <4>2. ConnectionTypeOK' /\ RestTypeOK'
        BY <2>a, <2>e, <3>2, <4>1, AppendProperties
           DEF QueueTask, ConnectionTypeOK, ChannelTypeOK, channelVars, loopAt, RestTypeOK
      <4>3. \A i \in DOMAIN tasks' : tasks'[i] = t \/ \E j \in DOMAIN tasks : tasks[j] = tasks'[i]
        BY <2>e, <4>1, MemberAppend
      <4>4. CallsFollowConnect'
        BY <2>a, <3>1, <3>2, <4>1, <4>3, StepsDiffer
           DEF QueueTask, CallsFollowConnect, RestTypeOK
      <4>5. QED
        BY <4>2, <4>4, TypeOKSplit
    <3>3. ASSUME NEW step \in {Outside} \cup {Exchange(op) : op \in Ops}
                                 \cup {Queue(t) : t \in AllTasks},
                 thread' = [thread EXCEPT ![th] = step],
                 ConnectionTypeOK', tasks' = tasks,
                 UNCHANGED <<loopAt, peer, holders, alive>>, sent' \in SUBSET Messages,
                 state_' \in {state_, "kDisconnecting"},
                 step = Queue(ShutdownTask) => state_' = "kDisconnecting"
          PROVE  (TypeOK /\ CallsFollowConnect)'
      <4>1. RestTypeOK'
        BY <2>a, <3>3 DEF RestTypeOK, loopAt
      <4>2. CallsFollowConnect'
        BY <2>a, <3>1, <3>3 DEF RestTypeOK, CallsFollowConnect
      <4>3. QED
        BY <3>3, <4>1, <4>2, TypeOKSplit
    <3>4. ASSUME NEW m \in Messages, BeginSend(th, m) PROVE (TypeOK /\ CallsFollowConnect)'
      <4>1. SendTask(m) \in AllTasks /\ SendTask(m) # ShutdownTask
        BY DEF AllTasks, OwningTasks, SendTask, ShutdownTask
      <4>2. QED
        BY <2>a, <2>c, <3>3, <3>4, <4>1, StepsDiffer DEF BeginSend, Continue, RestTypeOK
    <3>5. CASE BeginShutdown(th)
      <4>1. CASE state_ = "kDisconnected"
        <5>1. RestTypeOK' /\ CallsFollowConnect' /\ ConnectionTypeOK'
          BY <2>a, <2>d, <3>1, <3>5, <4>1
             DEF BeginShutdown, RestTypeOK, CallsFollowConnect, loopAt
        <5>2. QED
          BY <5>1, TypeOKSplit
      <4>2. CASE state_ # "kDisconnected"
        <5>1. Exchange("shutdown") \in {Exchange(op) : op \in Ops}
          BY DEF Ops
        <5>2. QED
          BY <2>a, <2>c, <3>3, <3>5, <4>2, <5>1, StepsDiffer DEF BeginShutdown, RestTypeOK
      <4>3. QED
        BY <4>1, <4>2
    <3>6. CASE BeginForceClose(th)
      <4>1. Exchange("forceClose") \in {Exchange(op) : op \in Ops}
        BY DEF Ops
      <4>2. QED
        BY <2>a, <2>c, <3>3, <3>6, <4>1, StepsDiffer DEF BeginForceClose, Continue, RestTypeOK
    <3>7. ASSUME NEW op \in {"stopRead", "startRead"}, BeginReading(th, op)
          PROVE  (TypeOK /\ CallsFollowConnect)'
      <4> DEFINE t == IF op = "stopRead" THEN StopReadTask ELSE StartReadTask
      <4>1. t \in AllTasks /\ t # ShutdownTask
        BY DEF AllTasks, StopReadTask, StartReadTask, ShutdownTask
      <4>2. thread' = [thread EXCEPT ![th] = Queue(t)]
        BY <3>7 DEF BeginReading, Continue
      <4> HIDE DEF t
      <4>3. QED
        BY <2>a, <2>c, <3>3, <3>7, <4>1, <4>2, StepsDiffer DEF BeginReading, Continue, RestTypeOK
    <3>8. CASE DoExchange(th)
      <4> DEFINE step ==
            CASE thread[th] = Exchange("shutdown") /\ state_ = "kConnected" -> Queue(ShutdownTask)
              [] thread[th] = Exchange("forceClose") /\ state_ # "kDisconnected" -> Queue(CloseTask)
              [] OTHER -> Outside
      <4>1. thread' = [thread EXCEPT ![th] = step]
        BY <3>8 DEF DoExchange
      <4>2. step \in {Outside, Queue(ShutdownTask), Queue(CloseTask)}
        OBVIOUS
      <4> HIDE DEF step
      <4>3. ShutdownTask \in AllTasks /\ CloseTask \in AllTasks
        BY DEF AllTasks, OwningTasks
      <4>4. ConnectionTypeOK' /\ tasks' = tasks /\ state_' = "kDisconnecting"
        BY <2>a, <3>8 DEF DoExchange, ConnectionTypeOK, ChannelTypeOK, channelVars, States
      <4>5. QED
        BY <2>a, <3>3, <3>8, <4>1, <4>2, <4>3, <4>4 DEF DoExchange, RestTypeOK
    <3>9. QED
      BY <2>11, <3>2, <3>4, <3>5, <3>6, <3>7, <3>8 DEF ForeignStep
  <2>12. ASSUME NEW u \in Users, Release(u)
         PROVE  (TypeOK /\ CallsFollowConnect)'
    <3>1. RestTypeOK'
      BY <2>12, <2>a DEF Release, loopAt, RestTypeOK
    <3>2. state_ # "kConnecting"
      BY <2>12 DEF Release, CallsFollowConnect
    <3>3. CallsFollowConnect'
      BY <2>12, <3>2 DEF Release, CallsFollowConnect, connection
    <3>4. QED
      BY <2>12, <2>c, <3>1, <3>3, TypeOKSplit DEF Release
  <2>13. CASE UNCHANGED vars
    <3>1. RestTypeOK'
      BY <2>13, <2>a DEF vars, loopAt, program, RestTypeOK
    <3>2. UNCHANGED <<connection, pc, holders, thread>>
      BY <2>13 DEF vars, loopAt, program
    <3>3. QED
      BY <2>b, <2>c, <3>1, <3>2, Zenon
  <2>14. QED
    BY <2>1, <2>2, <2>3, <2>4, <2>5, <2>6, <2>7, <2>8, <2>9, <2>10, <2>11, <2>12, <2>13
       DEF Next, OwnStep
<1>2. QED
  BY <1>1, InitTyped, PTL DEF Spec
(***************************************************************************)
(* Types hold in every state: whatever the program calls, on whichever     *)
(* threads, and whatever the peer does; among them, that events are        *)
(* pending only while the socket is handled and that a connection whose    *)
(* write direction was shut down is never taken for connected again.       *)
(***************************************************************************)
THEOREM TypeCorrect == Spec => []TypeOK
BY TypesInductive, PTL

-----------------------------------------------------------------------------
(* The stream of bytes, whoever calls what.                                *)

LEMMA ConcatPrefix ==
  ASSUME NEW S, NEW a \in Seq(S), NEW b \in Seq(S)
  PROVE  Len(a) <= Len(a \o b) /\ \A i \in DOMAIN a : a[i] = (a \o b)[i]
<1>1. /\ Len(a) \in Nat /\ Len(b) \in Nat /\ DOMAIN a = 1 .. Len(a)
      /\ Len(a \o b) = Len(a) + Len(b)
      /\ \A i \in 1 .. Len(a) + Len(b) :
           (a \o b)[i] = IF i <= Len(a) THEN a[i] ELSE b[i - Len(a)]
  BY ConcatProperties, LenProperties
<1>2. QED
  BY <1>1

LEMMA UnitsAssociative ==
  \A a, b, c \in Seq(Units) : (a \o b) \o c = a \o (b \o c)
BY ConcatAssociative

\* A step that leaves the bytes alone; a broken socket stays broken.
LEMMA StreamUntouched ==
  ASSUME StreamIntact, UNCHANGED <<wire, outputBuffer_, stream>>, Broken => Broken'
  PROVE  StreamIntact'
BY DEF StreamIntact

\* All that was accepted is in the kernel or in the buffer: the wire is its start.
LEMMA StreamComplete ==
  ASSUME NEW w \in Seq(Units), NEW out \in Seq(Units),
         wire' = w, stream' = w \o out, ~Broken' => outputBuffer_' = out
  PROVE  StreamIntact'
BY ConcatPrefix DEF StreamIntact

LEMMA SendInLoopStream ==
  ASSUME ConnectionTypeOK, StreamIntact, NEW m \in Messages, NEW queue,
         SendInLoop(m, queue), peer' = peer
  PROVE  StreamIntact'
<1> DEFINE U == UnitsOf(m)
<1>0. /\ wire \in Seq(Units) /\ outputBuffer_ \in Seq(Units) /\ stream \in Seq(Units)
      /\ U \in Seq(Units) /\ Len(U) = MsgLen /\ MsgLen \in Nat
  BY UnitsOfTyped, TcpConnectionAssumption DEF ConnectionTypeOK
<1> HIDE DEF U
<1>1. CASE UNCHANGED <<wire, outputBuffer_, stream, shutWr>>
  BY <1>1, StreamUntouched DEF Broken
<1>2. CASE state_ # "kDisconnected" /\ ~(~isWriting /\ outputBuffer_ # <<>>)
  <2> DEFINE fault == Direct /\ Broken
  <2>1. PICK n \in IF Direct /\ ~Broken THEN 0 .. MsgLen ELSE {0} :
         LET remain == IF fault THEN <<>> ELSE SubSeq(U, n + 1, MsgLen)
         IN /\ wire' = wire \o SubSeq(U, 1, n)
            /\ outputBuffer_' = outputBuffer_ \o remain
            /\ stream' = stream \o U
            /\ UNCHANGED shutWr
    BY <1>2 DEF SendInLoop, U
  <2>2. /\ n \in 0 .. MsgLen
        /\ SubSeq(U, 1, n) \in Seq(Units) /\ SubSeq(U, n + 1, MsgLen) \in Seq(Units)
        /\ SubSeq(U, 1, n) \o SubSeq(U, n + 1, MsgLen) = U
    <3>1. n \in 0 .. MsgLen
      BY <1>0
    <3>2. QED
      BY <1>0, <3>1, CutTyped, Zenon
  <2>3. Broken' = Broken
    BY <2>1 DEF Broken
  <2>4. CASE Direct /\ ~Broken
    <3>1. outputBuffer_ = <<>> /\ wire = stream
      BY <1>0, <1>2, <2>4, ConcatEmptySeq DEF StreamIntact, Direct
    <3>2. outputBuffer_' = SubSeq(U, n + 1, MsgLen)
      BY <2>1, <2>2, <2>4, <3>1, ConcatEmptySeq
    <3>3. stream' = (wire \o SubSeq(U, 1, n)) \o outputBuffer_'
      <4>1. (wire \o SubSeq(U, 1, n)) \o SubSeq(U, n + 1, MsgLen)
               = wire \o (SubSeq(U, 1, n) \o SubSeq(U, n + 1, MsgLen))
        BY <1>0, <2>2, UnitsAssociative, Zenon
      <4>2. stream' = wire \o U
        BY <2>1, <3>1
      <4>3. QED
        BY <2>2, <3>2, <4>1, <4>2, Zenon
    <3>4. wire \o SubSeq(U, 1, n) \in Seq(Units)
      BY <1>0, <2>2, ConcatProperties
    <3>5. QED
      BY <2>1, <2>2, <3>2, <3>3, <3>4, StreamComplete
  <2>5. CASE ~Direct \/ Broken
    <3>1. n = 0 /\ SubSeq(U, 1, n) = <<>>
      BY <2>1, <2>5, <2>2
    <3>2. wire' = wire
      BY <1>0, <2>1, <3>1, ConcatEmptySeq
    <3>3. CASE Broken
      <4>1. Len(stream) <= Len(stream \o U) /\ \A i \in DOMAIN stream : stream[i] = (stream \o U)[i]
        BY <1>0, ConcatPrefix
      <4>2. DOMAIN wire = 1 .. Len(wire) /\ DOMAIN stream = 1 .. Len(stream)
              /\ Len(wire) \in Nat /\ Len(stream) \in Nat /\ Len(stream \o U) \in Nat
        BY <1>0, LenProperties, ConcatProperties
      <4>3. QED
        BY <2>1, <2>3, <3>2, <3>3, <4>1, <4>2 DEF StreamIntact
    <3>4. CASE ~Broken
      <4>1. outputBuffer_' = outputBuffer_ \o U
        <5>1. SubSeq(U, 1, MsgLen) = U
          BY <1>0, SubSeqFull, Zenon
        <5>2. outputBuffer_' = outputBuffer_ \o SubSeq(U, n + 1, MsgLen)
          BY <2>1, <3>4, Zenon
        <5>3. n + 1 = 1
          BY <3>1
        <5>4. QED
          BY <5>1, <5>2, <5>3, Zenon
      <4>2. stream' = wire \o outputBuffer_'
        <5>1. (wire \o outputBuffer_) \o U = wire \o (outputBuffer_ \o U)
          BY <1>0, UnitsAssociative, Zenon
        <5>2. stream' = stream \o U /\ stream = wire \o outputBuffer_
          BY <2>1, <3>4 DEF StreamIntact
        <5>3. QED
          BY <4>1, <5>1, <5>2, Zenon
      <4>3. outputBuffer_' \in Seq(Units)
        BY <1>0, <4>1, ConcatProperties
      <4>4. QED
        BY <1>0, <3>2, <4>2, <4>3, StreamComplete
    <3>5. QED
      BY <3>3, <3>4
  <2>6. QED
    BY <2>4, <2>5
<1>3. QED
  BY <1>1, <1>2 DEF SendInLoop, Nothing, Abort

LEMMA HandleWriteStream ==
  ASSUME ConnectionTypeOK, StreamIntact, NEW n \in WriteResults, HandleWrite(n), peer' = peer
  PROVE  StreamIntact'
<1>0. wire \in Seq(Units) /\ outputBuffer_ \in Seq(Units) /\ stream \in Seq(Units)
  BY DEF ConnectionTypeOK
<1>1. CASE UNCHANGED <<wire, outputBuffer_, stream, shutWr>>
  BY <1>1, StreamUntouched DEF Broken
<1>2. CASE /\ wire' = wire \o SubSeq(outputBuffer_, 1, n)
           /\ outputBuffer_' = SubSeq(outputBuffer_, n + 1, Len(outputBuffer_))
           /\ stream' = stream
           /\ shutWr' = shutWr \/ AllWritten
  <2> DEFINE a == SubSeq(outputBuffer_, 1, n)
             b == SubSeq(outputBuffer_, n + 1, Len(outputBuffer_))
  <2>1. a \in Seq(Units) /\ b \in Seq(Units) /\ a \o b = outputBuffer_
    <3>1. n \in 0 .. Len(outputBuffer_)
      BY <1>0, LenProperties DEF WriteResults
    <3>2. QED
      BY <1>0, <3>1, CutTyped, Zenon
  <2>2. Broken => Broken'
    BY <1>2 DEF Broken, AllWritten
  <2>3. CASE Broken
    <3>1. a = <<>>
      BY <1>0, <2>3, LenProperties DEF WriteResults
    <3>2. wire' = wire
      BY <1>0, <1>2, <3>1, ConcatEmptySeq
    <3>3. QED
      BY <1>2, <2>2, <2>3, <3>2 DEF StreamIntact
  <2>4. CASE ~Broken
    <3>1. wire' = wire \o a /\ outputBuffer_' = b
      BY <1>2
    <3> HIDE DEF a, b
    <3>2. stream' = (wire \o a) \o b /\ wire \o a \in Seq(Units)
      <4>1. (wire \o a) \o b = wire \o (a \o b) /\ wire \o a \in Seq(Units)
        BY <1>0, <2>1, UnitsAssociative, ConcatProperties, Zenon
      <4>2. stream' = wire \o outputBuffer_
        BY <1>2, <2>4 DEF StreamIntact
      <4>3. QED
        BY <2>1, <4>1, <4>2, Zenon
    <3>3. QED
      BY <2>1, <3>1, <3>2, StreamComplete
  <2>5. QED
    BY <2>3, <2>4
<1>3. QED
  BY <1>1, <1>2 DEF HandleWrite, Abort, connection
\* The handlers that leave the bytes alone.
LEMMA OtherHandlersStream ==
  ASSUME NEW queue,
         \/ HandleClose(queue) \/ ForceCloseInLoop(queue)
         \/ StopReadInLoop(queue) \/ StartReadInLoop(queue)
         \/ Nothing(queue) \/ UNCHANGED connection \/ (\E where : Abort(where))
         \/ \E result : HandleRead(result) /\ queue = tasks
  PROVE  UNCHANGED <<wire, outputBuffer_, stream, shutWr>>
BY DEF HandleClose, ForceCloseInLoop, StopReadInLoop, StartReadInLoop, Nothing, HandleRead,
       Abort, connection

LEMMA StreamStep ==
  ASSUME TypeOK, StreamIntact, [Next]_vars
  PROVE  StreamIntact'
<1>1. ConnectionTypeOK
  BY TypeOKSplit
<1>2. ASSUME UNCHANGED <<wire, outputBuffer_, stream>>, shutWr => shutWr',
             peer = "rst" => peer' = "rst"
      PROVE  StreamIntact'
  BY <1>2, StreamUntouched DEF Broken
<1>3. CASE UNCHANGED <<wire, outputBuffer_, stream, shutWr, peer>>
  BY <1>2, <1>3
<1>4. CASE ConnectEstablished
  BY <1>3, <1>4 DEF ConnectEstablished
<1>5. CASE Poll
  BY <1>3, <1>5 DEF Poll, PollReturns, connection
<1>6. CASE PeerCloses \/ PeerResets
  <2>1. UNCHANGED connection /\ (peer = "rst" => peer' = "rst")
    BY <1>6 DEF PeerCloses, PeerResets
  <2>2. QED
    BY <1>2, <2>1 DEF connection
<1>7. CASE HandlerStep
  <2>1. peer' = peer
    BY <1>7 DEF HandlerStep, HandleEvent, CloseTest, ErrorTest, ReadTest, WriteTest
  <2>2. CASE \E n \in WriteResults : HandleWrite(n)
    BY <1>1, <2>1, <2>2, HandleWriteStream
  <2>3. CASE \/ HandleClose(tasks) \/ UNCHANGED connection \/ Abort("useAfterFree")
             \/ \E result : HandleRead(result)
    <3>1. UNCHANGED <<wire, outputBuffer_, stream, shutWr>>
      BY <2>3, OtherHandlersStream
    <3>2. QED
      BY <1>3, <2>1, <3>1
  <2>4. QED
    BY <1>7, <2>2, <2>3
       DEF HandlerStep, HandleEvent, CloseTest, ErrorTest, ReadTest, WriteTest
<1>8. CASE RunTask
  <2> DEFINE t == Head(tasks)
             queue == Tail(tasks)
  <2>1. peer' = peer
    BY <1>8 DEF RunTask
  <2>2. ASSUME NEW m \in Messages, SendInLoop(m, queue) PROVE StreamIntact'
    BY <1>1, <2>1, <2>2, SendInLoopStream
  <2>3. CASE /\ ShutdownInLoop(state_)
             /\ UNCHANGED <<outputBuffer_, wire, stream>>
    <3>1. shutWr => shutWr'
      BY <2>3 DEF ShutdownInLoop
    <3>2. QED
      BY <1>2, <2>1, <2>3, <3>1
  <2>4. CASE \/ ForceCloseInLoop(queue) \/ StopReadInLoop(queue) \/ StartReadInLoop(queue)
             \/ Nothing(queue) \/ Abort("useAfterFree")
    <3>1. UNCHANGED <<wire, outputBuffer_, stream, shutWr>>
      BY <2>4, OtherHandlersStream
    <3>2. QED
      BY <1>3, <2>1, <3>1
  <2>5. QED
    BY <1>8, <2>2, <2>3, <2>4 DEF RunTask
<1>9. CASE OwnStep
  <2>1. peer' = peer
    BY <1>9 DEF OwnStep, OwnSend, OwnShutdown, OwnForceClose, OwnStopRead, OwnStartRead
  <2>2. ASSUME NEW m \in Messages, SendInLoop(m, tasks) PROVE StreamIntact'
    BY <1>1, <2>1, <2>2, SendInLoopStream
  <2>3. CASE OwnShutdown
    <3>1. (shutWr => shutWr') /\ UNCHANGED <<outputBuffer_, wire, stream>>
      BY <2>3 DEF OwnShutdown, ShutdownInLoop
    <3>2. QED
      BY <1>2, <2>1, <3>1
  <2>4. CASE OwnForceClose
    BY <1>3, <2>1, <2>4 DEF OwnForceClose
  <2>5. CASE StopReadInLoop(tasks) \/ StartReadInLoop(tasks) \/ UNCHANGED connection
    <3>1. UNCHANGED <<wire, outputBuffer_, stream, shutWr>>
      BY <2>5, OtherHandlersStream
    <3>2. QED
      BY <1>3, <2>1, <3>1
  <2>6. QED
    BY <1>9, <2>2, <2>3, <2>4, <2>5 DEF OwnStep, OwnSend, OwnStopRead, OwnStartRead
<1>10. CASE Destroy
  BY <1>3, <1>10 DEF Destroy, Abort, connection
<1>11. ASSUME NEW th \in Threads, ForeignStep(th)
       PROVE  UNCHANGED <<wire, outputBuffer_, stream, shutWr, peer>>
  BY <1>11 DEF ForeignStep, BeginSend, BeginShutdown, BeginForceClose, BeginReading, DoExchange,
               QueueTask, Continue, Abort, connection
<1>12. ASSUME NEW u \in Users, Release(u) PROVE StreamIntact'
  BY <1>3, <1>12 DEF Release, connection
<1>13. CASE UNCHANGED vars
  BY <1>3, <1>13 DEF vars, connection
<1>14. QED
  BY <1>3, <1>4, <1>5, <1>6, <1>7, <1>8, <1>9, <1>10, <1>11, <1>12, <1>13 DEF Next

(***************************************************************************)
(* Whatever the program calls, on whichever threads: the kernel gets the   *)
(* units of the messages in the order in which sendInLoop() took them,     *)
(* none twice and none missing in the middle, and what it has not got is   *)
(* in outputBuffer_ for as long as the socket can be written.              *)
(***************************************************************************)
THEOREM StreamAlwaysIntact == Spec => []StreamIntact
<1>1. Init => StreamIntact
  <2>1. <<>> \in Seq(Units) /\ <<>> \o <<>> = <<>> /\ DOMAIN <<>> = {} /\ Len(<<>>) = 0
    BY EmptySeq, ConcatEmptySeq
  <2>2. QED
    BY <2>1 DEF Init, StreamIntact
<1>2. TypeOK /\ StreamIntact /\ [Next]_vars => StreamIntact'
  BY StreamStep
<1>3. QED
  BY <1>1, <1>2, TypeCorrect, PTL DEF Spec
-----------------------------------------------------------------------------
(* Where tasks and calls on other threads come from.                       *)

\* What another thread is in the middle of, it has begun by an operation it may call.
LEMMA NewSteps ==
  ASSUME TypeOK, [Next]_vars, NEW th \in Threads
  PROVE  \/ thread'[th] \in {thread[th], Outside}
         \/ \E m \in Messages : thread'[th] = Queue(SendTask(m))
         \/ \E op \in ForeignOps \cap {"shutdown", "forceClose"} : thread'[th] = Exchange(op)
         \/ thread[th] = Exchange("shutdown") /\ thread'[th] = Queue(ShutdownTask)
         \/ thread[th] = Exchange("forceClose") /\ thread'[th] = Queue(CloseTask)
         \/ "stopRead" \in ForeignOps /\ thread'[th] = Queue(StopReadTask)
         \/ "startRead" \in ForeignOps /\ thread'[th] = Queue(StartReadTask)
<1>1. CASE \E u \in Threads : ForeignStep(u)
  <2>1. PICK u \in Threads : ForeignStep(u)
    BY <1>1
  <2>2. th \in DOMAIN thread /\ u \in DOMAIN thread
    BY DEF TypeOK
  <2>3. CASE thread' = thread
    BY <2>3
  <2>4. CASE thread' # thread
    <3>1. PICK step : /\ thread' = [thread EXCEPT ![u] = step]
                      /\ \/ step = Outside
                         \/ \E m \in Messages : step = Queue(SendTask(m))
                         \/ \E op \in ForeignOps \cap {"shutdown", "forceClose"} : step = Exchange(op)
                         \/ thread[u] = Exchange("shutdown") /\ step = Queue(ShutdownTask)
                         \/ thread[u] = Exchange("forceClose") /\ step = Queue(CloseTask)
                         \/ "stopRead" \in ForeignOps /\ step = Queue(StopReadTask)
                         \/ "startRead" \in ForeignOps /\ step = Queue(StartReadTask)
      <4>1. ASSUME NEW m \in Messages, BeginSend(u, m)
            PROVE  thread' = [thread EXCEPT ![u] = IF state_ = "kConnected" THEN Queue(SendTask(m))
                                                                            ELSE Outside]
        BY <4>1 DEF BeginSend, Continue
      <4>2. CASE BeginShutdown(u)
        BY <2>4, <4>2 DEF BeginShutdown, ForeignCall
      <4>3. CASE BeginForceClose(u)
        BY <4>3 DEF BeginForceClose, ForeignCall, Continue
      <4>4. ASSUME NEW op \in {"stopRead", "startRead"}, BeginReading(u, op)
            PROVE  /\ op \in ForeignOps
                   /\ thread' = [thread EXCEPT ![u] =
                         Queue(IF op = "stopRead" THEN StopReadTask ELSE StartReadTask)]
        BY <4>4 DEF BeginReading, ForeignCall, Continue
      <4>5. CASE DoExchange(u)
        <5> DEFINE step ==
              CASE thread[u] = Exchange("shutdown") /\ state_ = "kConnected" -> Queue(ShutdownTask)
                [] thread[u] = Exchange("forceClose") /\ state_ # "kDisconnected" -> Queue(CloseTask)
                [] OTHER -> Outside
        <5>1. thread' = [thread EXCEPT ![u] = step]
          BY <4>5 DEF DoExchange
        <5>2. \/ step = Outside
              \/ thread[u] = Exchange("shutdown") /\ step = Queue(ShutdownTask)
              \/ thread[u] = Exchange("forceClose") /\ step = Queue(CloseTask)
          OBVIOUS
        <5> HIDE DEF step
        <5>3. QED
          BY <5>1, <5>2
      <4>6. CASE QueueTask(u)
        BY <4>6 DEF QueueTask
      <4>7. QED
        BY <2>1, <4>1, <4>2, <4>3, <4>4, <4>5, <4>6 DEF ForeignStep
    <3>2. CASE u = th
      BY <2>2, <3>1, <3>2
    <3>3. CASE u # th
      BY <2>2, <3>1, <3>3
    <3>4. QED
      BY <3>2, <3>3
  <2>5. QED
    BY <2>3, <2>4
<1>2. CASE ~\E u \in Threads : ForeignStep(u)
  <2>1. thread' = thread
    BY <1>2 DEF Next, ConnectEstablished, Poll, PollReturns, PeerCloses, PeerResets, HandlerStep,
               HandleEvent, CloseTest, ErrorTest, ReadTest, WriteTest, RunTask, OwnStep, OwnSend,
               OwnShutdown, OwnForceClose, OwnStopRead, OwnStartRead, Destroy, Release, program, vars
  <2>2. QED
    BY <2>1
<1>3. QED
  BY <1>1, <1>2

\* The handlers and calls queue callbacks, the program forceClose(), and the others what they began.
LEMMA NewTasks ==
  ASSUME TypeOK, CallsFollowConnect, [Next]_vars, NEW i \in DOMAIN tasks'
  PROVE  \/ tasks'[i] \in {WriteComplete, HighWater, CloseTask}
         \/ \E j \in DOMAIN tasks : tasks[j] = tasks'[i]
         \/ \E th \in Threads : thread[th] = Queue(tasks'[i])
<1>1. /\ ConnectionTypeOK /\ tasks \in Seq(AllTasks)
      /\ WriteResults \subseteq 0 .. Len(outputBuffer_)
  BY TypeOKSplit, LenProperties DEF ConnectionTypeOK, WriteResults
<1>2. CallbacksAfter(tasks, tasks)
  BY DEF CallbacksAfter
<1>3. CASE CallbacksAfter(tasks', tasks)
  BY <1>3 DEF CallbacksAfter
<1>4. CASE UNCHANGED connection \/ \E where : Abort(where)
  BY <1>3, <1>4, SameQueue DEF connection, Abort
<1>5. CASE failed = "none" /\ HandlerStep
  <2>1. CASE HandleClose(tasks)
    BY <1>1, <1>3, <1>5, <2>1, SameQueue, HandleCloseTyped
  <2>2. CASE \E result : HandleRead(result)
    BY <1>1, <1>3, <1>5, <2>2, SameQueue, HandleReadTyped
  <2>3. CASE \E n \in WriteResults : HandleWrite(n)
    BY <1>1, <1>3, <1>5, <2>3, HandleWriteTyped
  <2>4. QED
    BY <1>4, <1>5, <2>1, <2>2, <2>3
       DEF HandlerStep, HandleEvent, CloseTest, ErrorTest, ReadTest, WriteTest
<1>6. CASE failed = "none" /\ RunTask
  <2> DEFINE queue == Tail(tasks)
  <2>1. queue \in Seq(AllTasks) /\ CallbacksAfter(queue, tasks) /\ CallbacksAfter(queue, queue)
    BY <1>1, <1>6, MemberTail DEF RunTask, CallbacksAfter
  <2> HIDE DEF queue
  <2>2. CASE tasks' = queue
    BY <1>3, <2>1, <2>2
  <2>3. CASE \E m \in Messages : SendInLoop(m, queue)
    <3>1. CallbacksAfter(tasks', queue) \/ tasks' = tasks
      BY <1>1, <1>6, <2>1, <2>3, SendInLoopTyped
    <3>2. CallbacksAfter(tasks', tasks)
      BY <1>2, <2>1, <3>1 DEF CallbacksAfter
    <3>3. QED
      BY <1>3, <3>2
  <2>4. CASE HandleClose(queue)
    BY <1>1, <1>2, <1>3, <1>6, <2>1, <2>4, HandleCloseTyped
  <2>5. QED
    BY <1>4, <1>6, <2>2, <2>3, <2>4
       DEF RunTask, ForceCloseInLoop, StopReadInLoop, StartReadInLoop, Nothing, queue
<1>7. CASE failed = "none" /\ OwnStep
  <2>1. CASE \E m \in Messages : SendInLoop(m, tasks)
    BY <1>1, <1>2, <1>3, <1>7, <2>1, SendInLoopTyped
  <2>2. CASE OwnForceClose
    <3>1. tasks' = Append(tasks, CloseTask) /\ CloseTask \in AllTasks
      BY <2>2 DEF OwnForceClose, AllTasks, OwningTasks
    <3>2. QED
      BY <1>1, <3>1, MemberAppend
  <2>3. CASE tasks' = tasks
    BY <1>3, <2>3, SameQueue
  <2>4. QED
    BY <1>4, <1>7, <2>1, <2>2, <2>3
       DEF OwnStep, OwnSend, OwnShutdown, OwnStopRead, OwnStartRead, StopReadInLoop, StartReadInLoop
<1>8. ASSUME NEW th \in Threads, QueueTask(th)
      PROVE  (\E j \in DOMAIN tasks : tasks[j] = tasks'[i]) \/ thread[th] = Queue(tasks'[i])
  <2>1. PICK t \in AllTasks : thread[th] = Queue(t) /\ tasks' = Append(tasks, t)
    BY <1>8 DEF QueueTask
  <2>2. tasks'[i] = t \/ \E j \in DOMAIN tasks : tasks[j] = tasks'[i]
    BY <1>1, <2>1, MemberAppend
  <2>3. QED
    BY <2>1, <2>2
<1>9. CASE tasks' = tasks
  BY <1>3, <1>9, SameQueue
<1>10. QED
  BY <1>4, <1>5, <1>6, <1>7, <1>8, <1>9
     DEF Next, ConnectEstablished, Poll, PollReturns, PeerCloses, PeerResets, Destroy, Release,
         ForeignStep, BeginSend, BeginShutdown, BeginForceClose, BeginReading, DoExchange, Continue,
         connection, vars
-----------------------------------------------------------------------------
(* Closing for good, and the half-close.                                   *)

\* Only the loop thread, and the peer, close the connection.
ClosersOwn == ForeignOps \cap {"shutdown", "forceClose"} = {}

NoExchange == \A th \in Threads : \A op \in {"shutdown", "forceClose"} : thread[th] # Exchange(op)

LEMMA NoExchangeStep ==
  ASSUME ClosersOwn, TypeOK, NoExchange, [Next]_vars
  PROVE  NoExchange'
<1>1. ASSUME NEW th \in Threads, NEW op \in {"shutdown", "forceClose"}
      PROVE  thread'[th] # Exchange(op)
  BY NewSteps, StepsDiffer DEF ClosersOwn, NoExchange
<1>2. QED
  BY <1>1 DEF NoExchange

\* Of all that changes state_, only an exchange on another thread does not look at it first.
LEMMA ClosedStep ==
  ASSUME NoExchange, [Next]_vars, state_ = "kDisconnected"
  PROVE  state_' = "kDisconnected"
<1>1. \A th \in Threads : ~DoExchange(th)
  BY DEF DoExchange, NoExchange
<1>2. QED
  BY <1>1
     DEF Next, ConnectEstablished, Poll, PollReturns, PeerCloses, PeerResets, HandlerStep,
         HandleEvent, CloseTest, ErrorTest, ReadTest, WriteTest, HandleClose, HandleRead,
         HandleWrite, RunTask, SendInLoop, ForceCloseInLoop, StopReadInLoop, StartReadInLoop,
         Nothing, Abort, OwnStep, OwnSend, OwnShutdown, OwnForceClose, MayForceClose, OwnStopRead,
         OwnStartRead, ForeignStep, BeginSend, BeginShutdown, BeginForceClose, BeginReading,
         QueueTask, Continue, Destroy, Release, connection, vars

(***************************************************************************)
(* Where only the loop thread closes, a closed connection stays closed,    *)
(* whatever callback or task still refers to it.                           *)
(***************************************************************************)
THEOREM ClosedForGood == ASSUME ClosersOwn PROVE Spec => ClosedIsFinal
<1>1. Init => NoExchange
  BY StepsDiffer DEF Init, NoExchange
<1>2. TypeOK /\ NoExchange /\ [Next]_vars => NoExchange'
  BY NoExchangeStep
<1>3. NoExchange /\ [Next]_vars => [state_ = "kDisconnected" => state_' = "kDisconnected"]_vars
  BY ClosedStep
<1>4. QED
  BY <1>1, <1>2, <1>3, TypeCorrect, PTL DEF Spec, ClosedIsFinal

\* Only the loop thread half-closes.
ShutdownOwn == "shutdown" \notin ForeignOps

\* So no shutdownInLoop() is queued, ...
NoShutdownQueued ==
  /\ \A i \in DOMAIN tasks : tasks[i] # ShutdownTask
  /\ \A th \in Threads : thread[th] \notin {Exchange("shutdown"), Queue(ShutdownTask)}

\* ... and as long as shutdown() may find the connection connected, output awaits a write event.
OutputAwaited ==
  state_ \in {"kConnecting", "kConnected"} /\ outputBuffer_ # <<>> => isWriting

LEMMA NoShutdownStep ==
  ASSUME ShutdownOwn, TypeOK, CallsFollowConnect, NoShutdownQueued, [Next]_vars
  PROVE  NoShutdownQueued'
<1>1. ShutdownTask \notin {WriteComplete, HighWater, CloseTask, StopReadTask, StartReadTask}
        /\ \A m \in Messages : ShutdownTask # SendTask(m)
  BY DEF SendTask, ShutdownTask, CloseTask, WriteComplete, HighWater, StopReadTask, StartReadTask
<1>2. ASSUME NEW th \in Threads
      PROVE  thread'[th] \notin {Exchange("shutdown"), Queue(ShutdownTask)}
  BY <1>1, NewSteps, StepsDiffer DEF ShutdownOwn, NoShutdownQueued
<1>3. ASSUME NEW i \in DOMAIN tasks'
      PROVE  tasks'[i] # ShutdownTask
  BY <1>1, NewTasks DEF NoShutdownQueued
<1>4. QED
  BY <1>2, <1>3 DEF NoShutdownQueued

LEMMA OutputAwaitedStep ==
  ASSUME ConnectionTypeOK, OutputAwaited, [Next]_vars
  PROVE  OutputAwaited'
<1>1. CASE UNCHANGED <<channelVars, outputBuffer_>> /\ (state_' = state_ \/ state_' = "kDisconnecting")
  BY <1>1 DEF OutputAwaited, channelVars, isWriting
<1>2. CASE state_' \in {"kDisconnecting", "kDisconnected"}
  BY <1>2 DEF OutputAwaited
<1>3. CASE UNCHANGED connection \/ \E where : Abort(where)
  BY <1>1, <1>3 DEF connection, Abort
<1>4. CASE \E queue : HandleClose(queue)
  BY <1>2, <1>3, <1>4 DEF HandleClose
<1>5. ASSUME NEW queue, StopReadInLoop(queue) \/ StartReadInLoop(queue)
      PROVE  OutputAwaited'
  BY <1>5 DEF StopReadInLoop, StartReadInLoop, EnableRead, DisableRead, Update, OutputAwaited,
              channelVars, isWriting
<1>6. ASSUME NEW n, HandleWrite(n)
      PROVE  OutputAwaited'
  <2>1. CASE state_ # "kDisconnected" /\ outputBuffer_ # <<>> /\ isWriting /\ n = Len(outputBuffer_)
    <3>1. outputBuffer_' = SubSeq(outputBuffer_, n + 1, n) /\ n \in Nat
      BY <1>6, <2>1, LenProperties DEF HandleWrite, ConnectionTypeOK
    <3>2. outputBuffer_' = <<>>
      BY <3>1
    <3>3. QED
      BY <3>2 DEF OutputAwaited
  <2>2. CASE state_ # "kDisconnected" /\ outputBuffer_ # <<>> /\ isWriting /\ n # Len(outputBuffer_)
    BY <1>6, <2>2 DEF HandleWrite, OutputAwaited, channelVars, isWriting
  <2>3. QED
    BY <1>3, <1>6, <2>1, <2>2 DEF HandleWrite
<1>7. ASSUME NEW m \in Messages, NEW queue, SendInLoop(m, queue)
      PROVE  OutputAwaited'
  <2>1. CASE state_ # "kDisconnected" /\ (isWriting \/ outputBuffer_ = <<>>)
    <3>1. PICK remain : /\ outputBuffer_' = outputBuffer_ \o remain /\ AwaitWritable(remain)
                        /\ state_' = state_
      BY <1>7, <2>1 DEF SendInLoop
    <3>2. CASE remain # <<>>
      BY <3>1, <3>2 DEF AwaitWritable, EnableWrite, Update, OutputAwaited, isWriting
    <3>3. CASE remain = <<>>
      BY <3>1, <3>3, <2>1, ConcatEmptySeq
         DEF ConnectionTypeOK, AwaitWritable, OutputAwaited, channelVars, isWriting
    <3>4. QED
      BY <3>2, <3>3
  <2>2. QED
    BY <1>1, <1>3, <1>7, <2>1 DEF SendInLoop, Nothing
<1>8. CASE ConnectEstablished
  BY <1>8 DEF ConnectEstablished, EnableRead, Update, OutputAwaited, isWriting
<1>9. CASE OwnShutdown \/ OwnForceClose
  BY <1>2, <1>9 DEF OwnShutdown, OwnForceClose
<1>10. ASSUME NEW th \in Threads, ForeignStep(th)
       PROVE  OutputAwaited'
  BY <1>1, <1>3, <1>10 DEF ForeignStep, BeginSend, BeginShutdown, BeginForceClose, BeginReading,
                     DoExchange, QueueTask, Continue
<1>11. CASE HandlerStep
  BY <1>3, <1>4, <1>6, <1>11
     DEF HandlerStep, HandleEvent, CloseTest, ErrorTest, ReadTest, WriteTest, HandleRead
<1>12. CASE RunTask
  BY <1>1, <1>3, <1>4, <1>5, <1>7, <1>12 DEF RunTask, ForceCloseInLoop, Nothing
<1>13. CASE OwnStep
  BY <1>3, <1>5, <1>7, <1>9, <1>13 DEF OwnStep, OwnSend, OwnStopRead, OwnStartRead
<1>14. QED
  BY <1>3, <1>8, <1>10, <1>11, <1>12, <1>13
     DEF Next, Poll, PollReturns, PeerCloses, PeerResets, Destroy, Release, vars

\* At its end, too, the output is with the kernel.
LEMMA HandleWriteFin ==
  ASSUME ConnectionTypeOK, StreamIntact, NEW n, HandleWrite(n), shutWr' # shutWr
  PROVE  wire' = stream' \/ peer = "rst"
<1>1. /\ n = Len(outputBuffer_) /\ ~shutWr
      /\ wire' = wire \o SubSeq(outputBuffer_, 1, n) /\ stream' = stream
  BY DEF HandleWrite, AllWritten, Abort, connection, ConnectionTypeOK
<1>2. wire' = wire \o outputBuffer_
  BY <1>1, SubSeqFull DEF ConnectionTypeOK
<1>3. QED
  BY <1>1, <1>2 DEF StreamIntact, Broken

LEMMA FinStep ==
  ASSUME TypeOK, NoShutdownQueued, OutputAwaited, StreamIntact, [Next]_vars, shutWr' # shutWr
  PROVE  wire' = stream' \/ peer = "rst"
<1>1. ConnectionTypeOK
  BY TypeOKSplit
<1>2. ~UNCHANGED connection /\ ~(\E where : Abort(where))
  BY DEF connection, Abort
<1>3. /\ \A queue : ~HandleClose(queue) /\ ~StopReadInLoop(queue) /\ ~StartReadInLoop(queue)
                    /\ ~ForceCloseInLoop(queue) /\ ~Nothing(queue)
      /\ \A result : ~HandleRead(result)
  BY OtherHandlersStream
<1>4. \A m \in Messages : \A queue : ~SendInLoop(m, queue)
  BY <1>2, <1>3 DEF SendInLoop
<1>5. CASE HandlerStep
  <2>1. PICK n : HandleWrite(n)
    BY <1>2, <1>3, <1>5
       DEF HandlerStep, HandleEvent, CloseTest, ErrorTest, ReadTest, WriteTest
  <2>2. QED
    BY <1>1, <2>1, HandleWriteFin
<1>6. ~RunTask
  <2>1. SUFFICES ASSUME RunTask PROVE FALSE
    OBVIOUS
  <2>2. Head(tasks) # ShutdownTask
    BY <1>1, <2>1, MemberTail DEF RunTask, ConnectionTypeOK, NoShutdownQueued
  <2>3. QED
    BY <1>2, <1>3, <1>4, <2>1, <2>2 DEF RunTask
<1>7. CASE OwnStep
  <2>1. OwnShutdown
    BY <1>2, <1>3, <1>4, <1>7 DEF OwnStep, OwnSend, OwnForceClose, OwnStopRead, OwnStartRead
  <2>2. /\ state_ = "kConnected" /\ ~shutWr /\ ~isWriting
        /\ UNCHANGED <<wire, stream>>
    BY <1>1, <2>1 DEF OwnShutdown, ShutdownInLoop, ConnectionTypeOK
  <2>3. peer # "rst" => wire \o <<>> = stream
    BY <2>2 DEF OutputAwaited, StreamIntact, Broken
  <2>4. QED
    BY <1>1, <2>2, <2>3, ConcatEmptySeq DEF ConnectionTypeOK
<1>8. ~ConnectEstablished /\ ~Poll /\ ~PeerCloses /\ ~PeerResets /\ ~Destroy
  BY <1>2 DEF ConnectEstablished, Poll, PollReturns, PeerCloses, PeerResets, Destroy
<1>9. (\A th \in Threads : ~ForeignStep(th)) /\ (\A u \in Users : ~Release(u))
  BY <1>2 DEF ForeignStep, BeginSend, BeginShutdown, BeginForceClose, BeginReading, DoExchange,
              QueueTask, Continue, Release
<1>10. QED
  BY <1>2, <1>5, <1>6, <1>7, <1>8, <1>9 DEF Next, vars

(***************************************************************************)
(* Where only the loop thread calls shutdown(), the FIN never overtakes    *)
(* data, whoever else closes, stops or starts reading: the step that shuts *)
(* down the write direction finds everything sendInLoop() accepted taken   *)
(* by the kernel, unless the peer has reset the connection.                *)
(***************************************************************************)
THEOREM FinBehindData == ASSUME ShutdownOwn PROVE Spec => FinAfterData
<1>1. Init => NoShutdownQueued /\ OutputAwaited
  BY StepsDiffer DEF Init, NoShutdownQueued, OutputAwaited
<1>2. TypeOK /\ CallsFollowConnect /\ NoShutdownQueued /\ OutputAwaited /\ [Next]_vars
        => (NoShutdownQueued /\ OutputAwaited)'
  BY NoShutdownStep, OutputAwaitedStep, TypeOKSplit
<1>3. TypeOK /\ NoShutdownQueued /\ OutputAwaited /\ StreamIntact /\ [Next]_vars
        => [shutWr' # shutWr => wire' = stream' \/ peer = "rst"]_vars
  BY FinStep
<1>4. QED
  BY <1>1, <1>2, <1>3, TypesInductive, StreamAlwaysIntact, PTL DEF Spec, FinAfterData
-----------------------------------------------------------------------------
(***************************************************************************)
(* The channel, when only the loop thread closes the connection and nobody *)
(* calls startRead(), which would register a closed socket again.          *)
(***************************************************************************)
NobodyRestarts == ClosersOwn /\ "startRead" \notin ForeignOps \cup OwnOps

ChannelInv ==
  /\ polling <=> Open
  /\ polling <=> events_ # {}
  /\ Open => "PRI" \in events_
  /\ inServer <=> state_ # "kDisconnected"
  /\ WritingIffBuffered
  /\ state_ = "kConnecting" => outputBuffer_ = <<>>

NoStartQueued ==
  /\ \A i \in DOMAIN tasks : tasks[i] # StartReadTask
  /\ \A th \in Threads : thread[th] # Queue(StartReadTask)

\* A step that leaves the channel alone, and the connection open or not.
LEMMA ChannelUntouched ==
  ASSUME ChannelInv, UNCHANGED <<channelVars, outputBuffer_, inServer>>,
         state_' = state_ \/ (Open /\ state_' = "kDisconnecting")
  PROVE  ChannelInv'
BY DEF channelVars, ChannelInv, Open, WritingIffBuffered, isWriting

\* The handlers, some of which fail an assertion when the connection is not open.
LEMMA HandleCloseChannel ==
  ASSUME ConnectionTypeOK, ChannelInv, NEW queue, HandleClose(queue)
  PROVE  /\ ChannelInv'
         /\ Open => state_' = "kDisconnected" /\ tasks' = queue /\ failed' = failed
<1>1. CASE Open
  BY <1>1 DEF HandleClose, RemoveChannel, DisableAll, Update, UpdateAborts, ConnectionTypeOK,
              ChannelTypeOK, EventMasks, ChannelInv, Open, WritingIffBuffered, isWriting
<1>2. CASE ~Open
  BY <1>2, ChannelUntouched DEF HandleClose, Abort, Open
<1>3. QED
  BY <1>1, <1>2

LEMMA StopReadChannel ==
  ASSUME ConnectionTypeOK, ChannelInv, NEW queue, StopReadInLoop(queue)
  PROVE  /\ ChannelInv' /\ tasks' = queue /\ isWriting' = isWriting
         /\ UNCHANGED <<state_, shutWr, failed>>
<1>1. CASE isReading
  BY <1>1 DEF StopReadInLoop, DisableRead, Update, ConnectionTypeOK, ChannelTypeOK, EventMasks,
       ChannelInv, Open, WritingIffBuffered, isWriting, isReading
<1>2. CASE ~isReading
  BY <1>2 DEF StopReadInLoop, channelVars, ChannelInv, Open, WritingIffBuffered, isWriting
<1>3. QED
  BY <1>1, <1>2

LEMMA SendInLoopChannel ==
  ASSUME ConnectionTypeOK, ChannelInv, state_ # "kConnecting", NEW m \in Messages,
         NEW queue, SendInLoop(m, queue)
  PROVE  /\ ChannelInv' /\ (isWriting => isWriting') /\ (isReading => isReading')
         /\ UNCHANGED <<state_, shutWr, failed>>
<1>1. CASE state_ = "kDisconnected"
  BY <1>1 DEF SendInLoop, Nothing, channelVars, ChannelInv, Open, WritingIffBuffered,
              isWriting, isReading
<1>2. CASE state_ # "kDisconnected"
  <2> DEFINE fault == Direct /\ Broken
  <2>1. Open /\ (isWriting <=> outputBuffer_ # <<>>)
    BY <1>2 DEF ConnectionTypeOK, States, Open, ChannelInv, WritingIffBuffered
  <2>2. PICK n \in IF Direct /\ ~Broken THEN 0 .. MsgLen ELSE {0} :
         LET remain == IF fault THEN <<>> ELSE SubSeq(UnitsOf(m), n + 1, MsgLen)
         IN /\ outputBuffer_' = outputBuffer_ \o remain
            /\ AwaitWritable(remain)
            /\ UNCHANGED <<state_, shutWr, inServer, failed>>
    BY <1>2, <2>1 DEF SendInLoop
  <2> DEFINE remain == IF fault THEN <<>> ELSE SubSeq(UnitsOf(m), n + 1, MsgLen)
  <2>3. remain \in Seq(Units) /\ outputBuffer_ \in Seq(Units)
    <3>1. n \in 0 .. MsgLen
      BY TcpConnectionAssumption
    <3>2. SubSeq(UnitsOf(m), n + 1, MsgLen) \in Seq(Units)
      BY <3>1, UnitsOfTyped, CutTyped
    <3>3. QED
      BY <3>2, EmptySeq DEF ConnectionTypeOK
  <2>4. /\ outputBuffer_' = outputBuffer_ \o remain
        /\ AwaitWritable(remain)
        /\ UNCHANGED <<state_, shutWr, inServer, failed>>
    BY <2>2
  <2> HIDE DEF remain
  <2>5. CASE remain = <<>>
    <3>1. outputBuffer_' = outputBuffer_
      BY <2>3, <2>4, <2>5, ConcatEmptySeq
    <3>2. QED
      BY <2>1, <2>4, <2>5, <3>1
         DEF AwaitWritable, channelVars, ChannelInv, Open, WritingIffBuffered, isWriting,
             isReading
  <2>6. CASE remain # <<>>
    <3>1. outputBuffer_' # <<>>
      BY <2>3, <2>4, <2>6, ConcatProperties, EmptySeq
    <3>2. QED
      BY <2>1, <2>4, <2>6, <3>1
         DEF AwaitWritable, EnableWrite, Update, ChannelInv, Open, WritingIffBuffered,
             isWriting, isReading
  <2>7. QED
    BY <2>5, <2>6
<1>3. QED
  BY <1>1, <1>2

LEMMA HandleWriteChannel ==
  ASSUME ConnectionTypeOK, ChannelInv, state_ # "kConnecting",
         NEW n \in 0 .. Len(outputBuffer_), HandleWrite(n)
  PROVE  /\ ChannelInv' /\ state_' = state_ /\ (isReading => isReading')
         /\ (Open => isWriting) => failed' = failed
<1>1. CASE state_ = "kDisconnected"
  BY <1>1 DEF HandleWrite, connection, channelVars, ChannelInv, Open, WritingIffBuffered,
              isWriting, isReading
<1>2. CASE state_ # "kDisconnected" /\ isWriting
  <2>1. Open /\ isWriting /\ outputBuffer_ # <<>> /\ outputBuffer_ \in Seq(Units)
    BY <1>2 DEF ConnectionTypeOK, States, Open, ChannelInv, WritingIffBuffered
  <2>2. /\ outputBuffer_' = SubSeq(outputBuffer_, n + 1, Len(outputBuffer_))
        /\ IF n = Len(outputBuffer_) THEN AllWritten ELSE UNCHANGED <<channelVars, shutWr>>
        /\ UNCHANGED <<state_, inServer, failed>>
    BY <1>2, <2>1 DEF HandleWrite
  <2>3. Len(outputBuffer_') = Len(outputBuffer_) - n /\ outputBuffer_' \in Seq(Units)
    BY <2>1, <2>2, CutTyped
  <2>4. outputBuffer_' = <<>> <=> n = Len(outputBuffer_)
    BY <2>1, <2>3, EmptySeq, LenProperties
  <2>5. CASE n = Len(outputBuffer_)
    <3>1. /\ events_' = events_ \ {"OUT"}
          /\ polling' = (events_ \ {"OUT"} # {})
          /\ outputBuffer_' = <<>>
      BY <2>2, <2>4, <2>5 DEF AllWritten, DisableWrite, Update
    <3>2. "PRI" \in events_' /\ ~isWriting' /\ (isReading => isReading')
      BY <2>1, <3>1 DEF ChannelInv, isWriting, isReading
    <3>3. polling' /\ events_' # {}
      BY <3>1, <3>2
    <3>4. QED
      BY <2>1, <2>2, <3>1, <3>2, <3>3 DEF ChannelInv, Open, WritingIffBuffered
  <2>6. CASE n # Len(outputBuffer_)
    BY <2>1, <2>2, <2>4, <2>6
       DEF channelVars, ChannelInv, Open, WritingIffBuffered, isWriting, isReading
  <2>7. QED
    BY <2>5, <2>6
<1>3. CASE state_ # "kDisconnected" /\ ~isWriting
  <2>1. Open /\ Abort("handleWrite")
    BY <1>3 DEF HandleWrite, ConnectionTypeOK, States, Open
  <2>2. QED
    BY <1>3, <2>1, ChannelUntouched DEF Abort, channelVars, isReading
<1>4. QED
  BY <1>1, <1>2, <1>3

LEMMA OpenOrClosed ==
  ASSUME TypeOK, CallsFollowConnect,
         pc # "idle" \/ tasks # <<>> \/ holders # {} \/ \E th \in Threads : thread[th] # Outside
  PROVE  state_ # "kConnecting" /\ (Open <=> state_ # "kDisconnected")
BY DEF CallsFollowConnect, TypeOK, States, Open

LEMMA NoStartStep ==
  ASSUME NobodyRestarts, TypeOK, CallsFollowConnect, NoStartQueued, [Next]_vars
  PROVE  NoStartQueued'
<1>1. StartReadTask \notin {WriteComplete, HighWater, CloseTask, StopReadTask, ShutdownTask}
        /\ \A m \in Messages : StartReadTask # SendTask(m)
  BY DEF SendTask, ShutdownTask, CloseTask, WriteComplete, HighWater, StopReadTask, StartReadTask
<1>2. ASSUME NEW th \in Threads
      PROVE  thread'[th] # Queue(StartReadTask)
  BY <1>1, NewSteps, StepsDiffer DEF NobodyRestarts, NoStartQueued
<1>3. ASSUME NEW i \in DOMAIN tasks'
      PROVE  tasks'[i] # StartReadTask
  BY <1>1, NewTasks DEF NoStartQueued
<1>4. QED
  BY <1>2, <1>3 DEF NoStartQueued

LEMMA ChannelStep ==
  ASSUME NobodyRestarts, TypeOK, CallsFollowConnect, NoExchange, NoStartQueued, ChannelInv,
         [Next]_vars
  PROVE  ChannelInv'
<1>1. ConnectionTypeOK /\ WriteResults \subseteq 0 .. Len(outputBuffer_)
  BY TypeOKSplit, LenProperties DEF ConnectionTypeOK, WriteResults
<1>2. CASE UNCHANGED connection \/ (\E where : Abort(where)) \/ \E queue : Nothing(queue)
  BY <1>2, ChannelUntouched DEF connection, Abort, Nothing
<1>3. CASE ConnectEstablished
  <2>1. /\ state_' = "kConnected" /\ events_ = {} /\ outputBuffer_ = <<>> /\ inServer
        /\ events_' = {"IN", "PRI"} /\ polling'
        /\ UNCHANGED <<outputBuffer_, inServer>>
    BY <1>3 DEF ConnectEstablished, EnableRead, Update, ChannelInv, Open
  <2>2. QED
    BY <2>1 DEF ChannelInv, Open, WritingIffBuffered, isWriting
<1>4. CASE HandlerStep
  <2>1. state_ # "kConnecting"
    BY <1>4, OpenOrClosed
       DEF HandlerStep, HandleEvent, CloseTest, ErrorTest, ReadTest, WriteTest
  <2>2. CASE \E n \in WriteResults : HandleWrite(n)
    BY <1>1, <2>1, <2>2, HandleWriteChannel
  <2>3. CASE HandleClose(tasks)
    BY <1>1, <2>3, HandleCloseChannel
  <2>4. QED
    BY <1>2, <1>4, <2>2, <2>3
       DEF HandlerStep, HandleEvent, CloseTest, ErrorTest, ReadTest, WriteTest, HandleRead
<1>5. CASE RunTask
  <2> DEFINE queue == Tail(tasks)
  <2>1. state_ # "kConnecting"
    BY <1>5, OpenOrClosed DEF RunTask
  <2>2. Head(tasks) # StartReadTask
    BY <1>1, <1>5, MemberTail DEF RunTask, ConnectionTypeOK, NoStartQueued
  <2> HIDE DEF queue
  <2>3. CASE \E m \in Messages : SendInLoop(m, queue)
    BY <1>1, <2>1, <2>3, SendInLoopChannel
  <2>4. CASE UNCHANGED <<state_, channelVars, outputBuffer_, inServer>>
    BY <2>4, ChannelUntouched
  <2>5. CASE HandleClose(queue)
    BY <1>1, <2>5, HandleCloseChannel
  <2>6. CASE StopReadInLoop(queue)
    BY <1>1, <2>6, StopReadChannel
  <2>7. QED
    BY <1>2, <1>5, <2>2, <2>3, <2>4, <2>5, <2>6 DEF RunTask, ForceCloseInLoop, queue
<1>6. CASE OwnStep
  <2>1. state_ # "kConnecting" /\ (Open <=> state_ # "kDisconnected")
    BY <1>6, OpenOrClosed
       DEF OwnStep, OwnSend, OwnShutdown, OwnForceClose, OwnStopRead, OwnStartRead, OwnCall
  <2>2. CASE \E m \in Messages : SendInLoop(m, tasks)
    BY <1>1, <2>1, <2>2, SendInLoopChannel
  <2>3. CASE OwnShutdown \/ OwnForceClose
    BY <2>1, <2>3, ChannelUntouched DEF OwnShutdown, OwnForceClose, MayForceClose
  <2>4. CASE StopReadInLoop(tasks)
    BY <1>1, <2>4, StopReadChannel
  <2>5. ~OwnStartRead
    BY DEF OwnStartRead, OwnCall, NobodyRestarts
  <2>6. QED
    BY <1>2, <1>6, <2>2, <2>3, <2>4, <2>5 DEF OwnStep, OwnSend, OwnStopRead
<1>7. ASSUME NEW th \in Threads, ForeignStep(th)
      PROVE  ChannelInv'
  <2>1. ~DoExchange(th)
    BY DEF DoExchange, NoExchange
  <2>2. CASE QueueTask(th)
    BY <2>2, ChannelUntouched DEF QueueTask
  <2>3. QED
    BY <1>2, <1>7, <2>1, <2>2
       DEF ForeignStep, BeginSend, BeginShutdown, BeginForceClose, BeginReading, Continue
<1>8. QED
  BY <1>2, <1>3, <1>4, <1>5, <1>6, <1>7
     DEF Next, Poll, PollReturns, PeerCloses, PeerResets, Destroy, Release, vars

LEMMA ChannelInductive == ASSUME NobodyRestarts PROVE Spec => []ChannelInv
<1>1. Init => NoExchange /\ NoStartQueued /\ ChannelInv
  BY StepsDiffer DEF Init, ChannelInit, NoExchange, NoStartQueued, ChannelInv, Open,
                     WritingIffBuffered
<1>2. TypeOK /\ CallsFollowConnect /\ NoExchange /\ NoStartQueued /\ ChannelInv /\ [Next]_vars
        => (NoExchange /\ NoStartQueued /\ ChannelInv)'
  BY NoExchangeStep, NoStartStep, ChannelStep DEF NobodyRestarts
<1>3. QED
  BY <1>1, <1>2, TypesInductive, PTL DEF Spec

(***************************************************************************)
(* Where only the loop thread closes and nobody calls startRead(), the     *)
(* socket is in the epoll set exactly while the connection is open, the    *)
(* server owns it for as long, and write interest and buffered output come *)
(* and go together; even where an assertion then fails.                    *)
(***************************************************************************)
THEOREM ChannelAlwaysFollows == ASSUME NobodyRestarts PROVE Spec => []ChannelFollowsState
<1>1. TypeOK /\ ChannelInv => ChannelFollowsState
  BY DEF ChannelInv, ChannelFollowsState, RegisteredWhileOpen, Open
<1>2. QED
  BY <1>1, ChannelInductive, TypeCorrect, PTL

-----------------------------------------------------------------------------
(***************************************************************************)
(* The assertions, when moreover other threads only send and the peer      *)
(* sends no urgent data, or nobody calls stopRead(): EPOLLHUP with         *)
(* EPOLLPRI but without EPOLLIN is taken for a close and then for input.   *)
(***************************************************************************)
OwnedUse ==
  /\ ForeignOps \subseteq {"send"}
  /\ "startRead" \notin OwnOps
  /\ "urgent" \notin PeerOps \/ "stopRead" \notin OwnOps

\* What the handlers rely on and keep.
ConnectionInv ==
  /\ ChannelInv
  /\ failed = "none"
  /\ Open => isReading \/ "stopRead" \in OwnOps

\* An event is handled while the connection is open, unless handling it closed it.
HandledWhileOpen ==
  /\ "HUP" \in revents_ /\ "PRI" \in revents_ => "IN" \in revents_
  /\ pc \in {"dispatch", "close"} => Open
  /\ pc \in {"error", "read"} /\ revents_ \cap {"IN", "PRI"} # {} => Open
  /\ Open /\ "OUT" \in revents_ => isWriting

\* Other threads queue messages, and no task has a plain `this'.
OnlySends ==
  /\ \A i \in DOMAIN tasks : tasks[i] \in OwningTasks
  /\ \A th \in Threads : \/ thread[th] = Outside
                         \/ \E m \in Messages : thread[th] = Queue(SendTask(m))

OwnedInv == /\ ConnectionInv /\ HandledWhileOpen /\ OnlySends
            /\ alive \/ state_ = "kDisconnected"

-----------------------------------------------------------------------------
(* The handlers under OwnedUse.                                            *)

LEMMA HandleCloseOwned ==
  ASSUME ConnectionTypeOK, ConnectionInv, Open, NEW queue, HandleClose(queue)
  PROVE  ConnectionInv' /\ state_' = "kDisconnected" /\ tasks' = queue
BY HandleCloseChannel DEF ConnectionInv, Open

LEMMA StopReadOwned ==
  ASSUME ConnectionTypeOK, ConnectionInv, "stopRead" \in OwnOps, NEW queue,
         StopReadInLoop(queue)
  PROVE  ConnectionInv' /\ tasks' = queue /\ isWriting' = isWriting /\ state_' = state_
BY StopReadChannel DEF ConnectionInv

LEMMA SendInLoopOwned ==
  ASSUME ConnectionTypeOK, ConnectionInv, state_ # "kConnecting", NEW m \in Messages,
         NEW queue, SendInLoop(m, queue)
  PROVE  ConnectionInv' /\ (isWriting => isWriting') /\ state_' = state_
BY SendInLoopChannel DEF ConnectionInv, Open

LEMMA HandleWriteOwned ==
  ASSUME ConnectionTypeOK, ConnectionInv, Open => isWriting,
         NEW n \in 0 .. Len(outputBuffer_), HandleWrite(n), state_ # "kConnecting"
  PROVE  ConnectionInv' /\ state_' = state_
BY HandleWriteChannel DEF ConnectionInv, Open

-----------------------------------------------------------------------------
(* The steps under OwnedUse.                                               *)

\* A step that leaves the loop where it is, the connection open and writing.
LEMMA HandledKept ==
  ASSUME HandledWhileOpen, pc' = pc, revents_' = revents_,
         \/ (Open <=> Open') /\ (isWriting => isWriting')
         \/ pc = "idle" /\ revents_ = {}
  PROVE  HandledWhileOpen'
BY DEF HandledWhileOpen

\* Callbacks are harmless tasks.
LEMMA OnlySendsKept ==
  ASSUME OnlySends, CallbacksAfter(tasks', tasks), thread' = thread
  PROVE  OnlySends'
<1>1. WriteComplete \in OwningTasks /\ HighWater \in OwningTasks
  BY DEF OwningTasks
<1>2. QED
  BY <1>1 DEF OnlySends, CallbacksAfter

LEMMA ConnectionUnchanged ==
  ASSUME UNCHANGED connection
  PROVE  /\ ConnectionInv => ConnectionInv'
         /\ UNCHANGED <<state_, tasks, shutWr>> /\ Open' = Open /\ isWriting' = isWriting
         /\ CallbacksAfter(tasks', tasks)
BY SameQueue DEF connection, channelVars, ConnectionInv, ChannelInv, Open, WritingIffBuffered,
                 isWriting, isReading

LEMMA HandlerStepOwned ==
  ASSUME TypeOK, CallsFollowConnect, OwnedInv, HandlerStep
  PROVE  OwnedInv'
<1>1. ConnectionTypeOK /\ RestTypeOK /\ failed = "none" /\ tasks \in Seq(AllTasks)
  BY TypeOKSplit DEF OwnedInv, ConnectionInv, ConnectionTypeOK
<1>2. pc # "idle" /\ thread' = thread /\ alive' = alive
  BY DEF HandlerStep, HandleEvent, CloseTest, ErrorTest, ReadTest, WriteTest, program
<1>3. state_ # "kConnecting" /\ (Open <=> state_ # "kDisconnected")
  BY <1>2, OpenOrClosed
<1>4. ASSUME ConnectionInv', HandledWhileOpen', CallbacksAfter(tasks', tasks),
             state_' \in {state_, "kDisconnected"}
      PROVE  OwnedInv'
  BY <1>2, <1>4, OnlySendsKept DEF OwnedInv
<1>5. CASE HandleEvent
  <2>1. Open /\ alive
    BY <1>3, <1>5 DEF HandleEvent, OwnedInv, HandledWhileOpen
  <2>2. UNCHANGED connection /\ revents_' = revents_ /\ pc' = "close"
    BY <1>5, <2>1 DEF HandleEvent
  <2>3. HandledWhileOpen'
    BY <2>1, <2>2, ConnectionUnchanged DEF OwnedInv, HandledWhileOpen
  <2>4. QED
    BY <1>4, <2>2, <2>3, ConnectionUnchanged DEF OwnedInv
<1>6. CASE CloseTest
  <2>1. Open /\ revents_' = revents_ /\ pc' = "error"
    BY <1>6 DEF CloseTest, OwnedInv, HandledWhileOpen
  <2>2. CASE "HUP" \in revents_ /\ "IN" \notin revents_
    <3>1. ConnectionInv' /\ state_' = "kDisconnected" /\ tasks' = tasks
      BY <1>1, <1>6, <2>1, <2>2, HandleCloseOwned DEF CloseTest, OwnedInv
    <3>2. ~Open'
      BY <3>1 DEF Open
    <3>3. HandledWhileOpen'
      BY <2>1, <2>2, <3>2 DEF OwnedInv, HandledWhileOpen
    <3>4. QED
      BY <1>4, <3>1, <3>3, SameQueue
  <2>3. CASE ~("HUP" \in revents_ /\ "IN" \notin revents_)
    <3>1. UNCHANGED connection
      BY <1>6, <2>3 DEF CloseTest
    <3>2. HandledWhileOpen'
      BY <2>1, <3>1, ConnectionUnchanged DEF OwnedInv, HandledWhileOpen
    <3>3. QED
      BY <1>4, <3>1, <3>2, ConnectionUnchanged DEF OwnedInv
  <2>4. QED
    BY <2>2, <2>3
<1>7. CASE ErrorTest
  <2>1. UNCHANGED connection /\ revents_' = revents_ /\ pc = "error" /\ pc' = "read"
    BY <1>7 DEF ErrorTest
  <2>2. HandledWhileOpen'
    BY <2>1, ConnectionUnchanged DEF OwnedInv, HandledWhileOpen
  <2>3. QED
    BY <1>4, <2>1, <2>2, ConnectionUnchanged DEF OwnedInv
<1>8. ASSUME NEW result \in ReadResults, ReadTest(result)
      PROVE  OwnedInv'
  <2>1. pc = "read" /\ pc' = "write" /\ revents_' = revents_
    BY <1>8 DEF ReadTest
  <2>2. CASE UNCHANGED connection
    <3>1. HandledWhileOpen'
      BY <2>1, <2>2, ConnectionUnchanged DEF OwnedInv, HandledWhileOpen
    <3>2. QED
      BY <1>4, <2>2, <3>1, ConnectionUnchanged DEF OwnedInv
  <2>3. CASE revents_ \cap {"IN", "PRI"} # {} /\ HandleRead(result)
    <3>1. Open
      BY <2>1, <2>3 DEF OwnedInv, HandledWhileOpen
    <3>2. CASE HandleClose(tasks)
      <4>1. ConnectionInv' /\ state_' = "kDisconnected" /\ tasks' = tasks
        BY <1>1, <3>1, <3>2, HandleCloseOwned DEF OwnedInv
      <4>2. ~Open'
        BY <4>1 DEF Open
      <4>3. HandledWhileOpen'
        BY <2>1, <4>2 DEF OwnedInv, HandledWhileOpen
      <4>4. QED
        BY <1>4, <4>1, <4>3, SameQueue
    <3>3. QED
      BY <1>3, <2>2, <2>3, <3>1, <3>2 DEF HandleRead
  <2>4. QED
    BY <1>8, <2>2, <2>3 DEF ReadTest
<1>9. ASSUME NEW n \in WriteResults, WriteTest(n)
      PROVE  OwnedInv'
  <2>1. HandledWhileOpen'
    BY <1>9 DEF WriteTest, HandledWhileOpen
  <2>2. CASE UNCHANGED connection
    BY <1>4, <2>1, <2>2, ConnectionUnchanged DEF OwnedInv
  <2>3. CASE "OUT" \in revents_ /\ HandleWrite(n)
    <3>1. n \in 0 .. Len(outputBuffer_) /\ (Open => isWriting)
      BY <1>1, <2>3, LenProperties
         DEF WriteResults, ConnectionTypeOK, OwnedInv, HandledWhileOpen
    <3>2. ConnectionInv' /\ state_' = state_ /\ CallbacksAfter(tasks', tasks)
      BY <1>1, <1>3, <2>3, <3>1, HandleWriteOwned, HandleWriteTyped DEF OwnedInv
    <3>3. QED
      BY <1>4, <2>1, <3>2
  <2>4. QED
    BY <1>9, <2>2, <2>3 DEF WriteTest
<1>10. QED
  BY <1>5, <1>6, <1>7, <1>8, <1>9 DEF HandlerStep
LEMMA RunTaskOwned ==
  ASSUME TypeOK, CallsFollowConnect, OwnedInv, RunTask
  PROVE  OwnedInv'
<1> DEFINE t == Head(tasks)
           queue == Tail(tasks)
<1>1. /\ ConnectionTypeOK /\ RestTypeOK /\ failed = "none" /\ tasks \in Seq(AllTasks)
      /\ pc = "idle" /\ revents_ = {} /\ tasks # <<>>
      /\ UNCHANGED <<pc, revents_, thread, alive>>
  BY TypeOKSplit
     DEF RunTask, RestTypeOK, loopAt, program, OwnedInv, ConnectionInv, ConnectionTypeOK
<1>2. state_ # "kConnecting" /\ (Open <=> state_ # "kDisconnected")
  BY <1>1, OpenOrClosed
<1>3. /\ queue \in Seq(AllTasks) /\ t \in OwningTasks
      /\ CallbacksAfter(queue, tasks) /\ CallbacksAfter(queue, queue)
  BY <1>1, MemberTail DEF OwnedInv, OnlySends, CallbacksAfter
<1>4. ASSUME ConnectionInv', CallbacksAfter(tasks', queue) \/ tasks' = tasks,
             state_' \in {state_, "kDisconnected"}
      PROVE  OwnedInv'
  <2>1. HandledWhileOpen'
    BY <1>1, HandledKept DEF OwnedInv
  <2>2. CallbacksAfter(tasks', tasks)
    BY <1>3, <1>4 DEF CallbacksAfter
  <2>3. OnlySends'
    BY <1>1, <2>2, OnlySendsKept DEF OwnedInv
  <2>4. QED
    BY <1>1, <1>4, <2>1, <2>3 DEF OwnedInv
<1> HIDE DEF t, queue
<1>5. t # StopReadTask /\ t # StartReadTask
  BY <1>3 DEF OwningTasks, SendTask, ShutdownTask, CloseTask, WriteComplete, HighWater,
              StopReadTask, StartReadTask
<1>6. \/ \E m \in Messages : t = SendTask(m) /\ SendInLoop(m, queue)
      \/ /\ ShutdownInLoop(state_)
         /\ tasks' = queue
         /\ UNCHANGED <<state_, channelVars, outputBuffer_, wire, inServer, stream, failed>>
      \/ ForceCloseInLoop(queue)
      \/ Nothing(queue)
  BY <1>3, <1>5 DEF RunTask, t, queue
<1>7. ASSUME NEW m \in Messages, SendInLoop(m, queue)
      PROVE  OwnedInv'
  <2>1. ConnectionInv' /\ state_' = state_
    BY <1>1, <1>2, <1>7, SendInLoopOwned DEF OwnedInv
  <2>2. CallbacksAfter(tasks', queue) \/ tasks' = tasks
    BY <1>1, <1>3, <1>7, SendInLoopTyped
  <2>3. QED
    BY <1>4, <2>1, <2>2
<1>8. CASE Nothing(queue) \/ /\ ShutdownInLoop(state_)
                             /\ tasks' = queue
                             /\ UNCHANGED <<state_, channelVars, outputBuffer_, wire, inServer,
                                            stream, failed>>
  <2>1. ConnectionInv' /\ state_' = state_ /\ tasks' = queue
    BY <1>8 DEF Nothing, channelVars, OwnedInv, ConnectionInv, ChannelInv, Open,
                WritingIffBuffered, isWriting,
                isReading
  <2>2. QED
    BY <1>3, <1>4, <2>1
<1>9. CASE ForceCloseInLoop(queue) /\ state_ # "kDisconnected"
  <2>1. ConnectionInv' /\ state_' = "kDisconnected" /\ tasks' = queue
    BY <1>1, <1>2, <1>9, HandleCloseOwned DEF ForceCloseInLoop, OwnedInv
  <2>2. QED
    BY <1>3, <1>4, <2>1
<1>10. QED
  BY <1>6, <1>7, <1>8, <1>9 DEF ForceCloseInLoop

LEMMA OwnStepOwned ==
  ASSUME OwnedUse, TypeOK, CallsFollowConnect, OwnedInv, OwnStep
  PROVE  OwnedInv'
<1>1. /\ ConnectionTypeOK /\ RestTypeOK /\ failed = "none" /\ tasks \in Seq(AllTasks)
      /\ holders # {} /\ UNCHANGED <<pc, revents_, thread, alive>>
  BY TypeOKSplit
     DEF OwnStep, OwnSend, OwnShutdown, OwnForceClose, OwnStopRead, OwnStartRead, OwnCall,
         loopAt, program, OwnedInv, ConnectionInv, ConnectionTypeOK
<1>2. state_ # "kConnecting" /\ (Open <=> state_ # "kDisconnected")
  BY <1>1, OpenOrClosed
<1>3. ASSUME ConnectionInv', Open' = Open, isWriting => isWriting', OnlySends',
             state_ = "kDisconnected" => state_' = "kDisconnected"
      PROVE  OwnedInv'
  <2>1. HandledWhileOpen'
    BY <1>1, <1>3, HandledKept DEF OwnedInv
  <2>2. QED
    BY <1>1, <1>3, <2>1 DEF OwnedInv
<1>4. ASSUME NEW m \in Messages, OwnSend(m)
      PROVE  OwnedInv'
  <2>1. CASE SendInLoop(m, tasks)
    <3>1. ConnectionInv' /\ (isWriting => isWriting') /\ state_' = state_
      BY <1>1, <1>2, <2>1, SendInLoopOwned DEF OwnedInv
    <3>2. CallbacksAfter(tasks', tasks)
      BY <1>1, <2>1, SendInLoopTyped, SameQueue
    <3>3. OnlySends'
      BY <1>1, <3>2, OnlySendsKept DEF OwnedInv
    <3>4. QED
      BY <1>3, <3>1, <3>3 DEF Open
  <2>2. CASE UNCHANGED connection
    <3>1. OnlySends'
      BY <1>1, <2>2, ConnectionUnchanged, OnlySendsKept DEF OwnedInv
    <3>2. QED
      BY <1>3, <2>2, <3>1, ConnectionUnchanged DEF OwnedInv
  <2>3. QED
    BY <1>4, <2>1, <2>2 DEF OwnSend
<1>5. CASE OwnShutdown
  <2>1. state_' = "kDisconnecting" /\ Open /\ Open' /\ isWriting' = isWriting
    BY <1>2, <1>5 DEF OwnShutdown, channelVars, Open, isWriting
  <2>2. ConnectionInv'
    BY <1>5, <2>1 DEF OwnShutdown, channelVars, OwnedInv, ConnectionInv, ChannelInv,
                      WritingIffBuffered,
                      isReading
  <2>3. OnlySends'
    BY <1>5, SameQueue, OnlySendsKept DEF OwnShutdown, program, OwnedInv
  <2>4. QED
    BY <1>3, <2>1, <2>2, <2>3 DEF Open
<1>6. CASE OwnForceClose
  <2>1. state_' = "kDisconnecting" /\ Open /\ Open' /\ isWriting' = isWriting
    BY <1>2, <1>6 DEF OwnForceClose, MayForceClose, channelVars, Open, isWriting
  <2>2. ConnectionInv'
    BY <1>2, <1>6, <2>1 DEF OwnForceClose, channelVars, OwnedInv, ConnectionInv, ChannelInv,
                            WritingIffBuffered,
                      isReading
  <2>3. OnlySends'
    <3>1. CloseTask \in OwningTasks /\ CloseTask \in AllTasks
      BY DEF OwningTasks, AllTasks
    <3>2. tasks' = Append(tasks, CloseTask)
      BY <1>6 DEF OwnForceClose
    <3>3. \A i \in DOMAIN tasks' : tasks'[i] \in OwningTasks
      BY <1>1, <3>1, <3>2, MemberAppend DEF OwnedInv, OnlySends
    <3>4. QED
      BY <1>1, <3>3 DEF OwnedInv, OnlySends
  <2>4. QED
    BY <1>3, <1>6, <2>1, <2>2, <2>3 DEF OwnForceClose, MayForceClose
<1>7. CASE OwnStopRead
  <2>1. "stopRead" \in OwnOps /\ StopReadInLoop(tasks)
    BY <1>7 DEF OwnStopRead, OwnCall
  <2>2. ConnectionInv' /\ tasks' = tasks /\ isWriting' = isWriting /\ state_' = state_
    BY <1>1, <2>1, StopReadOwned DEF OwnedInv
  <2>3. OnlySends'
    BY <1>1, <2>2, SameQueue, OnlySendsKept DEF OwnedInv
  <2>4. QED
    BY <1>3, <2>2, <2>3 DEF Open
<1>8. ~OwnStartRead
  BY DEF OwnStartRead, OwnCall, OwnedUse
<1>9. QED
  BY <1>4, <1>5, <1>6, <1>7, <1>8 DEF OwnStep
LEMMA OwnedStep ==
  ASSUME OwnedUse, TypeOK, CallsFollowConnect, OwnedInv, [Next]_vars
  PROVE  OwnedInv'
<1>1. failed = "none" /\ tasks \in Seq(AllTasks) /\ ConnectionInv /\ HandledWhileOpen /\ OnlySends
  BY DEF OwnedInv, ConnectionInv, TypeOK
<1>2. ASSUME UNCHANGED connection, HandledWhileOpen', OnlySends',
             alive' = alive \/ state_ = "kDisconnected"
      PROVE  OwnedInv'
  BY <1>1, <1>2, ConnectionUnchanged DEF OwnedInv
<1>3. ASSUME UNCHANGED <<connection, pc, revents_, thread>>,
             alive' = alive \/ state_ = "kDisconnected"
      PROVE  OwnedInv'
  <2>1. UNCHANGED connection /\ pc' = pc /\ revents_' = revents_ /\ thread' = thread
    BY <1>3
  <2>2. HandledWhileOpen' /\ OnlySends'
    BY <1>1, <2>1, ConnectionUnchanged, HandledKept, OnlySendsKept
  <2>3. QED
    BY <1>2, <1>3, <2>1, <2>2
<1>4. CASE ConnectEstablished
  <2>1. /\ state_ = "kConnecting" /\ state_' = "kConnected"
        /\ events_' = events_ \cup {"IN", "PRI"} /\ polling' = (events_' # {})
        /\ UNCHANGED <<outputBuffer_, tasks, inServer, failed, pc, revents_, thread, alive>>
    BY <1>4 DEF ConnectEstablished, EnableRead, Update, loopAt
  <2>2. /\ ~Open /\ Open' /\ events_ = {} /\ events_' = {"IN", "PRI"} /\ outputBuffer_ = <<>>
        /\ inServer
    BY <1>1, <2>1 DEF Open, ConnectionInv, ChannelInv
  <2>3. ConnectionInv'
    BY <1>1, <2>1, <2>2 DEF ConnectionInv, ChannelInv, WritingIffBuffered, isWriting, isReading
  <2>4. HandledWhileOpen'
    BY <2>1 DEF CallsFollowConnect, TypeOK, HandledWhileOpen
  <2>5. OnlySends'
    BY <1>1, <2>1, SameQueue, OnlySendsKept
  <2>6. QED
    BY <2>1, <2>3, <2>4, <2>5 DEF OwnedInv
<1>5. CASE Poll
  <2>1. PICK r \in Revents : PollReturns(r)
    BY <1>5 DEF Poll
  <2>2. /\ UNCHANGED connection /\ revents_' = r /\ pc' = "dispatch" /\ thread' = thread
        /\ alive' = alive /\ Open /\ Reportable(r)
    BY <1>1, <2>1 DEF PollReturns, program, ConnectionInv, ChannelInv
  <2>3. "HUP" \in r /\ "PRI" \in r => "IN" \in r
    BY <1>1, <2>2 DEF Reportable, OwnedUse, ConnectionInv, ChannelInv
  <2>4. "OUT" \in r => isWriting
    BY <2>2 DEF Reportable, isWriting
  <2>5. HandledWhileOpen'
    BY <2>2, <2>3, <2>4, ConnectionUnchanged DEF HandledWhileOpen
  <2>6. OnlySends'
    BY <1>1, <2>2, ConnectionUnchanged, OnlySendsKept
  <2>7. QED
    BY <1>2, <2>2, <2>5, <2>6
<1>6. CASE PeerCloses \/ PeerResets
  BY <1>3, <1>6 DEF PeerCloses, PeerResets, loopAt, program
<1>7. CASE Destroy
  <2>1. state_ = "kDisconnected"
    BY <1>1, <1>7 DEF Destroy, ConnectionInv, ChannelInv
  <2>2. UNCHANGED <<connection, pc, revents_, thread>>
    BY <1>7, <2>1 DEF Destroy, loopAt
  <2>3. QED
    BY <1>3, <2>1, <2>2
<1>8. ASSUME NEW th \in Threads, ForeignStep(th)
      PROVE  OwnedInv'
  <2>1. /\ thread \in [Threads -> {Outside} \cup {Exchange(op) : op \in Ops}
                               \cup {Queue(t) : t \in AllTasks}]
        /\ \A u \in Threads : \/ thread[u] = Outside
                              \/ \E m \in Messages : thread[u] = Queue(SendTask(m))
    BY <1>1 DEF TypeOK, OnlySends
  <2>2. ASSUME NEW m \in Messages, BeginSend(th, m)
        PROVE  OwnedInv'
    <3>1. /\ UNCHANGED connection /\ pc' = pc /\ revents_' = revents_ /\ alive' = alive
          /\ thread' = [thread EXCEPT ![th] = IF state_ = "kConnected" THEN Queue(SendTask(m))
                                                                       ELSE Outside]
      BY <2>2 DEF BeginSend, Continue, loopAt
    <3>2. HandledWhileOpen'
      BY <1>1, <3>1, ConnectionUnchanged, HandledKept
    <3>3. OnlySends'
      BY <1>1, <2>1, <3>1, ConnectionUnchanged DEF OnlySends
    <3>4. QED
      BY <1>2, <3>1, <3>2, <3>3
  <2>3. /\ ~BeginShutdown(th) /\ ~BeginForceClose(th)
        /\ \A op \in {"stopRead", "startRead"} : ~BeginReading(th, op)
    BY DEF BeginShutdown, BeginForceClose, BeginReading, ForeignCall, OwnedUse
  <2>4. ~DoExchange(th)
    BY <2>1, StepsDiffer DEF DoExchange
  <2>5. CASE QueueTask(th)
    <3>1. PICK t \in AllTasks : thread[th] = Queue(t) /\ tasks' = Append(tasks, t)
      BY <2>5 DEF QueueTask
    <3>2. t \in OwningTasks
      BY <2>1, <3>1, StepsDiffer DEF OwningTasks
    <3>3. \A i \in DOMAIN tasks' : tasks'[i] \in OwningTasks
      BY <1>1, <3>1, <3>2, MemberAppend DEF OnlySends
    <3>4. OnlySends'
      BY <1>1, <2>1, <2>5, <3>3 DEF QueueTask, OnlySends
    <3>5. /\ UNCHANGED <<state_, channelVars, outputBuffer_, inServer, failed>>
          /\ pc' = pc /\ revents_' = revents_ /\ alive' = alive
      BY <2>5 DEF QueueTask, loopAt
    <3>6. ConnectionInv' /\ Open' = Open /\ isWriting' = isWriting
      BY <1>1, <3>5 DEF channelVars, ConnectionInv, ChannelInv, Open, WritingIffBuffered,
                        isWriting, isReading
    <3>7. HandledWhileOpen'
      BY <1>1, <3>5, <3>6, HandledKept
    <3>8. QED
      BY <3>4, <3>5, <3>6, <3>7 DEF OwnedInv
  <2>6. QED
    BY <1>8, <2>2, <2>3, <2>4, <2>5 DEF ForeignStep
<1>9. ASSUME NEW u \in Users, Release(u)
      PROVE  OwnedInv'
  BY <1>3, <1>9 DEF Release, loopAt
<1>10. CASE UNCHANGED vars
  BY <1>3, <1>10 DEF vars, loopAt, program
<1>11. QED
  BY <1>4, <1>5, <1>6, <1>7, <1>8, <1>9, <1>10, HandlerStepOwned, RunTaskOwned, OwnStepOwned
     DEF Next

LEMMA OwnedInit == ASSUME Init PROVE OwnedInv
<1>1. ConnectionInv
  BY DEF Init, ChannelInit, ConnectionInv, ChannelInv, Open, WritingIffBuffered
<1>2. HandledWhileOpen
  BY DEF Init, HandledWhileOpen
<1>3. OnlySends
  BY DEF Init, OnlySends
<1>4. QED
  BY <1>1, <1>2, <1>3 DEF Init, OwnedInv

LEMMA OwnedInductive == ASSUME OwnedUse PROVE Spec => []OwnedInv
<1>1. TypeOK /\ CallsFollowConnect /\ OwnedInv /\ [Next]_vars => OwnedInv'
  BY OwnedStep
<1>2. QED
  BY <1>1, OwnedInit, TypesInductive, PTL DEF Spec

(***************************************************************************)
(* No assertion fails under OwnedUse: sendInLoop() finds nothing buffered  *)
(* when it may write directly, handleWrite() has something to write, no    *)
(* event but a write event is handled after the close, the server erases   *)
(* the connection once, and ~TcpConnection() finds it closed.              *)
(***************************************************************************)
THEOREM OwnedAssertionsHold == ASSUME OwnedUse PROVE Spec => []AssertionsHold
<1>1. OwnedInv => AssertionsHold
  BY DEF OwnedInv, ConnectionInv, AssertionsHold
<1>2. QED
  BY <1>1, OwnedInductive, PTL
=============================================================================
