------------------------------- MODULE Logger -------------------------------
(***************************************************************************)
(* src/base/Logging.{h,cpp}: a log statement makes a Logger, streams into  *)
(* it, and the destructor hands the line to the one AsyncLogging, which    *)
(* the first line of the process makes and starts under pthread_once().    *)
(* The variables are those of the log statements; what AsyncLogging does   *)
(* with a line is in the module of that name.                              *)
(***************************************************************************)
EXTENDS LogStream

CONSTANTS Threads,       \* the threads that log
          LevelSizes,    \* lengths of the names of the levels: 5 and 6
          TextSizes,     \* lengths of the texts they log
          basename_,     \* length of the name of the source file
          lines,         \* line numbers
          FileNames,     \* names given to setLogFileName()
          MaxPieces,     \* bound: what one statement streams
          MaxStatements  \* bound: statements in one behaviour

ASSUME LoggerAssumption ==
  /\ LevelSizes \subseteq Nat /\ TextSizes \subseteq Nat
  /\ basename_ \in Nat /\ lines \subseteq Integers_
  /\ MaxPieces \in Nat /\ MaxStatements \in Nat

VARIABLES
  caller,        \* where each thread is
  stream_,       \* the buffer of the Logger of each thread
  once_control_,
  AsyncLogger_,  \* "null", "made" or "started"
  logFileName_,
  made,          \* history: the names of the files of the AsyncLoggings made
  log            \* history: who appended, in order

loggerVars == <<caller, stream_, once_control_, AsyncLogger_, logFileName_, made, log>>

(***************************************************************************)
(* "run" outside; "stream" in a log statement; "once" in pthread_once();   *)
(* "new" and "start" in once_init(); "append" past pthread_once().         *)
(***************************************************************************)
CallerPoints == {"run", "stream", "once", "new", "start", "append"}

LoggerTypeOK ==
  /\ caller \in [Threads -> CallerPoints]
  /\ once_control_ \in {"init", "running", "done"}
  /\ AsyncLogger_ \in {"null", "made", "started"}
  /\ logFileName_ \in FileNames
  /\ made \in Seq(FileNames)
  /\ log \in Seq(Threads)

InitLogger ==
  /\ caller = [t \in Threads |-> "run"]
  /\ stream_ = [t \in Threads |-> EmptyBuffer]
  /\ once_control_ = "init"
  /\ AsyncLogger_ = "null"
  /\ logFileName_ \in FileNames
  /\ made = <<>>
  /\ log = <<>>

Pieces == {text(n) : n \in TextSizes} \cup {integer(v) : v \in Integers_}
            \cup {float(n) : n \in FloatSizes}

\* Impl(): level, a space, a thread's number of up to five digits, a space, time.
Headed(level) ==
  Put(Put(Put(Put(Put(EmptyBuffer, text(level)), text(1)), text(6)), text(1)), text(20))

\* ~Logger(): "--", the file, ":", the line and the end of the line.
Trailed(buf, line) ==
  Put(Put(Put(Put(Put(buf, text(2)), text(basename_)), text(1)), integer(line)), text(1))

Goto(t, from, to) == caller[t] = from /\ caller' = [caller EXCEPT ![t] = to]

\* A log statement: a Logger is made ...
MakeLogger(t, level) ==
  /\ Goto(t, "run", "stream")
  /\ Len(log) + Cardinality({u \in Threads : caller[u] # "run"}) < MaxStatements
  /\ stream_' = [stream_ EXCEPT ![t] = Headed(level)]
  /\ UNCHANGED <<once_control_, AsyncLogger_, logFileName_, made, log>>

\* ... something is streamed into it ...
Stream(t, piece) ==
  /\ caller[t] = "stream"
  /\ Len(stream_[t].asked) < 5 + MaxPieces
  /\ stream_' = [stream_ EXCEPT ![t] = Put(@, piece)]
  /\ UNCHANGED <<caller, once_control_, AsyncLogger_, logFileName_, made, log>>

\* ... and its destructor calls output().
EndLine(t, line) ==
  /\ Goto(t, "stream", "once")
  /\ stream_' = [stream_ EXCEPT ![t] = Trailed(@, line)]
  /\ UNCHANGED <<once_control_, AsyncLogger_, logFileName_, made, log>>

SetLogFileName(name) ==
  /\ logFileName_' = name
  /\ UNCHANGED <<caller, stream_, once_control_, AsyncLogger_, made, log>>

\* pthread_once(): the first thread calls once_init() ...
OnceFirst(t) ==
  /\ once_control_ = "init"
  /\ Goto(t, "once", "new")
  /\ once_control_' = "running"
  /\ UNCHANGED <<stream_, AsyncLogger_, logFileName_, made, log>>

\* Mutant of OncePasses: whoever finds the flag set goes on.
OncePassesEarly(t) ==
  /\ once_control_ # "init"
  /\ Goto(t, "once", "append")
  /\ UNCHANGED <<stream_, once_control_, AsyncLogger_, logFileName_, made, log>>

\* ... and the others wait until it has returned.
OncePasses(t) ==
  /\ once_control_ = "done"
  /\ Goto(t, "once", "append")
  /\ UNCHANGED <<stream_, once_control_, AsyncLogger_, logFileName_, made, log>>

\* once_init(): new AsyncLogging ...
OnceNew(t) ==
  /\ Goto(t, "new", "start")
  /\ AsyncLogger_' = "made"
  /\ made' = Append(made, logFileName_)
  /\ UNCHANGED <<stream_, once_control_, logFileName_, log>>

\* Mutant of OnceReturns: the flag is left as it is.
OnceReturnsSilently(t) ==
  /\ Goto(t, "start", "append")
  /\ AsyncLogger_' = "started"
  /\ UNCHANGED <<stream_, once_control_, logFileName_, made, log>>

\* ... and start(), which never returns when there is no thread to be had.
OnceReturns(t) ==
  /\ Goto(t, "start", "append")
  /\ AsyncLogger_' = "started"
  /\ once_control_' = "done"
  /\ UNCHANGED <<stream_, logFileName_, made, log>>

\* AsyncLogger_->append(), and the Logger is gone.
Deliver(t) ==
  /\ Goto(t, "append", "run")
  /\ log' = Append(log, t)
  /\ stream_' = [stream_ EXCEPT ![t] = EmptyBuffer]
  /\ UNCHANGED <<once_control_, AsyncLogger_, logFileName_, made>>

Statement(t) == \/ \E level \in LevelSizes : MakeLogger(t, level)
                \/ \E piece \in Pieces : Stream(t, piece)
                \/ \E line \in lines : EndLine(t, line)

Output(t) == OnceFirst(t) \/ OncePasses(t) \/ OnceNew(t) \/ Deliver(t)

NextLogger ==
  \/ \E t \in Threads : Statement(t) \/ Output(t) \/ OnceReturns(t)
  \/ \E name \in FileNames : SetLogFileName(name)

LoggerSpec == InitLogger /\ [][NextLogger]_loggerVars

-----------------------------------------------------------------------------
(* Properties.                                                             *)

(***************************************************************************)
(* Whatever is streamed, nothing is written behind data_, the NUL of       *)
(* convert() and snprintf() included; a piece is missing from a line only  *)
(* when the room left is smaller than what it might need; the end of a     *)
(* line handed to output() is missing only when the line fills the buffer, *)
(* the last character apart; and every integer, the least one included,    *)
(* reads back as itself.                                                   *)
(***************************************************************************)
LineReadable ==
  \A t \in Threads : LET buf == stream_[t] IN
    /\ buf.top <= kSmallBuffer
    /\ \A i \in DOMAIN buf.asked \ buf.taken :
         IF buf.asked[i].kind = "text" THEN avail(buf) <= buf.asked[i].n
                                       ELSE avail(buf) < kMaxNumericSize
    /\ caller[t] \notin {"run", "stream"} =>
         Len(buf.asked) \in buf.taken \/ buf.length = kSmallBuffer - 1
    /\ \A i \in DOMAIN buf.asked :
         buf.asked[i].kind = "integer" => ReadAs(convert(buf.asked[i].n)) = buf.asked[i].n

(***************************************************************************)
(* Whichever threads log first, one AsyncLogging is made, and nobody       *)
(* appends before it is started: no line goes to a null pointer, or to a   *)
(* logger that nobody writes to the file.                                  *)
(***************************************************************************)
OneLogger ==
  /\ LoggerTypeOK
  /\ Len(made) <= 1
  /\ \A t \in Threads : caller[t] = "append" => AsyncLogger_ = "started"
=============================================================================
