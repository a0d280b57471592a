------------------------------ MODULE Logging -------------------------------
(***************************************************************************)
(* The logging of a process, from the statement to the file: the threads   *)
(* of Logger.tla make, start and append to the AsyncLogging of             *)
(* AsyncLogFile.tla.  AsyncLogger_ points to it from `new' on; nobody      *)
(* stops or destroys it.                                                   *)
(***************************************************************************)
EXTENDS AsyncLogFile, Logger

ASSUME LoggingAssumption == MaxStatements <= MaxLines

loggingVars == <<loggerVars, logVars>>

InitLogging == InitLogger /\ InitLog

\* pthread_once() up to start(), `new AsyncLogging' included.
Once(t) == OnceFirst(t) \/ OncePasses(t) \/ OnceNew(t)

\* AsyncLogging::start() up to latch_.wait(); pthread_create() may fail, for ever.
CallStart(t) ==
  /\ caller[t] = "start"
  /\ StartLogging
  /\ UNCHANGED <<loggerVars, fileVars, dropped>>

\* latch_.wait() returns, and with it start() and once_init().
EndStart(t) ==
  /\ StartReturns
  /\ OnceReturns(t)
  /\ UNCHANGED <<fileVars, dropped>>

\* AsyncLogger_->append().
AppendTo(t) ==
  /\ Deliver(t)
  /\ AppendLine
  /\ UNCHANGED <<fileVars, dropped>>

\* A thread in output() goes on by itself.
OutputOn(t) == (Once(t) /\ UNCHANGED logVars) \/ EndStart(t) \/ AppendTo(t)

\* threadFunc().
BackendRuns ==
  /\ ToFile \/ (BackendInMemory /\ UNCHANGED <<fileVars, dropped>>)
  /\ UNCHANGED loggerVars

NextLogging ==
  /\ pc # "aborted"
  /\ \/ \E t \in Threads : OutputOn(t) \/ CallStart(t)
     \/ ((\E t \in Threads : Statement(t)) \/ (\E name \in FileNames : SetLogFileName(name)))
          /\ UNCHANGED logVars
     \/ BackendRuns

LoggingSpec == InitLogging /\ [][NextLogging]_loggingVars

(***************************************************************************)
(* The fairness of Logger and AsyncLogFile: every thread that can run      *)
(* does, and the timed wait of the backend ends.  Nobody has to log, and   *)
(* the thread of the logger need not be had.                               *)
(***************************************************************************)
FairLogging ==
  /\ LoggingSpec
  /\ \A t \in Threads : WF_loggingVars(pc # "aborted" /\ OutputOn(t))
  /\ WF_loggingVars(pc \notin {"aborted", "wait"} /\ BackendRuns)
  /\ WF_loggingVars(WaitEnds /\ BackendRuns)

-----------------------------------------------------------------------------
(* Properties.                                                             *)

(***************************************************************************)
(* There is one logger, and what a statement hands to it is taken by an    *)
(* AsyncLogging whose thread is past its assertion and runs: the flag of   *)
(* pthread_once(), the pointer, start() and the latch let nobody through   *)
(* sooner; and the lines of the statements are those it has numbered.      *)
(***************************************************************************)
AppendsToRunning ==
  /\ OneLogger
  /\ Len(log) = appended
  /\ AsyncLogger_ = "started" <=> owner = "started"
  /\ running_ <=> owner # "new"
  /\ \A t \in Threads : caller[t] = "append" =>
       running_ /\ owner = "started" /\ pc \notin {"none", "entry", "done"}

(***************************************************************************)
(* The first lines of a process reach the file too: a thread that has      *)
(* ended its line gets it appended, unless the logger's thread cannot be   *)
(* made, and from there it reaches the file, though nothing else be        *)
(* logged, unless it is dropped on overload or by a failed write.          *)
(***************************************************************************)
LineReachesFile ==
  /\ \A t \in Threads :
       caller[t] = "once" ~> caller[t] = "run" \/ [](owner = "new")
  /\ \A l \in Lines : Len(log) >= l ~> l \in LinesOf(file) \cup lost \cup dropped
=============================================================================
