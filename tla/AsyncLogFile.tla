---------------------------- MODULE AsyncLogFile ----------------------------
(***************************************************************************)
(* AsyncLogging writing to its LogFile, a local of threadFunc(): the       *)
(* sequence `output' of AsyncLogging becomes the calls of LogFile, and a   *)
(* line is safe from the end of the process when the kernel has it.        *)
(***************************************************************************)
EXTENDS AsyncLogging, LogFile

VARIABLE dropped   \* history: lines that fwrite() or fclose() could not write

logVars == <<vars, fileVars, dropped>>

InitLog == Init /\ FileInit /\ dropped = {}

\* output.append() of the next buffer.
AppendToFile ==
  /\ WriteBuffer
  /\ LET data == buffersToWrite[written + 1] IN
     \E n \in 0 .. Len(data), again \in BOOLEAN :
       /\ append(data, n, again)
       /\ dropped' = dropped \cup (IF again THEN {} ELSE LinesOf(Rest(data, n)))

\* Mutant of FlushRound: the file is left to flushEveryN_.
FlushRoundNever == Recycle /\ UNCHANGED <<fileVars, dropped>>

\* output.flush() at the end of a round.
FlushRound == Recycle /\ flush /\ UNCHANGED dropped

\* The end of threadFunc(): output.flush() and the destructor of output.
CloseFile ==
  /\ ~running_
  /\ TestRunning
  /\ fclose
  /\ dropped' = dropped \cup (LinesOf(buffer_) \ LinesOf(file'))

ToFile == AppendToFile \/ FlushRound \/ CloseFile

\* What threadFunc() does without the file, and what its callers do.
BackendInMemory == \/ BackendStart \/ BeginWait \/ TakeAtOnce \/ WaitEnds
                   \/ Trim \/ EndWriting \/ (running_ /\ TestRunning)

InMemory == AppendLine \/ StartLogging \/ Stop \/ OwnerWaits \/ BackendInMemory

NextLog == /\ pc # "aborted"
           /\ ToFile \/ (InMemory /\ UNCHANGED <<fileVars, dropped>>)

LogSpec == InitLog /\ [][NextLog]_logVars

(***************************************************************************)
(* Fairness: both threads are scheduled, and the wait of the backend ends  *)
(* because it is timed, notified or not.  Nobody has to log or to stop.    *)
(***************************************************************************)
FairLog ==
  /\ LogSpec
  /\ WF_logVars(NextLog /\ pc # "wait" /\ BackendStep)
  /\ WF_logVars(NextLog /\ WaitEnds)
  /\ WF_logVars(NextLog /\ OwnerWaits)

-----------------------------------------------------------------------------
(* Properties.                                                             *)

(***************************************************************************)
(* What the kernel and stdio have is what threadFunc() wrote, in order and *)
(* once, without the lines a failed write(2) made AppendFile::append() or  *)
(* fclose() give up: partial writes and the retry repeat and swap nothing. *)
(***************************************************************************)
FileIntact ==
  /\ FileTypeOK(Lines)
  /\ Increasing(file \o buffer_)
  /\ LinesOf(file \o buffer_) = LinesOf(output) \ dropped

(***************************************************************************)
(* As long as no write(2) fails, a process that is killed loses, of the    *)
(* lines taken from the callers, those of the round being written alone:   *)
(* those of every earlier round are with the kernel, although flushEveryN_ *)
(* appends have not been made.                                             *)
(***************************************************************************)
KillLosesOneRound ==
  errors = 0 =>
    CASE pc = "write"   -> LinesOf(buffer_) \subseteq
                             UNION {LinesOf(buffersToWrite[i]) : i \in 1 .. written}
      [] pc = "recycle" -> TRUE
      [] OTHER          -> buffer_ = <<>>

(***************************************************************************)
(* While logging runs, a line reaches the kernel even when its buffer      *)
(* never fills and no further line is logged, unless it is dropped on      *)
(* overload or by a failed write.                                          *)
(***************************************************************************)
LineEventuallyInFile ==
  \A l \in Lines :
    running_ /\ l <= appended ~> l \in LinesOf(file) \cup lost \cup dropped \/ ~running_
=============================================================================
