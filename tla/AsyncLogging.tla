---------------------------- MODULE AsyncLogging ----------------------------
(***************************************************************************)
(* src/base/AsyncLogging.{h,cpp}: any thread appends log lines to the      *)
(* current buffer under mutex_; a backend thread, woken by a full buffer   *)
(* or by flushInterval_, takes all the buffers under mutex_ and writes     *)
(* them to the file outside it.  Four buffers go round: two held by the    *)
(* front (currentBuffer_, nextBuffer_) and two spare ones of the backend   *)
(* (newBuffer1, newBuffer2); more are allocated when the front runs out.   *)
(*                                                                         *)
(* A log line is its number in the order in which mutex_ admits the calls  *)
(* of append(); all lines have length 1.  A buffer is the sequence of its  *)
(* lines, and a unique_ptr is its buffer or Null.                          *)
(***************************************************************************)
EXTENDS Naturals, Sequences

CONSTANTS kLargeBuffer,  \* capacity of a buffer (LogStream.h)
          MaxBuffers,    \* buffers the backend writes in one round: 25 in the code
          MaxLines,      \* bound: calls of append() in one behaviour
          Null           \* an empty unique_ptr

ASSUME AsyncLoggingAssumption ==
  /\ kLargeBuffer \in Nat /\ kLargeBuffer >= 2
  /\ MaxBuffers \in Nat /\ MaxBuffers >= 2
  /\ MaxLines \in Nat
  /\ Null \notin Seq(Nat)

VARIABLES
  appended,        \* calls of append() so far; also the number of the last line
  currentBuffer_, nextBuffer_, buffers_,    \* guarded by mutex_
  running_,
  owner,           \* the thread that calls start() and stop()
  pc,              \* the backend thread, in threadFunc()
  newBuffer1, newBuffer2, buffersToWrite,   \* locals of threadFunc()
  written,         \* the index of the loop of threadFunc() that writes
  output,          \* the lines of the log file
  lost             \* history: lines of the buffers erased on overload

front   == <<appended, currentBuffer_, nextBuffer_, buffers_>>
backend == <<newBuffer1, newBuffer2, buffersToWrite, written, output, lost>>
vars    == <<front, running_, owner, pc, backend>>

(***************************************************************************)
(* "none" no thread yet; "entry" the assertion and latch_.countDown();     *)
(* "while" the loop test; "take" about to lock mutex_; "wait" in           *)
(* waitForSeconds(); "trim", "write" and "recycle" outside mutex_; "done"  *)
(* returned; "aborted" an assertion failed.                                *)
(***************************************************************************)
BackendPoints == {"none", "entry", "while", "take", "wait", "trim", "write",
                  "recycle", "done", "aborted"}

OwnerPoints == {"new", "starting", "started", "stopping", "joined"}

Lines   == 1 .. MaxLines
Buffer  == Seq(Lines)
Pointer == Buffer \cup {Null}

LinesOf(buf) == {buf[i] : i \in DOMAIN buf}

(***************************************************************************)
(* Types: only nextBuffer_ and the spare pointers are ever empty when      *)
(* somebody can look at them.  The backend holds buffers from taking them  *)
(* to recycling them only.                                                 *)
(***************************************************************************)
TypeOK ==
  /\ appended \in 0 .. MaxLines
  /\ currentBuffer_ \in Buffer
  /\ nextBuffer_ \in Pointer
  /\ buffers_ \in Seq(Buffer)
  /\ running_ \in BOOLEAN
  /\ owner \in OwnerPoints
  /\ pc \in BackendPoints
  /\ newBuffer1 \in Pointer
  /\ newBuffer2 \in Pointer
  /\ buffersToWrite \in Seq(Buffer)
  /\ written \in 0 .. Len(buffersToWrite)
  /\ output \in Seq(Lines)
  /\ lost \in SUBSET Lines
  /\ buffersToWrite # <<>> => pc \in {"trim", "write", "recycle"}

\* The constructor, and the locals of threadFunc() before its loop.
Init ==
  /\ appended = 0
  /\ currentBuffer_ = <<>>
  /\ nextBuffer_ = <<>>
  /\ buffers_ = <<>>
  /\ running_ = FALSE
  /\ owner = "new"
  /\ pc = "none"
  /\ newBuffer1 = <<>>
  /\ newBuffer2 = <<>>
  /\ buffersToWrite = <<>>
  /\ written = 0
  /\ output = <<>>
  /\ lost = {}

-----------------------------------------------------------------------------
(* The callers.                                                            *)

\* FixedBuffer::avail() > 1: a line of length 1 fits.
Fits(buf) == kLargeBuffer - Len(buf) > 1

(***************************************************************************)
(* append(): a full current buffer joins buffers_, and nextBuffer_, or     *)
(* when that is empty too a new buffer, takes its place.                   *)
(***************************************************************************)
AppendLine ==
  /\ appended < MaxLines
  /\ appended' = appended + 1
  /\ IF Fits(currentBuffer_)
     THEN /\ currentBuffer_' = Append(currentBuffer_, appended + 1)
          /\ UNCHANGED <<nextBuffer_, buffers_>>
     ELSE LET fresh == IF nextBuffer_ # Null THEN nextBuffer_ ELSE <<>> IN
          /\ buffers_' = Append(buffers_, currentBuffer_)
          /\ currentBuffer_' = IF Fits(fresh) THEN Append(fresh, appended + 1) ELSE fresh
          /\ nextBuffer_' = Null
  /\ UNCHANGED <<running_, owner, pc, backend>>

\* start(): running_ is set before the thread exists.
StartLogging ==
  /\ owner = "new"
  /\ owner' = "starting"
  /\ running_' = TRUE
  /\ pc' = "entry"
  /\ UNCHANGED <<front, backend>>

\* latch_.wait() returns: the backend is past its countDown().
StartReturns ==
  /\ owner = "starting"
  /\ pc \notin {"none", "entry", "aborted"}
  /\ owner' = "started"
  /\ UNCHANGED <<front, running_, pc, backend>>

\* stop(): the store and cond_.notify(), without mutex_ ...
Stop ==
  /\ owner = "started"
  /\ owner' = "stopping"
  /\ running_' = FALSE
  /\ UNCHANGED <<front, pc, backend>>

\* ... then thread_.join().
Join ==
  /\ owner = "stopping"
  /\ pc = "done"
  /\ owner' = "joined"
  /\ UNCHANGED <<front, running_, pc, backend>>

-----------------------------------------------------------------------------
(* The backend thread: threadFunc().                                       *)

BackendStart ==
  /\ pc = "entry"
  /\ pc' = IF running_ THEN "while" ELSE "aborted"
  /\ UNCHANGED <<front, running_, owner, backend>>

\* The assertions at the head of the loop.
SparesReady == newBuffer1 = <<>> /\ newBuffer2 = <<>> /\ buffersToWrite = <<>>

\* while(running_): when it is false the thread flushes the file and returns.
TestRunning ==
  /\ pc = "while"
  /\ pc' = IF ~running_ THEN "done" ELSE IF SparesReady THEN "take" ELSE "aborted"
  /\ UNCHANGED <<front, running_, owner, backend>>

\* cond_.waitForSeconds() releases mutex_ until it returns.
BeginWait ==
  /\ pc = "take"
  /\ buffers_ = <<>>
  /\ pc' = "wait"
  /\ UNCHANGED <<front, running_, owner, backend>>

\* Mutant of NextUsed: nextBuffer_ is replaced though append() still has it.
NextUsedAlways == TRUE

NextUsed == nextBuffer_ = Null

\* Mutant of Round: the current buffer is taken before the full ones.
RoundCurrentFirst == <<currentBuffer_>> \o buffers_

\* push_back() of the current buffer, and swap().
Round == Append(buffers_, currentBuffer_)

(***************************************************************************)
(* The critical section: the current buffer joins the full ones, all are   *)
(* taken, and the spare ones replace what the front has used.              *)
(***************************************************************************)
TakeBuffers ==
  /\ buffersToWrite' = Round
  /\ buffers_' = <<>>
  /\ currentBuffer_' = newBuffer1
  /\ newBuffer1' = Null
  /\ nextBuffer_' = IF NextUsed THEN newBuffer2 ELSE nextBuffer_
  /\ newBuffer2' = IF NextUsed THEN Null ELSE newBuffer2
  /\ pc' = "trim"
  /\ UNCHANGED <<appended, running_, owner, written, output, lost>>

TakeAtOnce == pc = "take" /\ buffers_ # <<>> /\ TakeBuffers

\* Mutant of WaitEnds: an untimed wait, which only a full buffer ends.
WaitEndsUntimed == pc = "wait" /\ buffers_ # <<>> /\ TakeBuffers

\* Notified, timed out or woken for no reason: buffers_ is not looked at again.
WaitEnds == pc = "wait" /\ TakeBuffers

\* The lines of the buffers from the i-th on.
LinesFrom(bufs, i) == UNION {LinesOf(bufs[k]) : k \in i .. Len(bufs)}

(***************************************************************************)
(* Too many buffers: all but the two oldest are erased, unwritten.         *)
(***************************************************************************)
Trim ==
  /\ pc = "trim"
  /\ IF Len(buffersToWrite) > MaxBuffers
     THEN /\ buffersToWrite' = SubSeq(buffersToWrite, 1, 2)
          /\ lost' = lost \cup LinesFrom(buffersToWrite, 3)
     ELSE UNCHANGED <<buffersToWrite, lost>>
  /\ pc' = "write"
  /\ UNCHANGED <<front, running_, owner, newBuffer1, newBuffer2, written, output>>

\* output.append() of the next buffer.
WriteBuffer ==
  /\ pc = "write"
  /\ written < Len(buffersToWrite)
  /\ written' = written + 1
  /\ output' = output \o buffersToWrite[written + 1]
  /\ UNCHANGED <<front, running_, owner, pc, newBuffer1, newBuffer2,
                 buffersToWrite, lost>>

\* resize(2).
EndWriting ==
  /\ pc = "write"
  /\ written = Len(buffersToWrite)
  /\ buffersToWrite' = IF Len(buffersToWrite) > 2 THEN SubSeq(buffersToWrite, 1, 2)
                                                  ELSE buffersToWrite
  /\ written' = 0
  /\ pc' = "recycle"
  /\ UNCHANGED <<front, running_, owner, newBuffer1, newBuffer2, output, lost>>

\* Spare buffers a round has used up.
Missing == (IF newBuffer1 = Null THEN 1 ELSE 0) + (IF newBuffer2 = Null THEN 1 ELSE 0)

(***************************************************************************)
(* The last buffers written, reset, become the missing spare ones; the     *)
(* rest is freed.  An assertion fails when there are too few of them.      *)
(***************************************************************************)
Recycle ==
  /\ pc = "recycle"
  /\ newBuffer1' = <<>>
  /\ newBuffer2' = <<>>
  /\ buffersToWrite' = <<>>
  /\ pc' = IF Missing <= Len(buffersToWrite) THEN "while" ELSE "aborted"
  /\ UNCHANGED <<front, running_, owner, written, output, lost>>

-----------------------------------------------------------------------------
BackendStep == \/ BackendStart \/ TestRunning \/ BeginWait \/ TakeAtOnce \/ Trim
               \/ WriteBuffer \/ EndWriting \/ Recycle

OwnerWaits == StartReturns \/ Join

\* An assertion that fails ends the process.
Next == /\ pc # "aborted"
        /\ AppendLine \/ StartLogging \/ Stop \/ OwnerWaits \/ BackendStep \/ WaitEnds

Spec == Init /\ [][Next]_vars

-----------------------------------------------------------------------------
(* Properties.                                                             *)

(***************************************************************************)
(* No assertion of threadFunc() fails (lines 51, 62-64, 80, 95 and 102):   *)
(* the two spare buffers can be made good from what a round has written,   *)
(* although that round was cut to two buffers, whatever append() took      *)
(* meanwhile.                                                              *)
(***************************************************************************)
AssertsHold == pc # "aborted"

\* Lines in the order in which append() took them, none twice.
Increasing(lines) == \A i, j \in DOMAIN lines : i < j => lines[i] < lines[j]

(***************************************************************************)
(* The file has lines in the order in which append() took them, none twice *)
(* and none that was dropped, across threads and rounds; and every line    *)
(* append() took is in the file, in a buffer, or was in one of the buffers *)
(* erased on overload.                                                     *)
(***************************************************************************)
LogIntact ==
  /\ Increasing(output)
  /\ LinesOf(output) \cap lost = {}
  /\ 1 .. appended = LinesOf(output) \cup lost \cup LinesFrom(buffersToWrite, written + 1)
                       \cup LinesFrom(buffers_, 1) \cup LinesOf(currentBuffer_)

(***************************************************************************)
(* stop() returns: the backend sees running_ at the latest when its timed  *)
(* wait ends, although stop() notifies it without holding mutex_ (checked  *)
(* with the fairness of AsyncLogFile).                                     *)
(***************************************************************************)
StopReturns == owner = "stopping" ~> owner = "joined"
=============================================================================
