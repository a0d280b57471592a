------------------------------ MODULE LogFile -------------------------------
(***************************************************************************)
(* src/base/LogFile.cpp and src/base/FileUtil.cpp: a file written through  *)
(* stdio's buffer, flushed by every flushEveryN_-th append() and on        *)
(* demand.  The calls hold LogFile::mutex_, so each is one step of the     *)
(* component that EXTENDS this module.  What is written are sequences; how *)
(* much of them stdio has handed to the kernel is its own choice.          *)
(***************************************************************************)
EXTENDS Naturals, Sequences

CONSTANTS flushEveryN_,   \* 1024 in the code
          BufferSize,     \* of AppendFile::buffer_, in units of what is written
          MaxErrors       \* bound: failures of write(2)

ASSUME LogFileAssumption ==
  /\ flushEveryN_ \in Nat \ {0}
  /\ BufferSize \in Nat
  /\ MaxErrors \in Nat

VARIABLES
  file,      \* what the kernel has: it outlives the process
  buffer_,   \* what only stdio has: it dies with the process
  count_,    \* calls of append() since the last flush it made
  errors     \* failures so far

fileVars == <<file, buffer_, count_, errors>>

FileTypeOK(Units) ==
  /\ file \in Seq(Units)
  /\ buffer_ \in Seq(Units)
  /\ count_ \in 0 .. flushEveryN_ - 1
  /\ errors \in 0 .. MaxErrors

FileInit == file = <<>> /\ buffer_ = <<>> /\ count_ = 0 /\ errors = 0

\* The kernel takes the first n units of what stdio holds.
HandOver(held, n) ==
  /\ file' = file \o SubSeq(held, 1, n)
  /\ buffer_' = SubSeq(held, n + 1, Len(held))

Fails == errors < MaxErrors /\ errors' = errors + 1

\* Mutant of fflush: only a full buffer is written.
fflushFull(held) ==
  /\ HandOver(held, IF Len(held) >= BufferSize THEN Len(held) ELSE 0)
  /\ UNCHANGED errors

\* fflush(): all of it, or less when write(2) fails; the rest stays buffered.
fflush(held) ==
  \/ HandOver(held, Len(held)) /\ UNCHANGED errors
  \/ Fails /\ \E n \in 0 .. Len(held) - 1 : HandOver(held, n)

\* append_unlocked(): the count, and perhaps the flush, after stdio took it.
Counted(held, spill) ==
  IF count_ + 1 >= flushEveryN_
  THEN count_' = 0 /\ fflush(held)
  ELSE count_' = count_ + 1 /\ spill

\* Mutant of Rest: the loop starts again from the head of the data.
RestFromHead(data, n) == SubSeq(data, 1, Len(data) - n)

\* What AppendFile::append() writes after fwrite() has taken n units.
Rest(data, n) == SubSeq(data, n + 1, Len(data))

\* stdio keeps at most its buffer full.
Spill(held) == \E n \in 0 .. Len(held) : Len(held) - n <= BufferSize /\ HandOver(held, n)

(***************************************************************************)
(* AppendFile::append(): fwrite() takes all the data; or write(2) fails    *)
(* and it takes the first n units, and then the second fwrite() takes the  *)
(* rest (again), or nothing, and the rest is dropped.                      *)
(***************************************************************************)
append(data, n, again) ==
  LET held == buffer_ \o SubSeq(data, 1, n) \o (IF again THEN Rest(data, n) ELSE <<>>) IN
    IF n = Len(data)
    THEN Counted(held, Spill(held) /\ UNCHANGED errors)
    ELSE Fails /\ count_' = (count_ + 1) % flushEveryN_ /\ Spill(held)

flush == fflush(buffer_) /\ UNCHANGED count_

\* ~AppendFile(), after a last flush(): what cannot be written now is gone.
fclose ==
  /\ buffer_' = <<>>
  /\ UNCHANGED count_
  /\ \/ file' = file \o buffer_ /\ UNCHANGED errors
     \/ Fails /\ \E n \in 0 .. Len(buffer_) - 1 : file' = file \o SubSeq(buffer_, 1, n)
=============================================================================
