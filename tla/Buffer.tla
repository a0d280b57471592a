------------------------------- MODULE Buffer -------------------------------
(***************************************************************************)
(* src/Buffer.{h,cpp}: the bytes between readerIndex_ and writerIndex_ of  *)
(* a vector; room to write behind them, room to prepend before them.  When *)
(* the room behind is too small, makeSpace() moves the bytes to the front  *)
(* of the vector if that gives enough, else enlarges it.                   *)
(*                                                                         *)
(* Indices are the source's, from 0: offset i is buffer_[i + 1].  A buffer *)
(* is used by one thread at a time.  Beside it runs the queue of bytes     *)
(* that the same calls make: what they were given, never what they stored. *)
(***************************************************************************)
EXTENDS Integers, Sequences

CONSTANTS kCheapPrepend,   \* 8 in the source
          initialSize,     \* argument of the constructor, 1024 by default
          ExtraBuf,        \* the size of extrabuf of readFd(): 65536
          Bytes,           \* values of a byte
          Zero,            \* what resize() fills the vector with
          MaxChunk,        \* bound: bytes moved by one operation
          MaxSize          \* bound: size of the vector

ASSUME BufferAssumption ==
  /\ kCheapPrepend \in Nat
  /\ initialSize \in Nat
  /\ ExtraBuf \in Nat
  /\ Zero \in Bytes
  /\ MaxChunk \in Nat
  /\ MaxSize \in Nat /\ kCheapPrepend + initialSize <= MaxSize

VARIABLES buffer_, readerIndex_, writerIndex_,
          content          \* history: the bytes the callers gave and did not take

vars == <<buffer_, readerIndex_, writerIndex_, content>>

Queue == INSTANCE ByteQueue

\* What an operation is given: a piece of memory, not empty.
Chunks == UNION {[1 .. n -> Bytes] : n \in 1 .. MaxChunk}

(***************************************************************************)
(* The value of a Buffer, for the operations that call one another.        *)
(***************************************************************************)
Now == [mem |-> buffer_, r |-> readerIndex_, w |-> writerIndex_]

Become(b) == /\ buffer_' = b.mem
             /\ readerIndex_' = b.r
             /\ writerIndex_' = b.w

readableBytes(b)    == b.w - b.r
writableBytes(b)    == Len(b.mem) - b.w
prependableBytes(b) == b.r

\* The readable bytes.
peek(b) == SubSeq(b.mem, b.r + 1, b.w)

(***************************************************************************)
(* Types, and where the indices are; retrieveAll() relies on the last      *)
(* conjunct, whatever prepend() did.                                       *)
(***************************************************************************)
TypeOK ==
  /\ buffer_ \in Seq(Bytes)
  /\ readerIndex_ \in 0 .. writerIndex_
  /\ writerIndex_ \in 0 .. Len(buffer_)
  /\ kCheapPrepend <= Len(buffer_)

Init ==
  /\ buffer_ = [i \in 1 .. kCheapPrepend + initialSize |-> Zero]
  /\ readerIndex_ = kCheapPrepend
  /\ writerIndex_ = kCheapPrepend
  /\ Queue!Init

-----------------------------------------------------------------------------
(* Functions of the class, on values.                                      *)

\* std::copy() of s to an offset.
Copy(mem, s, at) ==
  [i \in 1 .. Len(mem) |-> IF at < i /\ i <= at + Len(s) THEN s[i - at] ELSE mem[i]]

\* vector::resize() to a larger size.
Resize(mem, size) == [i \in 1 .. size |-> IF i <= Len(mem) THEN mem[i] ELSE Zero]

\* Mutant of makeSpace: it never moves.
makeSpaceGrows(b, len) == [b EXCEPT !.mem = Resize(b.mem, b.w + len)]

makeSpace(b, len) ==
  IF writableBytes(b) + prependableBytes(b) < len + kCheapPrepend
  THEN [b EXCEPT !.mem = Resize(b.mem, b.w + len)]
  ELSE [mem |-> Copy(b.mem, peek(b), kCheapPrepend),
        r |-> kCheapPrepend,
        w |-> kCheapPrepend + readableBytes(b)]

ensureWritableBytes(b, len) == IF writableBytes(b) < len THEN makeSpace(b, len) ELSE b

\* append(), hasWritten() included.
Appended(b, s) ==
  LET room == ensureWritableBytes(b, Len(s)) IN
  [room EXCEPT !.mem = Copy(room.mem, s, room.w), !.w = room.w + Len(s)]

-----------------------------------------------------------------------------
(* Operations.                                                             *)

\* append(), appendInt8() to appendInt64().
AppendBytes(s) ==
  /\ writerIndex_ + Len(s) <= MaxSize
  /\ Become(Appended(Now, s))

\* ensureWritableBytes(), then a write at beginWrite() and hasWritten().
Reserve(len) ==
  /\ writerIndex_ + len <= MaxSize
  /\ Become(ensureWritableBytes(Now, len))

WriteInPlace(s) ==
  /\ Len(s) <= writableBytes(Now)
  /\ buffer_' = Copy(buffer_, s, writerIndex_)
  /\ writerIndex_' = writerIndex_ + Len(s)
  /\ UNCHANGED readerIndex_

\* prepend(), prependInt8() to prependInt64(): the caller's room, asserted.
Prepend(s) ==
  /\ Len(s) <= prependableBytes(Now)
  /\ readerIndex_' = readerIndex_ - Len(s)
  /\ buffer_' = Copy(buffer_, s, readerIndex_')
  /\ UNCHANGED writerIndex_

\* retrieve(), retrieveUntil(), retrieveAsString(), readInt8() to readInt64();
\* with all there is, retrieveAll().
Retrieve(len) ==
  /\ len <= readableBytes(Now)
  /\ IF len < readableBytes(Now)
     THEN /\ readerIndex_' = readerIndex_ + len
          /\ UNCHANGED writerIndex_
     ELSE /\ readerIndex_' = kCheapPrepend
          /\ writerIndex_' = kCheapPrepend
  /\ UNCHANGED buffer_

Unwrite(len) ==
  /\ len <= readableBytes(Now)
  /\ writerIndex_' = writerIndex_ - len
  /\ UNCHANGED <<buffer_, readerIndex_>>

\* The room readv() is given: extrabuf only while the vector has less.
RoomToRead == writableBytes(Now) + (IF writableBytes(Now) < ExtraBuf THEN ExtraBuf ELSE 0)

\* Mutant of ReadFd: extrabuf is appended behind writerIndex_ as it was.
ReadFdNoIndex(s) ==
  /\ Len(s) <= RoomToRead
  /\ writerIndex_ + Len(s) <= MaxSize
  /\ IF Len(s) <= writableBytes(Now)
     THEN Become(Appended(Now, s))
     ELSE Become(Appended([Now EXCEPT !.mem = Copy(buffer_, s, writerIndex_)],
                          SubSeq(s, writableBytes(Now) + 1, Len(s))))

(***************************************************************************)
(* readFd(): readv() fills the vector and then extrabuf with what it read, *)
(* s; what is in extrabuf is appended.                                     *)
(***************************************************************************)
ReadFd(s) ==
  LET writable == writableBytes(Now)
      inside   == Copy(buffer_, s, writerIndex_)
  IN /\ Len(s) <= RoomToRead
     /\ writerIndex_ + Len(s) <= MaxSize
     /\ IF Len(s) <= writable
        THEN /\ buffer_' = inside
             /\ writerIndex_' = writerIndex_ + Len(s)
             /\ UNCHANGED readerIndex_
        ELSE Become(Appended([mem |-> inside, r |-> readerIndex_, w |-> Len(buffer_)],
                             SubSeq(s, writable + 1, Len(s))))

\* Every call, and what it does to the queue with the same arguments.
Next ==
  \/ \E s \in Chunks : (AppendBytes(s) \/ WriteInPlace(s) \/ ReadFd(s)) /\ Queue!PushBack(s)
  \/ \E s \in Chunks : Prepend(s) /\ Queue!PushFront(s)
  \/ \E len \in 0 .. MaxChunk : Reserve(len) /\ UNCHANGED content
  \/ \E len \in 0 .. readableBytes(Now) : Retrieve(len) /\ Queue!PopFront(len)
  \/ \E len \in 0 .. readableBytes(Now) : Unwrite(len) /\ Queue!PopBack(len)

Spec == Init /\ [][Next]_vars

-----------------------------------------------------------------------------
(* Properties.                                                             *)

(***************************************************************************)
(* A reader sees exactly the bytes the calls were given, in order, less    *)
(* those taken: neither moving or enlarging the vector nor the part of a   *)
(* read that went to extrabuf loses, repeats or garbles one.               *)
(***************************************************************************)
ActsAsByteQueue == peek(Now) = content

(***************************************************************************)
(* The vector grows only when moving would not do: its new size stays      *)
(* below kCheapPrepend plus what it then holds plus the bytes just asked   *)
(* for (len), so a buffer that is drained as it is filled stays small.     *)
(***************************************************************************)
GrowsBy(len) == Len(buffer_') < kCheapPrepend + readableBytes(Now) + 2 * len

GrowsForRoom == Len(buffer_') # Len(buffer_) =>
                  \E len \in 0 .. MaxChunk : writableBytes(Now) < len /\ GrowsBy(len)

GrowthBounded == [][GrowsForRoom]_vars
=============================================================================
