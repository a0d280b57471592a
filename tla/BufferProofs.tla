---------------------------- MODULE BufferProofs ----------------------------
(***************************************************************************)
(* Proofs about Buffer.tla, for any sizes and any set of bytes; and about  *)
(* CircularBuffer.tla, for a ring of any size and any elements: there the  *)
(* arithmetic modulo N is reduced to one comparison and one subtraction,   *)
(* and the invariant ties the tail to the head and the size.               *)
(***************************************************************************)
EXTENDS Buffer, CircularBuffer, SequenceTheorems, TLAPS

\* The value of a buffer whose indices are in order: TypeOK, on values.
Good(b) ==
  /\ b \in [mem : Seq(Bytes), r : Nat, w : Nat]
  /\ b.r <= b.w
  /\ b.w <= Len(b.mem)
  /\ kCheapPrepend <= Len(b.mem)

(***************************************************************************)
(* std::copy() changes the bytes it covers and nothing else.               *)
(***************************************************************************)
LEMMA CopyProperties ==
  ASSUME NEW mem \in Seq(Bytes), NEW s \in Seq(Bytes), NEW at \in Nat
  PROVE  /\ Copy(mem, s, at) \in Seq(Bytes)
         /\ Len(Copy(mem, s, at)) = Len(mem)
         /\ \A i \in 1 .. Len(mem) :
              Copy(mem, s, at)[i] = IF at < i /\ i <= at + Len(s) THEN s[i - at] ELSE mem[i]
<1>1. Len(mem) \in Nat /\ Len(s) \in Nat
  BY LenProperties
<1>2. ASSUME NEW i \in 1 .. Len(mem)
      PROVE  (IF at < i /\ i <= at + Len(s) THEN s[i - at] ELSE mem[i]) \in Bytes
  <2>1. CASE at < i /\ i <= at + Len(s)
    <3>1. i - at \in 1 .. Len(s)
      BY <1>1, <2>1
    <3>2. QED
      BY <2>1, <3>1, ElementOfSeq
  <2>2. CASE ~(at < i /\ i <= at + Len(s))
    BY <2>2, ElementOfSeq
  <2>3. QED
    BY <2>1, <2>2
<1>3. Copy(mem, s, at) \in [1 .. Len(mem) -> Bytes]
  BY <1>2 DEF Copy
<1>4. Copy(mem, s, at) \in Seq(Bytes)
  BY <1>1, <1>3, SeqDef
<1>5. Len(Copy(mem, s, at)) = Len(mem)
  BY <1>1, <1>3, <1>4, LenProperties
<1>6. QED
  BY <1>4, <1>5 DEF Copy

(***************************************************************************)
(* resize() keeps the bytes there are.                                     *)
(***************************************************************************)
LEMMA ResizeProperties ==
  ASSUME NEW mem \in Seq(Bytes), NEW size \in Nat, Len(mem) <= size
  PROVE  /\ Resize(mem, size) \in Seq(Bytes)
         /\ Len(Resize(mem, size)) = size
         /\ \A i \in 1 .. Len(mem) : Resize(mem, size)[i] = mem[i]
<1>1. Len(mem) \in Nat
  BY LenProperties
<1>2. Resize(mem, size) \in [1 .. size -> Bytes]
  BY <1>1, ElementOfSeq, BufferAssumption DEF Resize
<1>3. Resize(mem, size) \in Seq(Bytes)
  BY <1>2, SeqDef
<1>4. Len(Resize(mem, size)) = size
  BY <1>2, <1>3, LenProperties
<1>5. QED
  BY <1>1, <1>3, <1>4 DEF Resize

\* The bytes of s at the offsets from m to n - 1.
LEMMA PieceProperties ==
  ASSUME NEW s \in Seq(Bytes), NEW m \in Nat, NEW n \in Nat, m <= n, n <= Len(s)
  PROVE  /\ SubSeq(s, m + 1, n) \in Seq(Bytes)
         /\ Len(SubSeq(s, m + 1, n)) = n - m
         /\ \A i \in 1 .. n - m : SubSeq(s, m + 1, n)[i] = s[m + i]
<1> DEFINE piece == SubSeq(s, m + 1, n)
           from  == m + 1
<1>1. Len(s) \in Nat
  BY LenProperties
<1>2. \A i \in from .. n : s[i] \in Bytes
  BY <1>1, ElementOfSeq
<1>3. from \in Int /\ n \in Int
  OBVIOUS
<1>4. /\ piece \in Seq(Bytes)
      /\ Len(piece) = IF from <= n THEN n - from + 1 ELSE 0
      /\ \A i \in 1 .. n - from + 1 : piece[i] = s[from + i - 1]
  BY <1>2, <1>3, SubSeqProperties
<1> HIDE DEF piece
<1>5. \A i \in 1 .. n - m : i \in 1 .. n - from + 1 /\ from + i - 1 = m + i
  OBVIOUS
<1>6. piece \in Seq(Bytes) /\ Len(piece) = n - m /\ \A i \in 1 .. n - m : piece[i] = s[m + i]
  BY <1>4, <1>5
<1>7. QED
  BY <1>6 DEF piece

\* The readable bytes, one by one.
LEMMA PeekProperties ==
  ASSUME NEW b, Good(b)
  PROVE  /\ peek(b) \in Seq(Bytes)
         /\ Len(peek(b)) = b.w - b.r
         /\ \A i \in 1 .. b.w - b.r : peek(b)[i] = b.mem[b.r + i]
<1> USE DEF Good
<1>1. b.mem \in Seq(Bytes) /\ b.r \in Nat /\ b.w \in Nat /\ Len(b.mem) \in Nat
  BY LenProperties
<1>2. QED
  BY <1>1, PieceProperties DEF peek

(***************************************************************************)
(* ensureWritableBytes() makes the room asked for and keeps the readable   *)
(* bytes; where it enlarges the vector, moving would not have done.        *)
(***************************************************************************)
LEMMA RoomMade ==
  ASSUME NEW b, Good(b), NEW len \in Nat
  PROVE  LET e == ensureWritableBytes(b, len) IN
         /\ Good(e)
         /\ len <= writableBytes(e)
         /\ readableBytes(e) = readableBytes(b)
         /\ peek(e) = peek(b)
         /\ Len(e.mem) # Len(b.mem) =>
              writableBytes(b) < len /\ Len(e.mem) < kCheapPrepend + readableBytes(b) + 2 * len
<1> DEFINE e == ensureWritableBytes(b, len)
<1> USE DEF readableBytes, writableBytes, prependableBytes
<1>1. /\ b.mem \in Seq(Bytes) /\ b.r \in Nat /\ b.w \in Nat /\ Len(b.mem) \in Nat
      /\ b.r <= b.w /\ b.w <= Len(b.mem) /\ kCheapPrepend <= Len(b.mem)
      /\ b = [mem |-> b.mem, r |-> b.r, w |-> b.w]
      /\ kCheapPrepend \in Nat
  BY LenProperties, BufferAssumption DEF Good
<1>2. CASE len <= writableBytes(b)
  <2>1. e = b
    BY <1>1, <1>2 DEF ensureWritableBytes
  <2>2. QED
    BY <1>1, <1>2, <2>1
<1>3. CASE writableBytes(b) < len /\ writableBytes(b) + prependableBytes(b) < len + kCheapPrepend
  <2>1. e = [mem |-> Resize(b.mem, b.w + len), r |-> b.r, w |-> b.w]
    BY <1>1, <1>3 DEF ensureWritableBytes, makeSpace
  <2>2. /\ Resize(b.mem, b.w + len) \in Seq(Bytes)
        /\ Len(Resize(b.mem, b.w + len)) = b.w + len
        /\ \A i \in 1 .. Len(b.mem) : Resize(b.mem, b.w + len)[i] = b.mem[i]
    BY <1>1, <1>3, ResizeProperties
  <2> HIDE DEF e
  <2>3. /\ e.mem \in Seq(Bytes) /\ Len(e.mem) = b.w + len /\ e.r = b.r /\ e.w = b.w
        /\ \A i \in 1 .. Len(b.mem) : e.mem[i] = b.mem[i]
        /\ e \in [mem : Seq(Bytes), r : Nat, w : Nat]
    BY <1>1, <2>1, <2>2
  <2>4. Good(e)
    BY <1>1, <1>3, <2>3 DEF Good
  <2>5. peek(e) = peek(b)
    <3>1. \A i \in 1 .. b.w - b.r : e.mem[b.r + i] = b.mem[b.r + i]
      BY <1>1, <2>3
    <3>2. /\ peek(e) \in Seq(Bytes) /\ peek(b) \in Seq(Bytes)
          /\ Len(peek(e)) = b.w - b.r /\ Len(peek(b)) = b.w - b.r
          /\ \A i \in 1 .. b.w - b.r : peek(e)[i] = peek(b)[i]
      <4>1. /\ peek(b) \in Seq(Bytes) /\ Len(peek(b)) = b.w - b.r
            /\ \A i \in 1 .. b.w - b.r : peek(b)[i] = b.mem[b.r + i]
        BY PeekProperties
      <4>2. /\ peek(e) \in Seq(Bytes) /\ Len(peek(e)) = e.w - e.r
            /\ \A i \in 1 .. e.w - e.r : peek(e)[i] = e.mem[e.r + i]
        BY <2>4, PeekProperties
      <4>3. QED
        BY <2>3, <3>1, <4>1, <4>2
    <3>3. QED
      BY <3>2, SeqEqual
  <2>6. QED
    BY <1>1, <1>3, <2>3, <2>4, <2>5 DEF e
<1>4. CASE writableBytes(b) < len /\ ~(writableBytes(b) + prependableBytes(b) < len + kCheapPrepend)
  <2> DEFINE moved == Copy(b.mem, peek(b), kCheapPrepend)
  <2>1. e = [mem |-> moved, r |-> kCheapPrepend, w |-> kCheapPrepend + (b.w - b.r)]
    BY <1>1, <1>4 DEF ensureWritableBytes, makeSpace
  <2>2. /\ peek(b) \in Seq(Bytes) /\ Len(peek(b)) = b.w - b.r
    BY PeekProperties
  <2>3. /\ moved \in Seq(Bytes)
        /\ Len(moved) = Len(b.mem)
        /\ \A i \in 1 .. Len(b.mem) :
             moved[i] = IF kCheapPrepend < i /\ i <= kCheapPrepend + (b.w - b.r)
                        THEN peek(b)[i - kCheapPrepend] ELSE b.mem[i]
    <3>1. /\ moved \in Seq(Bytes)
          /\ Len(moved) = Len(b.mem)
          /\ \A i \in 1 .. Len(b.mem) :
               moved[i] = IF kCheapPrepend < i /\ i <= kCheapPrepend + Len(peek(b))
                          THEN peek(b)[i - kCheapPrepend] ELSE b.mem[i]
      BY <1>1, <2>2, CopyProperties, Zenon
    <3>2. QED
      BY <2>2, <3>1
  <2> HIDE DEF e, moved
  <2>4. /\ e.mem = moved /\ e.r = kCheapPrepend /\ e.w = kCheapPrepend + (b.w - b.r)
        /\ e \in [mem : Seq(Bytes), r : Nat, w : Nat]
    BY <1>1, <2>1, <2>3
  <2>5. /\ kCheapPrepend < b.r
        /\ e.w <= Len(e.mem) /\ len <= Len(e.mem) - e.w
    BY <1>1, <1>4, <2>3, <2>4
  <2>6. Good(e)
    BY <1>1, <2>3, <2>4, <2>5 DEF Good
  <2>7. peek(e) = peek(b)
    <3>1. ASSUME NEW i \in 1 .. b.w - b.r
          PROVE  e.mem[kCheapPrepend + i] = peek(b)[i]
      <4>1. /\ kCheapPrepend + i \in 1 .. Len(b.mem)
            /\ kCheapPrepend < kCheapPrepend + i
            /\ kCheapPrepend + i <= kCheapPrepend + (b.w - b.r)
            /\ kCheapPrepend + i - kCheapPrepend = i
        BY <1>1, <2>5
      <4>2. QED
        BY <2>3, <2>4, <4>1
    <3>2. /\ peek(e) \in Seq(Bytes) /\ Len(peek(e)) = b.w - b.r
          /\ \A i \in 1 .. b.w - b.r : peek(e)[i] = peek(b)[i]
      <4>1. /\ peek(e) \in Seq(Bytes) /\ Len(peek(e)) = e.w - e.r
            /\ \A i \in 1 .. e.w - e.r : peek(e)[i] = e.mem[e.r + i]
        BY <2>6, PeekProperties
      <4>2. e.w - e.r = b.w - b.r
        BY <1>1, <2>4
      <4>3. QED
        BY <2>4, <3>1, <4>1, <4>2
    <3>3. QED
      BY <2>2, <3>2, SeqEqual
  <2>8. QED
    BY <1>1, <2>3, <2>4, <2>5, <2>6, <2>7 DEF e
<1>5. QED
  BY <1>1, <1>2, <1>3, <1>4

(***************************************************************************)
(* append() adds its bytes behind the readable ones.                       *)
(***************************************************************************)
LEMMA AppendedProperties ==
  ASSUME NEW b, Good(b), NEW s \in Seq(Bytes)
  PROVE  LET a == Appended(b, s) IN
         /\ Good(a)
         /\ peek(a) = peek(b) \o s
         /\ readableBytes(a) = readableBytes(b) + Len(s)
         /\ Len(a.mem) # Len(b.mem) =>
              /\ writableBytes(b) < Len(s)
              /\ Len(a.mem) < kCheapPrepend + readableBytes(b) + 2 * Len(s)
<1> DEFINE e == ensureWritableBytes(b, Len(s))
           copied == Copy(e.mem, s, e.w)
           a == Appended(b, s)
<1>1. Len(s) \in Nat
  BY LenProperties
<1>2. /\ Good(e) /\ Len(s) <= writableBytes(e) /\ peek(e) = peek(b)
      /\ readableBytes(e) = readableBytes(b)
      /\ Len(e.mem) # Len(b.mem) =>
           /\ writableBytes(b) < Len(s)
           /\ Len(e.mem) < kCheapPrepend + readableBytes(b) + 2 * Len(s)
  BY <1>1, RoomMade
<1>3. a = [e EXCEPT !.mem = copied, !.w = e.w + Len(s)]
  BY DEF Appended
<1> HIDE DEF e, a
<1>4. /\ e.mem \in Seq(Bytes) /\ e.r \in Nat /\ e.w \in Nat /\ Len(e.mem) \in Nat
      /\ e.r <= e.w /\ e.w + Len(s) <= Len(e.mem) /\ kCheapPrepend <= Len(e.mem)
      /\ e = [mem |-> e.mem, r |-> e.r, w |-> e.w]
  BY <1>1, <1>2, LenProperties DEF Good, writableBytes
<1>5. /\ copied \in Seq(Bytes) /\ Len(copied) = Len(e.mem)
      /\ \A i \in 1 .. Len(e.mem) :
           copied[i] = IF e.w < i /\ i <= e.w + Len(s) THEN s[i - e.w] ELSE e.mem[i]
  BY <1>4, CopyProperties
<1> HIDE DEF copied
<1>6. /\ a.mem = copied /\ a.r = e.r /\ a.w = e.w + Len(s)
      /\ a \in [mem : Seq(Bytes), r : Nat, w : Nat]
  <2>1. a = [mem |-> copied, r |-> e.r, w |-> e.w + Len(s)]
    BY <1>3, <1>4
  <2>2. QED
    BY <1>1, <1>4, <1>5, <2>1
<1>7. Good(a)
  BY <1>1, <1>4, <1>5, <1>6 DEF Good
<1>8. peek(a) = peek(e) \o s
  <2>1. /\ peek(e) \in Seq(Bytes) /\ Len(peek(e)) = e.w - e.r
        /\ \A i \in 1 .. e.w - e.r : peek(e)[i] = e.mem[e.r + i]
    BY <1>2, PeekProperties
  <2>2. /\ peek(a) \in Seq(Bytes) /\ Len(peek(a)) = a.w - a.r
        /\ \A i \in 1 .. a.w - a.r : peek(a)[i] = a.mem[a.r + i]
    BY <1>7, PeekProperties
  <2>3. /\ peek(e) \o s \in Seq(Bytes)
        /\ Len(peek(e) \o s) = (e.w - e.r) + Len(s)
        /\ \A i \in 1 .. (e.w - e.r) + Len(s) :
             (peek(e) \o s)[i] = IF i <= e.w - e.r THEN peek(e)[i] ELSE s[i - (e.w - e.r)]
    <3>1. /\ peek(e) \o s \in Seq(Bytes)
          /\ Len(peek(e) \o s) = Len(peek(e)) + Len(s)
          /\ \A i \in 1 .. Len(peek(e)) + Len(s) :
               (peek(e) \o s)[i] = IF i <= Len(peek(e)) THEN peek(e)[i] ELSE s[i - Len(peek(e))]
      BY <2>1, ConcatProperties, Zenon
    <3>2. QED
      BY <2>1, <3>1
  <2>4. ASSUME NEW i \in 1 .. (e.w - e.r) + Len(s)
        PROVE  peek(a)[i] = (peek(e) \o s)[i]
    <3>1. peek(a)[i] = copied[e.r + i] /\ e.r + i \in 1 .. Len(e.mem)
      BY <1>1, <1>4, <1>6, <2>2
    <3>2. CASE i <= e.w - e.r
      <4>1. copied[e.r + i] = e.mem[e.r + i]
        BY <1>1, <1>4, <1>5, <3>1, <3>2
      <4>2. i \in 1 .. e.w - e.r
        BY <1>4, <3>2
      <4>3. QED
        BY <2>1, <2>3, <3>1, <3>2, <4>1, <4>2
    <3>3. CASE ~(i <= e.w - e.r)
      <4>1. copied[e.r + i] = s[e.r + i - e.w]
        BY <1>1, <1>4, <1>5, <3>1, <3>3
      <4>2. e.r + i - e.w = i - (e.w - e.r)
        BY <1>4
      <4>3. QED
        BY <2>3, <3>1, <3>3, <4>1, <4>2
    <3>4. QED
      BY <3>2, <3>3
  <2>5. Len(peek(a)) = Len(peek(e) \o s)
    BY <1>1, <1>4, <1>6, <2>2, <2>3
  <2>6. QED
    BY <1>1, <1>4, <2>2, <2>3, <2>4, <2>5, SeqEqual
<1>9. QED
  BY <1>1, <1>2, <1>4, <1>5, <1>6, <1>7, <1>8 DEF a, readableBytes

-----------------------------------------------------------------------------
\* What an operation is given is a sequence of at most MaxChunk bytes.
LEMMA ChunkProperties ==
  ASSUME NEW s \in Chunks
  PROVE  s \in Seq(Bytes) /\ Len(s) \in 1 .. MaxChunk
<1>1. PICK n \in 1 .. MaxChunk : s \in [1 .. n -> Bytes]
  BY DEF Chunks
<1>2. n \in Nat
  BY <1>1, BufferAssumption
<1>3. s \in Seq(Bytes)
  BY <1>1, <1>2, SeqDef
<1>4. Len(s) = n
  BY <1>1, <1>2, <1>3, LenProperties
<1>5. QED
  BY <1>1, <1>3, <1>4

\* TypeOK is Good of the current value.
LEMMA TypeIsGood == TypeOK <=> Good(Now)
<1>1. TypeOK => Good(Now)
  BY LenProperties DEF TypeOK, Good, Now
<1>2. Good(Now) => TypeOK
  BY LenProperties DEF TypeOK, Good, Now
<1>3. QED
  BY <1>1, <1>2

(***************************************************************************)
(* What a step makes of the value, whatever becomes of its bytes: the new  *)
(* value is good, and the vector has grown only as GrowthBounded allows.   *)
(***************************************************************************)
StepOK(old, new) ==
  /\ Good(new)
  /\ Len(new.mem) # Len(old.mem) =>
       \E len \in 0 .. MaxChunk :
          /\ writableBytes(old) < len
          /\ Len(new.mem) < kCheapPrepend + readableBytes(old) + 2 * len

\* The components of a good value.
LEMMA GoodParts ==
  ASSUME Good(Now)
  PROVE  /\ buffer_ \in Seq(Bytes) /\ Len(buffer_) \in Nat
         /\ readerIndex_ \in Nat /\ writerIndex_ \in Nat
         /\ readerIndex_ <= writerIndex_ /\ writerIndex_ <= Len(buffer_)
         /\ kCheapPrepend \in Nat /\ kCheapPrepend <= Len(buffer_)
         /\ Now.mem = buffer_ /\ Now.r = readerIndex_ /\ Now.w = writerIndex_
BY LenProperties, BufferAssumption DEF Good, Now

\* Writing at an offset that keeps within the vector keeps a value good.
LEMMA GoodWrite ==
  ASSUME NEW mem \in Seq(Bytes), NEW r \in Nat, NEW w \in Nat,
         r <= w, w <= Len(mem), kCheapPrepend <= Len(mem)
  PROVE  Good([mem |-> mem, r |-> r, w |-> w])
BY DEF Good

\* append() adds exactly the bytes it is given, behind those there are.
LEMMA AppendStep ==
  ASSUME Good(Now), NEW s \in Chunks, AppendBytes(s)
  PROVE  StepOK(Now, Now') /\ peek(Now') = peek(Now) \o s
<1>1. s \in Seq(Bytes) /\ Len(s) \in 1 .. MaxChunk
  BY ChunkProperties
<1> DEFINE a == Appended(Now, s)
<1>2. /\ Good(a) /\ peek(a) = peek(Now) \o s
      /\ Len(a.mem) # Len(buffer_) =>
           /\ writableBytes(Now) < Len(s)
           /\ Len(a.mem) < kCheapPrepend + readableBytes(Now) + 2 * Len(s)
  BY <1>1, AppendedProperties, GoodParts
<1>3. Now' = [mem |-> a.mem, r |-> a.r, w |-> a.w]
  BY DEF AppendBytes, Become, Now
<1> HIDE DEF a
<1>4. Now' = a
  BY <1>2, <1>3 DEF Good
<1>5. Len(s) \in 0 .. MaxChunk
  BY <1>1
<1>6. QED
  BY <1>2, <1>4, <1>5, GoodParts DEF StepOK

\* ensureWritableBytes() leaves the readable bytes alone.
LEMMA ReserveStep ==
  ASSUME Good(Now), NEW len \in 0 .. MaxChunk, Reserve(len)
  PROVE  StepOK(Now, Now') /\ peek(Now') = peek(Now)
<1> DEFINE e == ensureWritableBytes(Now, len)
<1>1. /\ Good(e) /\ peek(e) = peek(Now)
      /\ Len(e.mem) # Len(buffer_) =>
           /\ writableBytes(Now) < len
           /\ Len(e.mem) < kCheapPrepend + readableBytes(Now) + 2 * len
  BY RoomMade, GoodParts
<1>2. Now' = [mem |-> e.mem, r |-> e.r, w |-> e.w]
  BY DEF Reserve, Become, Now
<1> HIDE DEF e
<1>3. Now' = e
  BY <1>1, <1>2 DEF Good
<1>4. QED
  BY <1>1, <1>3, GoodParts DEF StepOK

(***************************************************************************)
(* Bytes written right behind the readable ones, as far as the vector      *)
(* goes, become readable with the index.                                   *)
(***************************************************************************)
LEMMA WrittenBehind ==
  ASSUME Good(Now), NEW s \in Seq(Bytes), NEW n \in 0 .. Len(s),
         writerIndex_ + n <= Len(buffer_)
  PROVE  LET b == [mem |-> Copy(buffer_, s, writerIndex_), r |-> readerIndex_,
                   w |-> writerIndex_ + n] IN
         Good(b) /\ peek(b) = peek(Now) \o SubSeq(s, 1, n)
<1> DEFINE copied == Copy(buffer_, s, writerIndex_)
           b == [mem |-> copied, r |-> readerIndex_, w |-> writerIndex_ + n]
           t == SubSeq(s, 1, n)
<1>1. /\ buffer_ \in Seq(Bytes) /\ Len(buffer_) \in Nat /\ readerIndex_ \in Nat
      /\ writerIndex_ \in Nat /\ readerIndex_ <= writerIndex_ /\ kCheapPrepend <= Len(buffer_)
      /\ Now.mem = buffer_ /\ Now.r = readerIndex_ /\ Now.w = writerIndex_
  BY GoodParts
<1>2. Len(s) \in Nat /\ n \in Nat
  BY LenProperties
<1>3. /\ copied \in Seq(Bytes) /\ Len(copied) = Len(buffer_)
      /\ \A i \in 1 .. Len(buffer_) :
           copied[i] = IF writerIndex_ < i /\ i <= writerIndex_ + Len(s)
                       THEN s[i - writerIndex_] ELSE buffer_[i]
  BY <1>1, CopyProperties
<1>4. Good(b) /\ b.mem = copied /\ b.r = readerIndex_ /\ b.w = writerIndex_ + n
  <2> HIDE DEF copied
  <2>1. /\ writerIndex_ + n \in Nat /\ readerIndex_ <= writerIndex_ + n
        /\ writerIndex_ + n <= Len(copied) /\ kCheapPrepend <= Len(copied)
    BY <1>1, <1>2, <1>3
  <2>2. Good(b)
    BY <1>1, <1>3, <2>1, GoodWrite
  <2>3. QED
    BY <2>2
<1>5. t \in Seq(Bytes) /\ Len(t) = n /\ \A i \in 1 .. n : t[i] = s[i]
  <2>1. /\ SubSeq(s, 0 + 1, n) \in Seq(Bytes)
        /\ Len(SubSeq(s, 0 + 1, n)) = n - 0
        /\ \A i \in 1 .. n - 0 : SubSeq(s, 0 + 1, n)[i] = s[0 + i]
    BY <1>2, PieceProperties
  <2>2. t = SubSeq(s, 0 + 1, n)
    OBVIOUS
  <2>3. QED
    BY <1>2, <2>1, <2>2
<1>6. /\ peek(Now) \in Seq(Bytes) /\ Len(peek(Now)) = writerIndex_ - readerIndex_
      /\ \A i \in 1 .. writerIndex_ - readerIndex_ : peek(Now)[i] = buffer_[readerIndex_ + i]
  BY <1>1, PeekProperties
<1>7. /\ peek(b) \in Seq(Bytes) /\ Len(peek(b)) = writerIndex_ + n - readerIndex_
      /\ \A i \in 1 .. writerIndex_ + n - readerIndex_ : peek(b)[i] = copied[readerIndex_ + i]
  <2> HIDE DEF b, copied
  <2>1. /\ peek(b) \in Seq(Bytes) /\ Len(peek(b)) = b.w - b.r
        /\ \A i \in 1 .. b.w - b.r : peek(b)[i] = b.mem[b.r + i]
    BY <1>4, PeekProperties
  <2>2. /\ b.w = writerIndex_ + n /\ b.r = readerIndex_ /\ b.mem = copied
    BY <1>4, Zenon
  <2>3. b.w - b.r = writerIndex_ + n - readerIndex_
    BY <1>1, <1>2, <2>2
  <2>4. QED
    BY <1>1, <1>2, <2>1, <2>2, <2>3
<1> HIDE DEF copied, b, t
<1>8. /\ peek(Now) \o t \in Seq(Bytes)
      /\ Len(peek(Now) \o t) = (writerIndex_ - readerIndex_) + n
      /\ \A i \in 1 .. (writerIndex_ - readerIndex_) + n :
           (peek(Now) \o t)[i] = IF i <= writerIndex_ - readerIndex_ THEN peek(Now)[i]
                                 ELSE t[i - (writerIndex_ - readerIndex_)]
  <2>1. /\ peek(Now) \o t \in Seq(Bytes)
        /\ Len(peek(Now) \o t) = Len(peek(Now)) + Len(t)
        /\ \A i \in 1 .. Len(peek(Now)) + Len(t) :
             (peek(Now) \o t)[i] = IF i <= Len(peek(Now)) THEN peek(Now)[i]
                                   ELSE t[i - Len(peek(Now))]
    BY <1>5, <1>6, ConcatProperties, Zenon
  <2>2. QED
    BY <1>5, <1>6, <2>1
<1>9. ASSUME NEW i \in 1 .. writerIndex_ + n - readerIndex_
      PROVE  peek(b)[i] = (peek(Now) \o t)[i]
  <2>1. peek(b)[i] = copied[readerIndex_ + i] /\ readerIndex_ + i \in 1 .. Len(buffer_)
    BY <1>1, <1>2, <1>7
  <2>2. CASE i <= writerIndex_ - readerIndex_
    <3>1. copied[readerIndex_ + i] = buffer_[readerIndex_ + i]
      BY <1>1, <1>2, <1>3, <2>1, <2>2
    <3>2. i \in 1 .. writerIndex_ - readerIndex_ /\ i \in 1 .. (writerIndex_ - readerIndex_) + n
      BY <1>1, <1>2, <2>2
    <3>3. QED
      BY <1>6, <1>8, <2>1, <2>2, <3>1, <3>2
  <2>3. CASE ~(i <= writerIndex_ - readerIndex_)
    <3>1. copied[readerIndex_ + i] = s[readerIndex_ + i - writerIndex_]
      <4> DEFINE k == readerIndex_ + i
      <4>1. writerIndex_ < k /\ k <= writerIndex_ + Len(s) /\ k \in 1 .. Len(buffer_)
        BY <1>1, <1>2, <2>1, <2>3
      <4> HIDE DEF k
      <4>2. copied[k] = s[k - writerIndex_]
        BY <1>3, <4>1
      <4>3. k - writerIndex_ = readerIndex_ + (i - writerIndex_)
        BY <1>1 DEF k
      <4> QED BY <4>2, <4>3 DEF k
    <3>2. /\ readerIndex_ + i - writerIndex_ = i - (writerIndex_ - readerIndex_)
          /\ i - (writerIndex_ - readerIndex_) \in 1 .. n
          /\ i \in 1 .. (writerIndex_ - readerIndex_) + n
      BY <1>1, <1>2, <2>3
    <3>3. QED
      BY <1>5, <1>8, <2>1, <2>3, <3>1, <3>2
  <2>4. QED
    BY <2>2, <2>3
<1>10. peek(b) = peek(Now) \o t
  <2>1. Len(peek(b)) = Len(peek(Now) \o t)
    BY <1>1, <1>2, <1>7, <1>8
  <2>2. QED
    BY <1>7, <1>8, <1>9, <2>1, SeqEqual
<1>11. QED
  BY <1>4, <1>10 DEF b, copied, t

\* Bytes written at beginWrite() are added behind those there are.
LEMMA WriteInPlaceStep ==
  ASSUME Good(Now), NEW s \in Chunks, WriteInPlace(s)
  PROVE  StepOK(Now, Now') /\ peek(Now') = peek(Now) \o s
<1>1. s \in Seq(Bytes) /\ Len(s) \in 0 .. Len(s) /\ SubSeq(s, 1, Len(s)) = s
  BY ChunkProperties, SubSeqFull
<1>2. writerIndex_ + Len(s) <= Len(buffer_)
  BY <1>1, GoodParts DEF WriteInPlace, writableBytes
<1>3. Now' = [mem |-> Copy(buffer_, s, writerIndex_), r |-> readerIndex_, w |-> writerIndex_ + Len(s)]
  BY DEF WriteInPlace, Now
<1>4. Good(Now') /\ peek(Now') = peek(Now) \o s
  BY <1>1, <1>2, <1>3, WrittenBehind
<1>5. Len(Now'.mem) = Len(Now.mem)
  BY <1>1, <1>3, CopyProperties, GoodParts
<1>6. QED
  BY <1>4, <1>5 DEF StepOK

\* prepend() puts exactly its bytes in front of those there are.
LEMMA PrependStep ==
  ASSUME Good(Now), NEW s \in Chunks, Prepend(s)
  PROVE  StepOK(Now, Now') /\ peek(Now') = s \o peek(Now)
<1> DEFINE at == readerIndex_ - Len(s)
           copied == Copy(buffer_, s, at)
<1>1. s \in Seq(Bytes) /\ Len(s) \in Nat
  BY ChunkProperties, LenProperties
<1>2. /\ buffer_ \in Seq(Bytes) /\ Len(buffer_) \in Nat /\ readerIndex_ \in Nat
      /\ writerIndex_ \in Nat /\ readerIndex_ <= writerIndex_ /\ writerIndex_ <= Len(buffer_)
      /\ kCheapPrepend <= Len(buffer_)
      /\ Now.mem = buffer_ /\ Now.r = readerIndex_ /\ Now.w = writerIndex_
  BY GoodParts
<1>3. at \in Nat /\ at <= writerIndex_ /\ at + Len(s) = readerIndex_
  BY <1>1, <1>2 DEF Prepend, prependableBytes
<1>4. Now' = [mem |-> copied, r |-> at, w |-> writerIndex_]
  BY DEF Prepend, Now
<1> HIDE DEF at
<1>5. /\ copied \in Seq(Bytes) /\ Len(copied) = Len(buffer_)
      /\ \A i \in 1 .. Len(buffer_) :
           copied[i] = IF at < i /\ i <= at + Len(s) THEN s[i - at] ELSE buffer_[i]
  BY <1>1, <1>2, <1>3, CopyProperties
<1> HIDE DEF copied
<1>6. Good(Now') /\ Now'.mem = copied /\ Now'.r = at /\ Now'.w = writerIndex_
  BY <1>2, <1>3, <1>4, <1>5, GoodWrite
<1>7. /\ peek(Now) \in Seq(Bytes) /\ Len(peek(Now)) = writerIndex_ - readerIndex_
      /\ \A i \in 1 .. writerIndex_ - readerIndex_ : peek(Now)[i] = buffer_[readerIndex_ + i]
  BY <1>2, PeekProperties
<1>8. /\ peek(Now') \in Seq(Bytes) /\ Len(peek(Now')) = writerIndex_ - at
      /\ \A i \in 1 .. writerIndex_ - at : peek(Now')[i] = copied[at + i]
  <2>1. \A b : Good(b) =>
          /\ peek(b) \in Seq(Bytes) /\ Len(peek(b)) = b.w - b.r
          /\ \A i \in 1 .. b.w - b.r : peek(b)[i] = b.mem[b.r + i]
    BY PeekProperties
  <2>2. QED
    BY <1>6, <2>1
<1>9. /\ s \o peek(Now) \in Seq(Bytes)
      /\ Len(s \o peek(Now)) = Len(s) + (writerIndex_ - readerIndex_)
      /\ \A i \in 1 .. Len(s) + (writerIndex_ - readerIndex_) :
           (s \o peek(Now))[i] = IF i <= Len(s) THEN s[i] ELSE peek(Now)[i - Len(s)]
  <2>1. /\ s \o peek(Now) \in Seq(Bytes)
        /\ Len(s \o peek(Now)) = Len(s) + Len(peek(Now))
        /\ \A i \in 1 .. Len(s) + Len(peek(Now)) :
             (s \o peek(Now))[i] = IF i <= Len(s) THEN s[i] ELSE peek(Now)[i - Len(s)]
    BY <1>1, <1>7, ConcatProperties, Zenon
  <2>2. QED
    BY <1>7, <2>1
<1>10. ASSUME NEW i \in 1 .. writerIndex_ - at
       PROVE  peek(Now')[i] = (s \o peek(Now))[i]
  <2>1. /\ peek(Now')[i] = copied[at + i] /\ at + i \in 1 .. Len(buffer_)
        /\ i \in 1 .. Len(s) + (writerIndex_ - readerIndex_)
    BY <1>1, <1>2, <1>3, <1>8
  <2>2. CASE i <= Len(s)
    <3>1. copied[at + i] = s[at + i - at] /\ at + i - at = i
      BY <1>1, <1>2, <1>3, <1>5, <2>1, <2>2
    <3>2. QED
      BY <1>9, <2>1, <2>2, <3>1
  <2>3. CASE ~(i <= Len(s))
    <3>1. copied[at + i] = buffer_[at + i]
      <4>1. ~(at + i <= at + Len(s))
        BY <1>1, <1>3, <2>3
      <4> QED BY <1>5, <2>1, <4>1
    <3>2. /\ at + i = readerIndex_ + (i - Len(s))
          /\ i - Len(s) \in 1 .. writerIndex_ - readerIndex_
      BY <1>1, <1>2, <1>3, <2>1, <2>3
    <3>3. QED
      BY <1>7, <1>9, <2>1, <2>3, <3>1, <3>2
  <2>4. QED
    BY <2>2, <2>3
<1>11. peek(Now') = s \o peek(Now)
  <2>1. Len(peek(Now')) = Len(s \o peek(Now))
    <3>1. writerIndex_ - at = Len(s) + (writerIndex_ - readerIndex_)
      BY <1>1, <1>2, <1>3
    <3> QED BY <1>8, <1>9, <3>1
  <2>2. QED
    BY <1>8, <1>9, <1>10, <2>1, SeqEqual
<1>12. QED
  BY <1>2, <1>5, <1>6, <1>11 DEF StepOK

\* retrieve() takes as many bytes off the front as it is told, retrieveAll() all.
LEMMA RetrieveStep ==
  ASSUME Good(Now), NEW len \in 0 .. readableBytes(Now), Retrieve(len)
  PROVE  StepOK(Now, Now') /\ peek(Now') = SubSeq(peek(Now), len + 1, Len(peek(Now)))
<1>1. /\ buffer_ \in Seq(Bytes) /\ Len(buffer_) \in Nat /\ readerIndex_ \in Nat
      /\ writerIndex_ \in Nat /\ readerIndex_ <= writerIndex_ /\ writerIndex_ <= Len(buffer_)
      /\ kCheapPrepend \in Nat /\ kCheapPrepend <= Len(buffer_)
      /\ Now.mem = buffer_ /\ Now.r = readerIndex_ /\ Now.w = writerIndex_
  BY GoodParts
<1>2. len \in Nat /\ len <= writerIndex_ - readerIndex_
  BY <1>1 DEF readableBytes
<1>3. /\ peek(Now) \in Seq(Bytes) /\ Len(peek(Now)) = writerIndex_ - readerIndex_
      /\ \A i \in 1 .. writerIndex_ - readerIndex_ : peek(Now)[i] = buffer_[readerIndex_ + i]
  BY <1>1, PeekProperties
<1>4. Now' = [mem |-> buffer_, r |-> readerIndex_', w |-> writerIndex_']
  BY DEF Retrieve, Now
<1>5. /\ readerIndex_' \in Nat /\ writerIndex_' \in Nat
      /\ readerIndex_' <= writerIndex_' /\ writerIndex_' <= Len(buffer_)
  BY <1>1, <1>2 DEF Retrieve, readableBytes
<1>6. Good(Now') /\ Now'.mem = buffer_ /\ Now'.r = readerIndex_' /\ Now'.w = writerIndex_'
  BY <1>1, <1>4, <1>5, GoodWrite
<1>7. \A b : Good(b) =>
        /\ peek(b) \in Seq(Bytes) /\ Len(peek(b)) = b.w - b.r
        /\ \A i \in 1 .. b.w - b.r : peek(b)[i] = b.mem[b.r + i]
  BY PeekProperties
<1>8. /\ peek(Now') \in Seq(Bytes) /\ Len(peek(Now')) = writerIndex_' - readerIndex_'
      /\ \A i \in 1 .. writerIndex_' - readerIndex_' : peek(Now')[i] = buffer_[readerIndex_' + i]
  BY <1>6, <1>7
<1> DEFINE rest == SubSeq(peek(Now), len + 1, Len(peek(Now)))
<1>9. /\ rest \in Seq(Bytes)
      /\ Len(rest) = writerIndex_ - readerIndex_ - len
      /\ \A i \in 1 .. writerIndex_ - readerIndex_ - len : rest[i] = peek(Now)[len + i]
  <2>1. Len(peek(Now)) \in Nat /\ len <= Len(peek(Now))
    BY <1>1, <1>2, <1>3
  <2>2. /\ rest \in Seq(Bytes)
        /\ Len(rest) = Len(peek(Now)) - len
        /\ \A i \in 1 .. Len(peek(Now)) - len : rest[i] = peek(Now)[len + i]
    BY <1>2, <1>3, <2>1, PieceProperties
  <2> HIDE DEF rest
  <2>3. QED
    BY <1>3, <2>2
<1> HIDE DEF rest
<1>10. peek(Now') = rest
  <2>1. CASE len < writerIndex_ - readerIndex_
    <3>1. readerIndex_' = readerIndex_ + len /\ writerIndex_' = writerIndex_
      BY <1>1, <2>1 DEF Retrieve, readableBytes
    <3>2. Len(peek(Now')) = Len(rest)
      BY <1>1, <1>2, <1>8, <1>9, <3>1
    <3>3. ASSUME NEW i \in 1 .. Len(peek(Now'))
          PROVE  peek(Now')[i] = rest[i]
      <4>1. /\ i \in 1 .. writerIndex_' - readerIndex_' /\ i \in 1 .. writerIndex_ - readerIndex_ - len
            /\ len + i \in 1 .. writerIndex_ - readerIndex_
            /\ readerIndex_' + i = readerIndex_ + (len + i)
        BY <1>1, <1>2, <1>8, <3>1
      <4>2. QED
        BY <1>3, <1>8, <1>9, <4>1
    <3>4. QED
      BY <1>8, <1>9, <3>2, <3>3, SeqEqual
  <2>2. CASE ~(len < writerIndex_ - readerIndex_)
    <3>1. readerIndex_' = kCheapPrepend /\ writerIndex_' = kCheapPrepend
      BY <1>1, <2>2 DEF Retrieve, readableBytes
    <3>2. Len(peek(Now')) = 0 /\ Len(rest) = 0
      BY <1>1, <1>2, <1>8, <1>9, <2>2, <3>1
    <3>3. \A i \in 1 .. Len(peek(Now')) : peek(Now')[i] = rest[i]
      BY <3>2
    <3>4. QED
      BY <1>8, <1>9, <3>2, <3>3, SeqEqual
  <2>3. QED
    BY <2>1, <2>2
<1>11. len \in 0 .. Len(peek(Now))
  BY <1>2, <1>3
<1>12. QED
  BY <1>1, <1>6, <1>10, <1>11 DEF StepOK, rest

\* unwrite() takes as many bytes off the end as it is told.
LEMMA UnwriteStep ==
  ASSUME Good(Now), NEW len \in 0 .. readableBytes(Now), Unwrite(len)
  PROVE  StepOK(Now, Now') /\ peek(Now') = SubSeq(peek(Now), 1, Len(peek(Now)) - len)
<1>1. /\ buffer_ \in Seq(Bytes) /\ Len(buffer_) \in Nat /\ readerIndex_ \in Nat
      /\ writerIndex_ \in Nat /\ readerIndex_ <= writerIndex_ /\ writerIndex_ <= Len(buffer_)
      /\ kCheapPrepend <= Len(buffer_)
      /\ Now.mem = buffer_ /\ Now.r = readerIndex_ /\ Now.w = writerIndex_
  BY GoodParts
<1> DEFINE m == writerIndex_ - readerIndex_ - len
<1>2. /\ len \in Nat /\ m \in Nat /\ m <= writerIndex_ - readerIndex_
      /\ writerIndex_ - len \in Nat /\ readerIndex_ <= writerIndex_ - len
      /\ writerIndex_ - len <= Len(buffer_) /\ (writerIndex_ - len) - readerIndex_ = m
  BY <1>1 DEF readableBytes
<1>3. /\ peek(Now) \in Seq(Bytes) /\ Len(peek(Now)) = writerIndex_ - readerIndex_
      /\ \A i \in 1 .. writerIndex_ - readerIndex_ : peek(Now)[i] = buffer_[readerIndex_ + i]
  BY <1>1, PeekProperties
<1>4. Now' = [mem |-> buffer_, r |-> readerIndex_, w |-> writerIndex_ - len]
  BY DEF Unwrite, Now
<1>5. Good(Now') /\ Now'.mem = buffer_ /\ Now'.r = readerIndex_ /\ Now'.w = writerIndex_ - len
  BY <1>1, <1>2, <1>4, GoodWrite
<1>6. \A b : Good(b) =>
        /\ peek(b) \in Seq(Bytes) /\ Len(peek(b)) = b.w - b.r
        /\ \A i \in 1 .. b.w - b.r : peek(b)[i] = b.mem[b.r + i]
  BY PeekProperties
<1>7. Len(peek(Now)) - len = m
  BY <1>1, <1>2, <1>3
<1> HIDE DEF m
<1>8. /\ peek(Now') \in Seq(Bytes) /\ Len(peek(Now')) = m
      /\ \A i \in 1 .. m : peek(Now')[i] = buffer_[readerIndex_ + i]
  BY <1>2, <1>5, <1>6
<1> DEFINE kept == SubSeq(peek(Now), 1, m)
<1>9. kept \in Seq(Bytes) /\ Len(kept) = m /\ \A i \in 1 .. m : kept[i] = peek(Now)[i]
  <2>1. 0 <= m /\ m <= Len(peek(Now))
    BY <1>1, <1>2, <1>3
  <2>2. /\ SubSeq(peek(Now), 0 + 1, m) \in Seq(Bytes)
        /\ Len(SubSeq(peek(Now), 0 + 1, m)) = m - 0
        /\ \A i \in 1 .. m - 0 : SubSeq(peek(Now), 0 + 1, m)[i] = peek(Now)[0 + i]
    BY <1>2, <1>3, <2>1, PieceProperties
  <2>3. kept = SubSeq(peek(Now), 0 + 1, m)
    OBVIOUS
  <2> HIDE DEF kept
  <2>4. QED
    BY <1>2, <2>2, <2>3
<1> HIDE DEF kept
<1>10. ASSUME NEW i \in 1 .. m
       PROVE  peek(Now')[i] = kept[i]
  <2>1. i \in 1 .. writerIndex_ - readerIndex_
    BY <1>1, <1>2
  <2>2. QED
    BY <1>3, <1>8, <1>9, <2>1
<1>11. peek(Now') = kept
  BY <1>8, <1>9, <1>10, SeqEqual
<1>12. len \in 0 .. Len(peek(Now))
  BY <1>1, <1>2, <1>3
<1>13. peek(Now') = SubSeq(peek(Now), 1, Len(peek(Now)) - len)
  BY <1>7, <1>11 DEF kept
<1>14. QED
  BY <1>1, <1>5, <1>12, <1>13 DEF StepOK

\* readFd() adds exactly what readv() read, in the vector or in extrabuf.
LEMMA ReadFdStep ==
  ASSUME Good(Now), NEW s \in Chunks, ReadFd(s)
  PROVE  StepOK(Now, Now') /\ peek(Now') = peek(Now) \o s
<1> DEFINE writable == writableBytes(Now)
           inside == Copy(buffer_, s, writerIndex_)
<1>1. /\ buffer_ \in Seq(Bytes) /\ Len(buffer_) \in Nat /\ readerIndex_ \in Nat
      /\ writerIndex_ \in Nat /\ readerIndex_ <= writerIndex_ /\ writerIndex_ <= Len(buffer_)
      /\ kCheapPrepend \in Nat /\ kCheapPrepend <= Len(buffer_)
      /\ Now.mem = buffer_ /\ Now.r = readerIndex_ /\ Now.w = writerIndex_
  BY GoodParts
<1>2. s \in Seq(Bytes) /\ Len(s) \in 1 .. MaxChunk /\ MaxChunk \in Nat
  BY ChunkProperties, BufferAssumption
<1>3. writable \in Nat /\ writerIndex_ + writable = Len(buffer_)
  BY <1>1 DEF writableBytes
<1>4. inside \in Seq(Bytes) /\ Len(inside) = Len(buffer_)
  BY <1>1, <1>2, CopyProperties
<1>5. CASE Len(s) <= writable
  <2>1. Len(s) \in 0 .. Len(s) /\ SubSeq(s, 1, Len(s)) = s
    BY <1>2, SubSeqFull
  <2>2. writerIndex_ + Len(s) <= Len(buffer_)
    BY <1>1, <1>2, <1>3, <1>5
  <2>3. Now' = [mem |-> inside, r |-> readerIndex_, w |-> writerIndex_ + Len(s)]
    BY <1>5 DEF ReadFd, Now
  <2>4. Good(Now') /\ peek(Now') = peek(Now) \o s
    BY <1>2, <2>1, <2>2, <2>3, WrittenBehind
  <2> HIDE DEF inside
  <2>5. Len(Now'.mem) = Len(Now.mem)
    BY <1>1, <1>4, <2>3
  <2>6. QED
    BY <2>4, <2>5 DEF StepOK
<1>6. CASE ~(Len(s) <= writable)
  <2> DEFINE topped == [mem |-> inside, r |-> readerIndex_, w |-> writerIndex_ + writable]
             first  == SubSeq(s, 1, writable)
             extra  == SubSeq(s, writable + 1, Len(s))
             a      == Appended(topped, extra)
  <2>1. writable \in 0 .. Len(s)
    BY <1>2, <1>3, <1>6
  <2>2. Good(topped) /\ peek(topped) = peek(Now) \o first
    <3> HIDE DEF writable
    <3>1. writerIndex_ + writable <= Len(buffer_)
      BY <1>1, <1>3
    <3>2. QED
      BY <1>2, <2>1, <3>1, WrittenBehind
  <2>3. extra \in Seq(Bytes) /\ Len(extra) = Len(s) - writable
    <3> HIDE DEF writable
    <3>1. writable <= Len(s) /\ Len(s) \in Nat
      BY <1>2, <1>3, <1>6
    <3>2. QED
      BY <1>2, <1>3, <3>1, PieceProperties
  <2>4. first \o extra = s
    <3>1. /\ 1 \in 1 .. Len(s) + 1 /\ writable \in 1 - 1 .. Len(s)
          /\ Len(s) \in writable .. Len(s)
      BY <1>2, <1>3, <2>1
    <3>2. first \o extra = SubSeq(s, 1, Len(s))
      BY <1>2, <3>1, ConcatAdjacentSubSeq
    <3>3. QED
      BY <1>2, <3>2, SubSeqFull
  <2>5. first \in Seq(Bytes)
    <3> HIDE DEF writable
    <3>1. SubSeq(s, 0 + 1, writable) \in Seq(Bytes)
      BY <1>2, <1>3, <2>1, PieceProperties
    <3>2. QED
      BY <3>1
  <2>6. /\ Good(a) /\ peek(a) = peek(topped) \o extra
        /\ Len(a.mem) # Len(topped.mem) =>
             /\ writableBytes(topped) < Len(extra)
             /\ Len(a.mem) < kCheapPrepend + readableBytes(topped) + 2 * Len(extra)
    BY <2>2, <2>3, AppendedProperties
  <2>7. peek(a) = peek(Now) \o s
    <3>1. peek(Now) \in Seq(Bytes)
      BY PeekProperties
    <3> HIDE DEF a, topped, first, extra
    <3>2. (peek(Now) \o first) \o extra = peek(Now) \o (first \o extra)
      BY <2>3, <2>5, <3>1, ConcatAssociative
    <3>3. QED
      BY <2>2, <2>4, <2>6, <3>2
  <2>8. Now' = a
    <3>1. [mem |-> inside, r |-> readerIndex_, w |-> Len(buffer_)] = topped
      <4> HIDE DEF inside, writable
      <4>1. QED
        BY <1>3
    <3>2. Now' = [mem |-> a.mem, r |-> a.r, w |-> a.w]
      BY <1>6, <3>1 DEF ReadFd, Become, Now
    <3> HIDE DEF a
    <3>3. QED
      BY <2>6, <3>2 DEF Good
  <2>9. Len(a.mem) # Len(buffer_) =>
          /\ writable < Len(s)
          /\ Len(a.mem) < kCheapPrepend + readableBytes(Now) + 2 * Len(s)
    <3>1. /\ topped.mem = inside /\ readableBytes(topped) = writerIndex_ + writable - readerIndex_
          /\ readableBytes(Now) = writerIndex_ - readerIndex_
      <4> HIDE DEF inside, writable
      <4>1. QED
        BY <1>1, <1>3 DEF readableBytes
    <3>2. Len(a.mem) \in Nat
      BY <2>6, LenProperties DEF Good
    <3>3. kCheapPrepend \in Nat /\ readableBytes(Now) \in Nat
      BY <1>1, <3>1
    <3> HIDE DEF a, topped, inside, extra, writable
    <3>4. readableBytes(topped) = readableBytes(Now) + writable
      BY <1>1, <1>3, <3>1
    <3>5. writable < Len(s)
      BY <1>2, <1>3, <1>6
    <3>6. ASSUME Len(a.mem) # Len(buffer_)
          PROVE  Len(a.mem) < kCheapPrepend + readableBytes(Now) + 2 * Len(s)
      <4>1. Len(a.mem) < kCheapPrepend + readableBytes(topped) + 2 * Len(extra)
        BY <1>4, <2>6, <3>1, <3>6
      <4>2. Len(extra) = Len(s) - writable
        BY <2>3
      <4>3. Len(a.mem) < kCheapPrepend + (readableBytes(Now) + writable) + 2 * (Len(s) - writable)
        BY <3>4, <4>1, <4>2
      <4>4. QED
        BY <1>2, <1>3, <3>2, <3>3, <4>3
    <3>7. QED
      BY <3>5, <3>6
  <2>10. Len(s) \in 0 .. MaxChunk
    BY <1>2
  <2>11. QED
    BY <1>1, <2>6, <2>7, <2>8, <2>9, <2>10 DEF StepOK
<1>7. QED
  BY <1>5, <1>6

-----------------------------------------------------------------------------
(***************************************************************************)
(* Every step keeps the value good, and does to the readable bytes what    *)
(* the queue of the callers' bytes goes through.                           *)
(***************************************************************************)
LEMMA NextStep ==
  ASSUME Good(Now), Next
  PROVE  StepOK(Now, Now') /\ (peek(Now) = content => peek(Now') = content')
<1> USE DEF Queue!PushBack, Queue!PushFront, Queue!PopFront, Queue!PopBack
<1>1. CASE \E s \in Chunks : (AppendBytes(s) \/ WriteInPlace(s) \/ ReadFd(s)) /\ Queue!PushBack(s)
  <2>1. PICK s \in Chunks : /\ AppendBytes(s) \/ WriteInPlace(s) \/ ReadFd(s)
                           /\ content' = content \o s
    BY <1>1
  <2>2. StepOK(Now, Now') /\ peek(Now') = peek(Now) \o s
    BY <2>1, AppendStep, WriteInPlaceStep, ReadFdStep
  <2>3. QED
    BY <2>1, <2>2
<1>2. CASE \E s \in Chunks : Prepend(s) /\ Queue!PushFront(s)
  BY <1>2, PrependStep
<1>3. CASE \E len \in 0 .. MaxChunk : Reserve(len) /\ UNCHANGED content
  BY <1>3, ReserveStep
<1>4. CASE \E len \in 0 .. readableBytes(Now) : Retrieve(len) /\ Queue!PopFront(len)
  BY <1>4, RetrieveStep
<1>5. CASE \E len \in 0 .. readableBytes(Now) : Unwrite(len) /\ Queue!PopBack(len)
  BY <1>5, UnwriteStep
<1>6. QED
  BY <1>1, <1>2, <1>3, <1>4, <1>5 DEF Next

(***************************************************************************)
(* The indices stay in order and within the vector, and the vector never   *)
(* shrinks below kCheapPrepend, whatever the calls and their lengths:      *)
(* retrieveAll() and makeSpace() may put readerIndex_ at kCheapPrepend.    *)
(***************************************************************************)
THEOREM TypeCorrect == Spec => []TypeOK
<1>1. Init => TypeOK
  <2> SUFFICES ASSUME Init PROVE TypeOK
    OBVIOUS
  <2>1. kCheapPrepend \in Nat /\ initialSize \in Nat /\ Zero \in Bytes
    BY BufferAssumption
  <2>2. kCheapPrepend + initialSize \in Nat
    BY <2>1
  <2>3. buffer_ \in [1 .. kCheapPrepend + initialSize -> Bytes]
    BY <2>1 DEF Init
  <2>4. buffer_ \in Seq(Bytes)
    BY <2>2, <2>3, SeqDef
  <2>5. Len(buffer_) = kCheapPrepend + initialSize
    BY <2>2, <2>3, <2>4, LenProperties
  <2>6. QED
    BY <2>1, <2>4, <2>5 DEF Init, TypeOK
<1>2. TypeOK /\ [Next]_vars => TypeOK'
  <2> SUFFICES ASSUME TypeOK, [Next]_vars PROVE TypeOK'
    OBVIOUS
  <2>1. CASE Next
    <3>1. Good(Now)'
      BY <2>1, NextStep, TypeIsGood DEF StepOK, Good
    <3>2. QED
      BY <3>1, LenProperties DEF Good, Now, TypeOK
  <2>2. CASE UNCHANGED vars
    BY <2>2 DEF vars, TypeOK
  <2>3. QED
    BY <2>1, <2>2
<1>3. QED
  BY <1>1, <1>2, PTL DEF Spec

(***************************************************************************)
(* Whatever the calls, their bytes and their lengths, a reader sees the    *)
(* bytes that append, prepend, in-place writes and readFd() were given,    *)
(* in order, less those that retrieve and unwrite took: a move, a larger   *)
(* vector and extrabuf change none of them.                                *)
(***************************************************************************)
THEOREM BufferImplementsQueue == Spec => []ActsAsByteQueue
<1>1. Init => ActsAsByteQueue
  <2> SUFFICES ASSUME Init PROVE peek(Now) = <<>> /\ content = <<>>
    BY DEF ActsAsByteQueue
  <2>1. Now.r = kCheapPrepend /\ Now.w = kCheapPrepend /\ kCheapPrepend \in Nat
    BY BufferAssumption DEF Init, Now
  <2>2. QED
    BY <2>1, SubSeqEmpty DEF peek, Init, Queue!Init
<1>2. TypeOK /\ ActsAsByteQueue /\ [Next]_vars => ActsAsByteQueue'
  <2> SUFFICES ASSUME TypeOK, ActsAsByteQueue, [Next]_vars PROVE ActsAsByteQueue'
    OBVIOUS
  <2>1. CASE Next
    <3>1. peek(Now') = content'
      BY <2>1, NextStep, TypeIsGood DEF ActsAsByteQueue
    <3>2. QED
      BY <3>1 DEF ActsAsByteQueue, peek
  <2>2. CASE UNCHANGED vars
    BY <2>2 DEF vars, ActsAsByteQueue, peek, Now
  <2>3. QED
    BY <2>1, <2>2
<1>3. QED
  BY <1>1, <1>2, TypeCorrect, PTL DEF Spec

(***************************************************************************)
(* The vector is enlarged only by a call that asks for more room than is   *)
(* behind the readable bytes, and then to less than kCheapPrepend, the     *)
(* readable bytes and twice what was asked for.                            *)
(***************************************************************************)
THEOREM GrowthIsBounded == Spec => GrowthBounded
<1>1. TypeOK /\ [Next]_vars => [GrowsForRoom]_vars
  <2> SUFFICES ASSUME TypeOK, Next, Len(buffer_') # Len(buffer_)
               PROVE  \E len \in 0 .. MaxChunk : writableBytes(Now) < len /\ GrowsBy(len)
    BY DEF GrowsForRoom
  <2>1. StepOK(Now, Now')
    BY NextStep, TypeIsGood
  <2>2. Now.mem = buffer_ /\ Now'.mem = buffer_'
    BY DEF Now
  <2>3. QED
    BY <2>1, <2>2 DEF StepOK, GrowsBy
<1>2. QED
  BY <1>1, TypeCorrect, PTL DEF Spec, GrowthBounded

-----------------------------------------------------------------------------
(* The arithmetic of the ring.                                             *)

\* An index goes round once at most.
LEMMA Around ==
  ASSUME NEW a \in 0 .. N + N - 1
  PROVE  /\ a % N = IF a < N THEN a ELSE a - N
         /\ a % N \in Indices
<1>1. N \in Nat \ {0}
  BY CircularBufferAssumption
<1>2. CASE a < N
  BY <1>1, <1>2 DEF Indices
<1>3. CASE a >= N
  BY <1>1, <1>3 DEF Indices
<1> QED BY <1>1, <1>2, <1>3

LEMMA nextIndexStays ==
  ASSUME NEW index \in Indices \cup {-1}
  PROVE  /\ nextIndex(index) = IF index = N - 1 THEN 0 ELSE index + 1
         /\ nextIndex(index) \in Indices
<1>1. N \in Nat \ {0} /\ index + 1 \in 0 .. N + N - 1
  BY CircularBufferAssumption DEF Indices
<1> QED BY <1>1, Around DEF nextIndex, Indices

LEMMA FilledFits == \A n \in Int : Filled(n) \in 0 .. N
BY CircularBufferAssumption DEF Filled

-----------------------------------------------------------------------------
(***************************************************************************)
(* In a buffer never cleared, nor copied while not full, the cell behind   *)
(* the tail is size_ cells from the head.                                  *)
(***************************************************************************)
RingInv ==
  /\ HoldsRecent
  /\ plain => nextIndex(indexOfTail) = (indexOfHead + size_) % N

\* Contents says of each element of the line where it is.
LEMMA ContentsAre ==
  ASSUME RingTypeOK
  PROVE  Contents = line <=>
           /\ Len(line) = size_
           /\ \A i \in 1 .. size_ : start_[(indexOfHead + i - 1) % N] = line[i]
<1>1. line \in Seq(Values) /\ size_ \in Nat /\ Len(line) \in Nat
  BY CircularBufferAssumption DEF RingTypeOK
<1>2. ASSUME Contents = line
      PROVE  /\ Len(line) = size_
             /\ \A i \in 1 .. size_ : start_[(indexOfHead + i - 1) % N] = line[i]
  <2>1. DOMAIN line = 1 .. size_ /\ DOMAIN line = 1 .. Len(line)
    BY <1>1, <1>2 DEF Contents
  <2>2. Len(line) = size_
    BY <1>1, <2>1
  <2> QED BY <1>2, <2>2 DEF Contents
<1>3. ASSUME Len(line) = size_,
             \A i \in 1 .. size_ : start_[(indexOfHead + i - 1) % N] = line[i]
      PROVE  Contents = line
  <2>1. line = [i \in 1 .. size_ |-> line[i]]
    BY <1>1, <1>3
  <2> QED BY <1>3, <2>1 DEF Contents
<1> QED BY <1>2, <1>3

\* The same of the next state.
LEMMA ContentsPrimed ==
  ASSUME RingTypeOK'
  PROVE  Contents' = line' <=>
           /\ Len(line') = size_'
           /\ \A i \in 1 .. size_' : start_'[(indexOfHead' + i - 1) % N] = line'[i]
<1>1. line' \in Seq(Values) /\ size_' \in Nat /\ Len(line') \in Nat
  BY CircularBufferAssumption DEF RingTypeOK
<1>2. ASSUME Contents' = line'
      PROVE  /\ Len(line') = size_'
             /\ \A i \in 1 .. size_' : start_'[(indexOfHead' + i - 1) % N] = line'[i]
  <2>1. DOMAIN line' = 1 .. size_' /\ DOMAIN line' = 1 .. Len(line')
    BY <1>1, <1>2 DEF Contents
  <2>2. Len(line') = size_'
    BY <1>1, <2>1
  <2> QED BY <1>2, <2>2 DEF Contents
<1>3. ASSUME Len(line') = size_',
             \A i \in 1 .. size_' : start_'[(indexOfHead' + i - 1) % N] = line'[i]
      PROVE  Contents' = line'
  <2>1. line' = [i \in 1 .. size_' |-> line'[i]]
    BY <1>1, <1>3
  <2> QED BY <1>3, <2>1 DEF Contents
<1> QED BY <1>2, <1>3

-----------------------------------------------------------------------------
LEMMA RingInit == InitRing => RingInv
<1> SUFFICES ASSUME NEW n \in -1 .. N + 1, NEW val \in Values, Construct(n, val)
             PROVE  RingInv
  BY DEF InitRing
<1> DEFINE k == Filled(n)
<1>1. k \in 0 .. N /\ N \in Nat \ {0} /\ Default \in Values
  BY FilledFits, CircularBufferAssumption
<1> HIDE DEF k
<1>2. /\ start_ = [i \in Indices |-> IF i < k THEN val ELSE Default]
      /\ indexOfHead = 0
      /\ indexOfTail = k - 1
      /\ size_ = k
      /\ line = [i \in 1 .. k |-> val]
      /\ plain = TRUE
  BY DEF Construct, Repeat, k
<1>3. line \in Seq(Values) /\ Len(line) = k
  BY <1>1, <1>2
<1>4. RingTypeOK
  <2>1. start_ \in [Indices -> Values \cup {Raw}]
    BY <1>1, <1>2
  <2>2. indexOfTail \in Indices \cup {-1} /\ indexOfHead \in Indices
    BY <1>1, <1>2 DEF Indices
  <2> QED BY <1>1, <1>2, <1>3, <2>1, <2>2 DEF RingTypeOK
<1>5. \A i \in 0 .. k - 1 : start_[i] = val
  BY <1>1, <1>2 DEF Indices
<1>6. Contents = line
  <2> SUFFICES ASSUME NEW i \in 1 .. k
               PROVE  start_[(indexOfHead + i - 1) % N] = line[i]
    BY <1>2, <1>3, <1>4, ContentsAre
  <2>1. indexOfHead + i - 1 \in 0 .. N + N - 1 /\ indexOfHead + i - 1 < N
    BY <1>1, <1>2
  <2>2. (indexOfHead + i - 1) % N = i - 1
    BY <1>1, <1>2, <2>1, Around
  <2> QED BY <1>1, <1>2, <1>5, <2>2
<1>7. line # <<>> => back = Last(line)
  BY <1>1, <1>2, <1>3, <1>5 DEF back, Last
<1>8. nextIndex(indexOfTail) = (indexOfHead + size_) % N
  BY <1>1, <1>2 DEF nextIndex
<1> QED BY <1>4, <1>6, <1>7, <1>8 DEF RingInv, HoldsRecent

\* Keep forgets at most one element, the first, and val is the last.
LEMMA KeepLast ==
  ASSUME RingTypeOK, NEW val \in Values
  PROVE  LET l == Keep(line, val) IN
           /\ l \in Seq(Values)
           /\ Len(l) = IF Len(line) = N THEN N ELSE Len(line) + 1
           /\ Len(line) = N => \A i \in 1 .. N - 1 : l[i] = line[i + 1]
           /\ Len(line) # N => \A i \in 1 .. Len(line) : l[i] = line[i]
           /\ l[Len(l)] = val
<1>1. line \in Seq(Values) /\ N \in Nat \ {0} /\ Len(line) \in 0 .. N
  BY CircularBufferAssumption DEF RingTypeOK
<1>2. CASE Len(line) = N
  <2>1. line # <<>>
    BY <1>1, <1>2
  <2>2. /\ Tail(line) \in Seq(Values) /\ Len(Tail(line)) = N - 1
        /\ \A i \in 1 .. N - 1 : Tail(line)[i] = line[i + 1]
    BY <1>1, <1>2, <2>1
  <2>3. Keep(line, val) = Append(Tail(line), val)
    BY <1>2 DEF Keep
  <2> QED BY <1>1, <1>2, <2>2, <2>3
<1>3. CASE Len(line) # N
  BY <1>1, <1>3 DEF Keep
<1> QED BY <1>2, <1>3

(***************************************************************************)
(* A push writes the cell behind the tail.  While there is room that cell  *)
(* is none of the ring's; in a full ring it is the head's, and the head    *)
(* moves on to the next oldest element.                                    *)
(***************************************************************************)
LEMMA RingPush ==
  ASSUME RingInv, NEW val \in Values, push_back(val)
  PROVE  RingInv'
<1> DEFINE tail == nextIndex(indexOfTail)
<1>1. RingTypeOK /\ N \in Nat \ {0}
  BY CircularBufferAssumption DEF RingInv, HoldsRecent
<1>2. /\ indexOfHead \in 0 .. N - 1 /\ size_ \in 0 .. N
      /\ start_ \in [Indices -> Values \cup {Raw}]
  BY <1>1 DEF RingTypeOK, Indices
<1>3. tail \in Indices
  BY <1>1, nextIndexStays DEF RingTypeOK
<1>4. /\ indexOfTail' = tail
      /\ start_' = [start_ EXCEPT ![tail] = val]
      /\ indexOfHead' = IF size_ = N THEN nextIndex(indexOfHead) ELSE indexOfHead
      /\ size_' = IF size_ = N THEN size_ ELSE size_ + 1
      /\ line' = Keep(line, val)
      /\ plain' = plain
  BY DEF push_back, full
<1> HIDE DEF tail
<1>5. start_'[tail] = val /\ \A i \in Indices \ {tail} : start_'[i] = start_[i]
  BY <1>2, <1>3, <1>4
<1>6. /\ line' \in Seq(Values)
      /\ Len(line') = IF Len(line) = N THEN N ELSE Len(line) + 1
      /\ Len(line) = N => \A i \in 1 .. N - 1 : line'[i] = line[i + 1]
      /\ Len(line) # N => \A i \in 1 .. Len(line) : line'[i] = line[i]
      /\ line'[Len(line')] = val
      /\ Len(line) \in 0 .. N
  <2>1. Len(line) \in 0 .. N
    BY <1>1 DEF RingTypeOK
  <2> QED BY <1>1, <1>4, <2>1, KeepLast, Zenon
<1>7. indexOfHead' \in Indices
  BY <1>2, <1>4, nextIndexStays DEF Indices
<1>8. RingTypeOK'
  <2>1. start_' \in [Indices -> Values \cup {Raw}]
    BY <1>2, <1>4
  <2>2. Len(line') <= N /\ size_' \in 0 .. N
    BY <1>1, <1>2, <1>4, <1>6
  <2>3. tail # -1
    BY <1>1, <1>3 DEF Indices
  <2> QED BY <1>1, <1>3, <1>4, <1>6, <1>7, <2>1, <2>2, <2>3 DEF RingTypeOK
<1>9. line' # <<>> => back' = Last(line')
  BY <1>4, <1>5, <1>6 DEF back, Last
<1>10. ASSUME plain
       PROVE  /\ Contents' = line'
              /\ nextIndex(indexOfTail)' = (indexOfHead' + size_') % N
  <2>1. /\ Len(line) = size_
        /\ \A i \in 1 .. size_ : start_[(indexOfHead + i - 1) % N] = line[i]
    BY <1>1, <1>10, ContentsAre DEF RingInv, HoldsRecent
  <2>2. tail = (indexOfHead + size_) % N
    BY <1>10 DEF RingInv, tail
  <2>3. tail = IF indexOfHead + size_ < N THEN indexOfHead + size_
                                          ELSE indexOfHead + size_ - N
    <3>1. PICK a \in 0 .. N + N - 1 : a = indexOfHead + size_
      <4>1. indexOfHead + size_ \in 0 .. N + N - 1
        BY <1>1, <1>2
      <4> QED BY <4>1
    <3>2. a % N = IF a < N THEN a ELSE a - N
      BY Around
    <3> QED BY <1>1, <1>2, <2>2, <3>1, <3>2
  <2>4. nextIndex(indexOfTail)' = IF tail = N - 1 THEN 0 ELSE tail + 1
    <3>1. nextIndex(indexOfTail)' = nextIndex(tail)
      BY <1>4 DEF nextIndex
    <3> QED BY <1>3, <3>1, nextIndexStays
  <2>5. CASE size_ = N
    <3>1. /\ tail = indexOfHead
          /\ indexOfHead' = IF indexOfHead = N - 1 THEN 0 ELSE indexOfHead + 1
          /\ size_' = N
      BY <1>1, <1>2, <1>4, <2>3, <2>5, nextIndexStays DEF Indices
    <3>2. (indexOfHead' + size_') % N = indexOfHead'
      <4>1. indexOfHead' + size_' \in 0 .. N + N - 1
        BY <1>1, <1>2, <3>1
      <4> QED BY <1>1, <1>2, <3>1, <4>1, Around
    <3>3. \A i \in 1 .. N : start_'[(indexOfHead' + i - 1) % N] = line'[i]
      <4> SUFFICES ASSUME NEW i \in 1 .. N
                   PROVE  start_'[(indexOfHead' + i - 1) % N] = line'[i]
        OBVIOUS
      <4> DEFINE c == (indexOfHead' + i - 1) % N
                 d == (indexOfHead + (i + 1) - 1) % N
      <4>1. PICK a \in 0 .. N + N - 1 : a = indexOfHead' + i - 1
        <5>1. indexOfHead' + i - 1 \in 0 .. N + N - 1
          BY <1>1, <1>2, <3>1
        <5> QED BY <5>1
      <4>2. PICK b \in 0 .. N + N - 1 : b = indexOfHead + (i + 1) - 1
        <5>1. indexOfHead + (i + 1) - 1 \in 0 .. N + N - 1
          BY <1>1, <1>2
        <5> QED BY <5>1
      <4>3. c = d /\ c \in Indices /\ (c = tail <=> i = N)
        <5>1. c = a % N /\ d = b % N
          BY <4>1, <4>2
        <5>2. /\ a % N = IF a < N THEN a ELSE a - N
              /\ a % N \in Indices
              /\ b % N = IF b < N THEN b ELSE b - N
          BY Around
        <5> HIDE DEF c, d
        <5>3. /\ c = IF a < N THEN a ELSE a - N
              /\ c \in Indices
              /\ d = IF b < N THEN b ELSE b - N
          BY <5>1, <5>2, Zenon
        <5> QED BY <1>1, <1>2, <3>1, <4>1, <4>2, <5>3
      <4> HIDE DEF c, d
      <4>4. CASE i = N
        BY <1>5, <1>6, <2>1, <2>5, <4>3, <4>4 DEF c
      <4>5. CASE i # N
        <5>1. i \in 1 .. N - 1 /\ i + 1 \in 1 .. N
          BY <1>1, <4>5
        <5>2. start_[d] = line[i + 1]
          BY <2>1, <2>5, <5>1 DEF d
        <5>3. start_'[c] = start_[d]
          BY <1>5, <4>3, <4>5
        <5> QED BY <1>6, <2>1, <2>5, <5>1, <5>2, <5>3 DEF c
      <4> QED BY <4>4, <4>5
    <3>4. Len(line') = size_'
      BY <1>6, <2>1, <2>5, <3>1
    <3>5. Contents' = line'
      BY <1>8, <3>1, <3>3, <3>4, ContentsPrimed
    <3> QED BY <2>4, <3>1, <3>2, <3>5
  <2>6. CASE size_ # N
    <3>1. indexOfHead' = indexOfHead /\ size_' = size_ + 1 /\ size_' \in 1 .. N
      BY <1>1, <1>2, <1>4, <2>6
    <3>2. nextIndex(indexOfTail)' = (indexOfHead' + size_') % N
      <4>1. PICK a \in 0 .. N + N - 1 : a = indexOfHead + (size_ + 1)
        <5>1. indexOfHead + (size_ + 1) \in 0 .. N + N - 1
          BY <1>1, <1>2, <2>6
        <5> QED BY <5>1
      <4>2. (indexOfHead + (size_ + 1)) % N =
              IF indexOfHead + (size_ + 1) < N THEN indexOfHead + (size_ + 1)
                                               ELSE indexOfHead + (size_ + 1) - N
        <5>1. a % N = IF a < N THEN a ELSE a - N
          BY Around
        <5> QED BY <1>1, <1>2, <4>1, <5>1
      <4> QED BY <1>1, <1>2, <2>3, <2>4, <2>6, <3>1, <4>2
    <3>3. \A i \in 1 .. size_' : start_'[(indexOfHead' + i - 1) % N] = line'[i]
      <4> SUFFICES ASSUME NEW i \in 1 .. size_ + 1
                   PROVE  start_'[(indexOfHead + i - 1) % N] = line'[i]
        BY <3>1
      <4> DEFINE c == (indexOfHead + i - 1) % N
      <4>1. PICK a \in 0 .. N + N - 1 : a = indexOfHead + i - 1
        <5>1. indexOfHead + i - 1 \in 0 .. N + N - 1
          BY <1>1, <1>2, <2>6
        <5> QED BY <5>1
      <4>2. /\ c = IF indexOfHead + i - 1 < N THEN indexOfHead + i - 1
                                              ELSE indexOfHead + i - 1 - N
            /\ c \in Indices
        <5>1. /\ a % N = IF a < N THEN a ELSE a - N
              /\ a % N \in Indices
          BY Around
        <5> QED BY <1>1, <1>2, <4>1, <5>1
      <4> HIDE DEF c
      <4>3. c = tail <=> i = size_ + 1
        BY <1>1, <1>2, <2>3, <2>6, <4>2
      <4>4. CASE i = size_ + 1
        BY <1>5, <1>6, <2>1, <2>6, <4>3, <4>4 DEF c
      <4>5. CASE i # size_ + 1
        <5>1. i \in 1 .. size_
          BY <1>2, <4>5
        <5>2. start_[c] = line[i]
          BY <2>1, <5>1 DEF c
        <5>3. start_'[c] = start_[c]
          BY <1>5, <4>2, <4>3, <4>5
        <5> QED BY <1>6, <2>1, <2>6, <5>1, <5>2, <5>3 DEF c
      <4> QED BY <4>4, <4>5
    <3>4. Len(line') = size_'
      BY <1>6, <2>1, <2>6, <3>1
    <3>5. Contents' = line'
      BY <1>8, <3>3, <3>4, ContentsPrimed
    <3> QED BY <3>2, <3>5
  <2> QED BY <2>5, <2>6
<1> QED BY <1>4, <1>8, <1>9, <1>10 DEF RingInv, HoldsRecent

LEMMA RingStep == RingInv /\ [NextRing]_ringVars => RingInv'
<1> SUFFICES ASSUME RingInv, [NextRing]_ringVars
             PROVE  RingInv'
  OBVIOUS
<1>1. RingTypeOK /\ N \in Nat \ {0}
  BY CircularBufferAssumption DEF RingInv, HoldsRecent
<1>2. CASE clear
  <2>1. /\ start_' \in [Indices -> Values \cup {Raw}]
        /\ indexOfHead' = 0 /\ indexOfTail' = 0 /\ size_' = 0
        /\ line' = <<>> /\ plain' = FALSE
    BY <1>1, <1>2 DEF clear, RingTypeOK
  <2>2. 0 \in Indices /\ line' \in Seq(Values) /\ Len(line') = 0
    BY <1>1, <2>1 DEF Indices
  <2>3. RingTypeOK'
    BY <1>1, <2>1, <2>2 DEF RingTypeOK
  <2> QED BY <2>1, <2>3 DEF RingInv, HoldsRecent
<1>3. CASE clone
  <2>1. /\ size_' = N /\ plain' = (plain /\ size_ = N)
        /\ UNCHANGED <<start_, indexOfHead, indexOfTail, line>>
    BY <1>3 DEF clone, full
  <2>2. RingTypeOK' /\ back' = back
    BY <1>1, <2>1 DEF RingTypeOK, back
  <2>3. plain' => plain /\ size_' = size_
    BY <2>1
  <2>4. plain' => Contents' = line' /\ nextIndex(indexOfTail)' = (indexOfHead' + size_') % N
    BY <2>1, <2>3 DEF RingInv, HoldsRecent, Contents, nextIndex
  <2> QED BY <2>1, <2>2, <2>4 DEF RingInv, HoldsRecent
<1>4. CASE UNCHANGED ringVars
  BY <1>4 DEF ringVars, RingInv, HoldsRecent, RingTypeOK, Contents, back, nextIndex
<1> QED BY <1>2, <1>3, <1>4, RingPush DEF NextRing, move

(***************************************************************************)
(* From any construction, the ring holds the last elements pushed until it *)
(* is cleared, or copied while not full; back() is always the last one.    *)
(***************************************************************************)
THEOREM AlwaysHoldsRecent == RingSpec => []HoldsRecent
<1>1. RingInv => HoldsRecent
  BY DEF RingInv
<1> QED BY <1>1, RingInit, RingStep, PTL DEF RingSpec
=============================================================================
