----------------------------- MODULE LogStream ------------------------------
(***************************************************************************)
(* src/base/LogStream.{h,cpp}: the fixed buffer one log statement is       *)
(* written into, and the conversion of integers.  A buffer is a value:     *)
(* the pieces streamed into it, which of them it took, its length() and    *)
(* the end of what was ever written into data_.  A text is its length.     *)
(***************************************************************************)
EXTENDS Integers, SequencesExt

CONSTANTS kSmallBuffer,     \* 4000 in the code
          kMaxNumericSize,  \* 32
          Naturals_,        \* integers that are logged, of any type, and with
                            \* each the one whose bits are its complement
          FloatSizes        \* lengths of what "%.12g" makes

Integers_ == Naturals_ \cup {-n - 1 : n \in Naturals_}

\* The characters of a number: its digits, and '-'.
Minus == 10

\* Division as C defines it, rounding towards zero.
Quot(i) == i \div 10 + (IF i < 0 /\ i % 10 # 0 THEN 1 ELSE 0)
Rem(i)  == i - 10 * Quot(i)

\* digits[] around its zero: the digit of a remainder, negative or not.
zero(lsd) == IF lsd < 0 THEN -lsd ELSE lsd

\* The loop of convert(): the digits, the last one first.
LastFirst[i \in Int] ==
  <<zero(Rem(i))>> \o (IF Quot(i) = 0 THEN <<>> ELSE LastFirst[Quot(i)])

convert(value) ==
  Reverse(IF value < 0 THEN Append(LastFirst[value], Minus) ELSE LastFirst[value])

ASSUME LogStreamAssumption ==
  /\ kSmallBuffer \in Nat /\ kMaxNumericSize \in 1 .. kSmallBuffer
  /\ Naturals_ \subseteq Nat
  /\ \A v \in Integers_ : Len(convert(v)) < kMaxNumericSize
  /\ FloatSizes \subseteq 1 .. kMaxNumericSize - 1

-----------------------------------------------------------------------------
text(n)    == [kind |-> "text", n |-> n]
integer(v) == [kind |-> "integer", n |-> v]
float(n)   == [kind |-> "float", n |-> n]

EmptyBuffer == [asked |-> <<>>, taken |-> {}, length |-> 0, top |-> 0]

avail(buf) == kSmallBuffer - buf.length

\* A piece of the given size is taken, and `nul' further characters written.
Add(buf, piece, size, nul) ==
  [asked  |-> Append(buf.asked, piece),
   taken  |-> buf.taken \cup {Len(buf.asked) + 1},
   length |-> buf.length + size,
   top    |-> Max({buf.top, buf.length + size + nul})]

Drop(buf, piece) == [buf EXCEPT !.asked = Append(@, piece)]

\* FixedBuffer::append().
AppendText(buf, piece) ==
  IF avail(buf) > piece.n THEN Add(buf, piece, piece.n, 0) ELSE Drop(buf, piece)

\* Mutant of AppendNumber: room for the digits is taken to be enough.
AppendNumberTight(buf, piece, size) ==
  IF avail(buf) >= size THEN Add(buf, piece, size, 1) ELSE Drop(buf, piece)

\* formatInteger() and the two for floating point write a NUL behind.
AppendNumber(buf, piece, size) ==
  IF avail(buf) >= kMaxNumericSize THEN Add(buf, piece, size, 1) ELSE Drop(buf, piece)

\* operator<<.
Put(buf, piece) ==
  CASE piece.kind = "text"    -> AppendText(buf, piece)
    [] piece.kind = "integer" -> AppendNumber(buf, piece, Len(convert(piece.n)))
    [] piece.kind = "float"   -> AppendNumber(buf, piece, piece.n)

-----------------------------------------------------------------------------
\* What digits come to, the last one first; added up below zero, for the
\* least integer's sake.
Below[d \in Seq(0 .. 9)] == IF d = <<>> THEN 0 ELSE 10 * Below[Tail(d)] - Head(d)

\* The integer a text reads as.
ReadAs(chars) ==
  IF Head(chars) = Minus THEN Below[Reverse(Tail(chars))] ELSE -Below[Reverse(chars)]
=============================================================================
