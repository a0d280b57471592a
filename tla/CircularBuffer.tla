--------------------------- MODULE CircularBuffer ---------------------------
(***************************************************************************)
(* src/base/CircularBuffer.h and CircularBufferImpl.h: a ring of N cells   *)
(* that keeps the last N elements pushed.  A cell is raw memory (Raw) or   *)
(* holds an object; reading a raw one is undefined.  A copy is modelled by *)
(* going on with it instead of the original.                               *)
(***************************************************************************)
EXTENDS Integers, Sequences, SequencesExt

CONSTANTS N,          \* the template parameter
          Values,     \* elements; Default is the one value_type() makes
          Default,
          Raw         \* a cell without an object

ASSUME CircularBufferAssumption ==
  /\ N \in Nat \ {0}
  /\ Default \in Values
  /\ Raw \notin Values

VARIABLES
  start_,        \* the cells
  indexOfHead,
  indexOfTail,   \* -1 in a buffer constructed empty
  size_,
  line,          \* history: the elements the buffer ought to hold, oldest first
  plain          \* history: it was never cleared, nor copied while not full

ringVars == <<start_, indexOfHead, indexOfTail, size_, line, plain>>

Indices == 0 .. N - 1

\* Types; no index leaves the ring except the -1 of an empty buffer.
RingTypeOK ==
  /\ start_ \in [Indices -> Values \cup {Raw}]
  /\ indexOfHead \in Indices
  /\ indexOfTail \in Indices \cup {-1}
  /\ size_ \in 0 .. N
  /\ line \in Seq(Values) /\ Len(line) <= N
  /\ plain \in BOOLEAN
  /\ indexOfTail = -1 => indexOfHead = 0

nextIndex(index) == (index + 1) % N

full == size_ = N

back == start_[indexOfTail]

\* What an iteration over size_ elements from the head meets.
Contents == [i \in 1 .. size_ |-> start_[(indexOfHead + i - 1) % N]]

\* A queue that forgets its oldest element when it has no room.
Keep(l, val) == Append(IF Len(l) = N THEN Tail(l) ELSE l, val)

Repeat(val, k) == [i \in 1 .. k |-> val]

(***************************************************************************)
(* allocateAndFillN(n, val): n is an int compared with the size_t N, so a  *)
(* negative one counts as enormous.                                        *)
(***************************************************************************)
Filled(n) == IF n < 0 \/ N <= n THEN N ELSE n

Construct(n, val) ==
  /\ start_ = [i \in Indices |-> IF i < Filled(n) THEN val ELSE Default]
  /\ indexOfHead = 0
  /\ indexOfTail = Filled(n) - 1
  /\ size_ = Filled(n)
  /\ line = Repeat(val, Filled(n))
  /\ plain = TRUE

InitRing == \E n \in -1 .. N + 1, val \in Values : Construct(n, val)

-----------------------------------------------------------------------------
\* Mutant of push_back: the head stays when the buffer is full.
push_backKeepsHead(val) ==
  /\ indexOfTail' = nextIndex(indexOfTail)
  /\ start_' = [start_ EXCEPT ![indexOfTail'] = val]
  /\ size_' = IF full THEN size_ ELSE size_ + 1
  /\ line' = Keep(line, val)
  /\ UNCHANGED <<indexOfHead, plain>>

\* push_back(): behind the tail, in the oldest element's place when full.
push_back(val) ==
  /\ indexOfTail' = nextIndex(indexOfTail)
  /\ start_' = [start_ EXCEPT ![indexOfTail'] = val]
  /\ IF full THEN indexOfHead' = nextIndex(indexOfHead) /\ UNCHANGED size_
             ELSE size_' = size_ + 1 /\ UNCHANGED indexOfHead
  /\ line' = Keep(line, val)
  /\ UNCHANGED plain

\* clear(): the elements are destroyed, head and tail put at cell 0.
clear ==
  /\ start_' = [i \in Indices |->
                  IF \E k \in 0 .. size_ - 1 : i = (indexOfHead + k) % N
                  THEN Raw ELSE start_[i]]
  /\ indexOfHead' = 0
  /\ indexOfTail' = 0
  /\ size_' = 0
  /\ line' = <<>>
  /\ plain' = FALSE

\* clone(): all cells are copied, and size_ is N.
clone ==
  /\ size_' = N
  /\ plain' = (plain /\ full)
  /\ UNCHANGED <<start_, indexOfHead, indexOfTail, line>>

\* The move constructor takes the members over.
move == UNCHANGED ringVars

NextRing == clear \/ clone \/ move \/ \E val \in Values : push_back(val)

RingSpec == InitRing /\ [][NextRing]_ringVars

-----------------------------------------------------------------------------
(* Properties.                                                             *)

(***************************************************************************)
(* Until it is cleared or copied while not full, the ring holds the last   *)
(* elements pushed, in order, from any construction: the modulo            *)
(* arithmetic, the -1 of an empty buffer and the step of the head when an  *)
(* element is overwritten agree.  back() is the element pushed last even   *)
(* after a clear() and in a copy.                                          *)
(***************************************************************************)
HoldsRecent == /\ RingTypeOK
               /\ plain => Contents = line
               /\ line # <<>> => back = Last(line)
=============================================================================
