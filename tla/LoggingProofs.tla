--------------------------- MODULE LoggingProofs ----------------------------
(***************************************************************************)
(* Proofs about AsyncLogging.tla and AsyncLogFile.tla, for buffers of any  *)
(* capacity, any limit on a round, any number of lines, any buffer of      *)
(* stdio and any number of failed writes; about the log statements of      *)
(* LogStream.tla and Logger.tla, for every integer, any sizes and any      *)
(* number of threads, pieces and statements; and about both together, the  *)
(* composition of Logging.tla.                                             *)
(***************************************************************************)
EXTENDS Logging, SequenceTheorems, WellFoundedInduction, TLAPS

-----------------------------------------------------------------------------
(* The thread of AsyncLogging.                                             *)

(***************************************************************************)
(* The inductive invariant behind the assertions of threadFunc().  The     *)
(* spare pointers are full except between taking a round and recycling it, *)
(* and the round then holds as many buffers as there are pointers to       *)
(* refill: newBuffer2 is used up only when append() had used nextBuffer_,  *)
(* and append() does that only while it hands over a full buffer.          *)
(***************************************************************************)
SparesInv ==
  /\ AssertsHold
  /\ pc = "none" <=> owner = "new"
  /\ owner \in {"started", "stopping", "joined"} => pc # "entry"
  /\ owner = "starting" => running_
  /\ pc # "write" => written = 0
  /\ nextBuffer_ = Null => buffers_ # <<>>
  /\ IF pc \in {"trim", "write", "recycle"}
     THEN /\ newBuffer1 = Null
          /\ newBuffer2 \in {Null, <<>>}
          /\ Len(buffersToWrite) >= 1
          /\ newBuffer2 = Null => Len(buffersToWrite) >= 2
     ELSE SparesReady

\* One more element at the end of a sequence.
LEMMA AppendTyped ==
  ASSUME NEW S, NEW s \in Seq(S), NEW e \in S
  PROVE  Append(s, e) \in Seq(S) /\ Len(Append(s, e)) = Len(s) + 1
BY AppendProperties

\* The first two elements of a longer sequence.
LEMMA FirstTwo ==
  ASSUME NEW S, NEW s \in Seq(S), Len(s) > 2
  PROVE  SubSeq(s, 1, 2) \in Seq(S) /\ Len(SubSeq(s, 1, 2)) = 2
<1>1. 1 \in 1 .. Len(s) + 1 /\ 2 \in 1 - 1 .. Len(s)
  BY LenProperties
<1>2. QED
  BY <1>1, SubSeqProperties

\* SparesInv holds in every state, with the types of AsyncLogging.
LEMMA SparesInvInductive == Spec => [](TypeOK /\ SparesInv)
<1> USE AsyncLoggingAssumption DEF SparesInv, AssertsHold
<1>1. Init => TypeOK /\ SparesInv
  <2> SUFFICES ASSUME Init PROVE TypeOK /\ SparesInv
    OBVIOUS
  <2>1. /\ <<>> \in Buffer /\ <<>> \in Pointer /\ <<>> # Null
        /\ <<>> \in Seq(Buffer) /\ <<>> \in Seq(Lines)
    <3>1. \A S : <<>> \in Seq(S)
      BY EmptySeq
    <3>2. QED
      BY <3>1 DEF Buffer, Pointer
  <2>2. 0 \in 0 .. MaxLines /\ 0 \in 0 .. Len(<<>>)
    OBVIOUS
  <2>3. TypeOK
    BY <2>1, <2>2 DEF Init, TypeOK, OwnerPoints, BackendPoints
  <2>4. QED
    BY <2>1, <2>3 DEF Init, SparesReady
<1>2. TypeOK /\ SparesInv /\ [Next]_vars => (TypeOK /\ SparesInv)'
  <2> SUFFICES ASSUME TypeOK, SparesInv, [Next]_vars
               PROVE  (TypeOK /\ SparesInv)'
    OBVIOUS
  <2> USE DEF TypeOK
  <2>a. <<>> \in Buffer /\ Buffer \subseteq Pointer /\ Null \in Pointer /\ Null # <<>>
    BY EmptySeq DEF Buffer, Pointer
  <2>1. CASE AppendLine
    <3>1. appended + 1 \in Lines /\ appended + 1 \in 0 .. MaxLines
      BY <2>1 DEF AppendLine, Lines
    <3>2. Append(currentBuffer_, appended + 1) \in Buffer
      BY <3>1, AppendTyped DEF Buffer
    <3>3. /\ Append(buffers_, currentBuffer_) \in Seq(Buffer)
          /\ Append(buffers_, currentBuffer_) # <<>>
      BY AppendProperties
    <3>4. ASSUME nextBuffer_ # Null
          PROVE  Append(nextBuffer_, appended + 1) \in Buffer
      BY <3>1, <3>4, AppendTyped DEF Buffer, Pointer
    <3>5. Append(<<>>, appended + 1) \in Buffer
      BY <3>1, EmptySeq, AppendTyped DEF Buffer
    <3>6. /\ currentBuffer_' \in Buffer /\ nextBuffer_' \in Pointer
          /\ buffers_' \in Seq(Buffer)
          /\ nextBuffer_' = Null => buffers_' # <<>>
      BY <2>1, <2>a, <3>2, <3>3, <3>4, <3>5 DEF AppendLine, Pointer
    <3>7. QED
      BY <2>1, <3>1, <3>6 DEF AppendLine, backend, SparesReady
  <2>2. CASE StartLogging
    BY <2>2 DEF StartLogging, front, backend, SparesReady, OwnerPoints, BackendPoints
  <2>3. CASE StartReturns
    BY <2>3 DEF StartReturns, front, backend, SparesReady, OwnerPoints
  <2>4. CASE Stop
    BY <2>4 DEF Stop, front, backend, SparesReady, OwnerPoints
  <2>5. CASE Join
    BY <2>5 DEF Join, front, backend, SparesReady, OwnerPoints
  <2>6. CASE BackendStart
    BY <2>6 DEF BackendStart, front, backend, SparesReady, OwnerPoints, BackendPoints
  <2>7. CASE TestRunning
    BY <2>7 DEF TestRunning, front, backend, SparesReady, BackendPoints
  <2>8. CASE BeginWait
    BY <2>8 DEF BeginWait, front, backend, SparesReady, BackendPoints
  <2>9. ASSUME pc \in {"take", "wait"}, TakeBuffers
        PROVE  (TypeOK /\ SparesInv)'
    <3>1. /\ Append(buffers_, currentBuffer_) \in Seq(Buffer)
          /\ Len(Append(buffers_, currentBuffer_)) = Len(buffers_) + 1
          /\ Len(buffers_) \in Nat
          /\ buffers_ # <<>> => Len(buffers_) > 0
      BY AppendTyped, LenProperties, EmptySeq
    <3>2. SparesReady
      BY <2>9
    <3>3. /\ buffersToWrite' \in Seq(Buffer) /\ Len(buffersToWrite') >= 1
          /\ nextBuffer_ = Null => Len(buffersToWrite') >= 2
          /\ buffers_' = <<>> /\ buffers_' \in Seq(Buffer)
          /\ written' = 0 /\ written' \in 0 .. Len(buffersToWrite')
      BY <2>9, <3>1, <3>2, EmptySeq, LenProperties DEF TakeBuffers, NextUsed, Round, SparesReady
    <3>4. /\ currentBuffer_' \in Buffer /\ nextBuffer_' \in Pointer
          /\ newBuffer1' = Null /\ newBuffer2' \in {Null, <<>>} /\ nextBuffer_' # Null
          /\ newBuffer2' = Null => nextBuffer_ = Null
      BY <2>9, <2>a, <3>2 DEF TakeBuffers, NextUsed, Round, SparesReady
    <3>5. QED
      BY <2>9, <2>a, <3>3, <3>4 DEF TakeBuffers, NextUsed, Round, SparesReady, BackendPoints
  <2>10. CASE Trim
    <3>1. ASSUME Len(buffersToWrite) > MaxBuffers
          PROVE  /\ SubSeq(buffersToWrite, 1, 2) \in Seq(Buffer)
                 /\ Len(SubSeq(buffersToWrite, 1, 2)) = 2
      BY <3>1, FirstTwo
    <3>2. \A k \in 3 .. Len(buffersToWrite) : LinesOf(buffersToWrite[k]) \subseteq Lines
      <4> TAKE k \in 3 .. Len(buffersToWrite)
      <4>1. buffersToWrite[k] \in Seq(Lines)
        BY ElementOfSeq DEF Buffer
      <4>2. QED
        BY <4>1, ElementOfSeq DEF LinesOf
    <3>3. lost' \in SUBSET Lines
      BY <2>10, <3>2 DEF Trim, LinesFrom
    <3>4. /\ buffersToWrite' \in Seq(Buffer)
          /\ Len(buffersToWrite') >= 1
          /\ newBuffer2 = Null => Len(buffersToWrite') >= 2
          /\ written' = 0 /\ written' \in 0 .. Len(buffersToWrite')
      <4>1. written = 0 /\ Len(buffersToWrite) \in Nat
        BY <2>10, LenProperties DEF Trim
      <4>2. CASE Len(buffersToWrite) > MaxBuffers
        <5>1. buffersToWrite' \in Seq(Buffer) /\ Len(buffersToWrite') = 2
          BY <2>10, <3>1, <4>2, Zenon DEF Trim
        <5>2. QED
          BY <2>10, <4>1, <5>1 DEF Trim
      <4>3. CASE ~(Len(buffersToWrite) > MaxBuffers)
        BY <2>10, <4>1, <4>3 DEF Trim
      <4>4. QED
        BY <4>2, <4>3
    <3>5. QED
      BY <2>10, <3>3, <3>4 DEF Trim, front, BackendPoints
  <2>11. CASE WriteBuffer
    <3>1. buffersToWrite[written + 1] \in Seq(Lines)
      BY <2>11, ElementOfSeq DEF WriteBuffer, Buffer
    <3>2. output' \in Seq(Lines)
      BY <2>11, <3>1, ConcatProperties DEF WriteBuffer
    <3>3. QED
      BY <2>11, <3>2 DEF WriteBuffer, front
  <2>12. CASE EndWriting
    <3>1. ASSUME Len(buffersToWrite) > 2
          PROVE  /\ SubSeq(buffersToWrite, 1, 2) \in Seq(Buffer)
                 /\ Len(SubSeq(buffersToWrite, 1, 2)) = 2
      BY <3>1, FirstTwo
    <3>2. QED
      BY <2>12, <3>1, LenProperties DEF EndWriting, front, BackendPoints
  <2>13. CASE Recycle
    <3>1. Missing <= Len(buffersToWrite)
      BY <2>13 DEF Recycle, Missing
    <3>2. QED
      BY <2>13, <2>a, <3>1, EmptySeq DEF Recycle, front, SparesReady, BackendPoints
  <2>14. CASE UNCHANGED vars
    BY <2>14 DEF vars, front, backend, SparesReady
  <2>15. QED
    BY <2>1, <2>2, <2>3, <2>4, <2>5, <2>6, <2>7, <2>8, <2>9, <2>10, <2>11,
       <2>12, <2>13, <2>14
       DEF Next, OwnerWaits, BackendStep, TakeAtOnce, WaitEnds
<1>3. QED
  BY <1>1, <1>2, PTL DEF Spec

(***************************************************************************)
(* Types: no empty pointer is dereferenced by append() or written.         *)
(***************************************************************************)
THEOREM TypeCorrect == Spec => []TypeOK
BY SparesInvInductive, PTL

(***************************************************************************)
(* No assertion of threadFunc() fails, whatever append() does between two  *)
(* steps of the backend.                                                   *)
(***************************************************************************)
THEOREM AssertsNeverFail == Spec => []AssertsHold
<1>1. SparesInv => AssertsHold
  BY DEF SparesInv
<1>2. QED
  BY <1>1, SparesInvInductive, PTL
-----------------------------------------------------------------------------
(* Lines, and where they are.                                              *)

\* Every line of A was taken before every line of B.
Before(A, B) == \A a \in A, b \in B : a < b

\* The buffers from the i-th on hold lines in order.
Chain(bufs, i) ==
  \A j \in i .. Len(bufs) :
    /\ Increasing(bufs[j])
    /\ \A k \in i .. Len(bufs) : j < k => Before(LinesOf(bufs[j]), LinesOf(bufs[k]))

\* A line at the end of a buffer.
LEMMA AppendLines ==
  ASSUME NEW s \in Seq(Lines), NEW x \in Lines
  PROVE  /\ LinesOf(Append(s, x)) = LinesOf(s) \cup {x}
         /\ Increasing(s) /\ Before(LinesOf(s), {x}) => Increasing(Append(s, x))
<1>1. /\ Len(s) \in Nat /\ DOMAIN s = 1 .. Len(s)
      /\ DOMAIN Append(s, x) = 1 .. Len(s) + 1
      /\ \A j \in 1 .. Len(s) : Append(s, x)[j] = s[j]
      /\ Append(s, x)[Len(s) + 1] = x
  BY AppendProperties, LenProperties
<1>2. \A i \in 1 .. Len(s) + 1 : i \in 1 .. Len(s) \/ i = Len(s) + 1
  BY <1>1
<1>3. LinesOf(Append(s, x)) = LinesOf(s) \cup {x}
  BY <1>1, <1>2 DEF LinesOf
<1>4. ASSUME Increasing(s), Before(LinesOf(s), {x}),
             NEW i \in 1 .. Len(s) + 1, NEW j \in 1 .. Len(s) + 1, i < j
      PROVE  Append(s, x)[i] < Append(s, x)[j]
  BY <1>1, <1>4 DEF Increasing, Before, LinesOf
<1>5. QED
  BY <1>1, <1>3, <1>4 DEF Increasing

\* Two sequences of lines one after the other.
LEMMA ConcatLines ==
  ASSUME NEW s \in Seq(Lines), NEW t \in Seq(Lines)
  PROVE  /\ LinesOf(s \o t) = LinesOf(s) \cup LinesOf(t)
         /\ Increasing(s) /\ Increasing(t) /\ Before(LinesOf(s), LinesOf(t)) => Increasing(s \o t)
         /\ Increasing(s \o t)
              => Increasing(s) /\ Increasing(t) /\ Before(LinesOf(s), LinesOf(t))
<1> DEFINE u == s \o t
<1>1. /\ Len(s) \in Nat /\ DOMAIN s = 1 .. Len(s)
      /\ Len(t) \in Nat /\ DOMAIN t = 1 .. Len(t)
      /\ DOMAIN u = 1 .. Len(s) + Len(t)
      /\ \A i \in 1 .. Len(s) : u[i] = s[i]
      /\ \A i \in 1 .. Len(t) : u[Len(s) + i] = t[i]
  BY ConcatProperties, LenProperties
<1> HIDE DEF u
<1>2. \A i \in 1 .. Len(s) + Len(t) :
        i \in 1 .. Len(s) \/ \E k \in 1 .. Len(t) : i = Len(s) + k
  <2> TAKE i \in 1 .. Len(s) + Len(t)
  <2>1. i \in 1 .. Len(s) \/ (i - Len(s) \in 1 .. Len(t) /\ i = Len(s) + (i - Len(s)))
    BY <1>1
  <2>2. QED
    BY <2>1
<1>3. /\ \A i \in 1 .. Len(s) : i \in 1 .. Len(s) + Len(t)
      /\ \A i \in 1 .. Len(t) : Len(s) + i \in 1 .. Len(s) + Len(t)
  BY <1>1
<1>4. LinesOf(u) = LinesOf(s) \cup LinesOf(t)
  <2>1. \A i \in 1 .. Len(s) + Len(t) : u[i] \in LinesOf(s) \cup LinesOf(t)
    BY <1>1, <1>2 DEF LinesOf
  <2>2. \A i \in 1 .. Len(s) : s[i] \in LinesOf(u)
    BY <1>1, <1>3 DEF LinesOf
  <2>3. \A i \in 1 .. Len(t) : t[i] \in LinesOf(u)
    BY <1>1, <1>3 DEF LinesOf
  <2>4. QED
    BY <1>1, <2>1, <2>2, <2>3 DEF LinesOf
<1>5. ASSUME Increasing(s), Increasing(t), Before(LinesOf(s), LinesOf(t)),
             NEW i \in 1 .. Len(s) + Len(t), NEW j \in 1 .. Len(s) + Len(t), i < j
      PROVE  u[i] < u[j]
  <2>1. j \in 1 .. Len(s) => i \in 1 .. Len(s)
    BY <1>1, <1>5
  <2>2. CASE i \in 1 .. Len(s) /\ j \in 1 .. Len(s)
    BY <1>1, <1>5, <2>2 DEF Increasing
  <2>3. CASE \E k \in 1 .. Len(t) : j = Len(s) + k
    <3>1. PICK k \in 1 .. Len(t) : j = Len(s) + k
      BY <2>3
    <3>2. CASE i \in 1 .. Len(s)
      BY <1>1, <1>5, <3>1, <3>2 DEF Before, LinesOf
    <3>3. CASE \E l \in 1 .. Len(t) : i = Len(s) + l
      <4>1. PICK l \in 1 .. Len(t) : i = Len(s) + l
        BY <3>3
      <4>2. l < k
        BY <1>1, <1>5, <3>1, <4>1
      <4>3. QED
        BY <1>1, <1>5, <3>1, <4>1, <4>2 DEF Increasing
    <3>4. QED
      BY <1>2, <3>2, <3>3
  <2>4. QED
    BY <1>2, <2>1, <2>2, <2>3
<1>6. ASSUME Increasing(u)
      PROVE  Increasing(s) /\ Increasing(t) /\ Before(LinesOf(s), LinesOf(t))
  <2>1. Increasing(s)
    BY <1>1, <1>3, <1>6 DEF Increasing
  <2>2. Increasing(t)
    <3>1. ASSUME NEW i \in 1 .. Len(t), NEW j \in 1 .. Len(t), i < j
          PROVE  t[i] < t[j]
      <4>1. Len(s) + i < Len(s) + j
        BY <1>1, <3>1
      <4>2. QED
        BY <1>1, <1>3, <1>6, <4>1 DEF Increasing
    <3>2. QED
      BY <1>1, <3>1 DEF Increasing
  <2>3. Before(LinesOf(s), LinesOf(t))
    <3>1. ASSUME NEW i \in 1 .. Len(s), NEW j \in 1 .. Len(t)
          PROVE  s[i] < t[j]
      <4>1. i < Len(s) + j
        BY <1>1
      <4>2. QED
        BY <1>1, <1>3, <1>6, <4>1 DEF Increasing
    <3>2. QED
      BY <1>1, <3>1 DEF Before, LinesOf
  <2>4. QED
    BY <2>1, <2>2, <2>3
<1>7. QED
  <2>1. Increasing(s) /\ Increasing(t) /\ Before(LinesOf(s), LinesOf(t)) => Increasing(u)
    BY <1>1, <1>5 DEF Increasing
  <2>2. QED
    BY <1>4, <1>6, <2>1 DEF u
\* No buffer, no line.
LEMMA NoLines ==
  /\ LinesOf(<<>>) = {} /\ Increasing(<<>>)
  /\ LinesFrom(<<>>, 1) = {} /\ Chain(<<>>, 1)
  /\ \A bufs \in Seq(Buffer) : /\ LinesFrom(bufs, Len(bufs) + 1) = {}
                               /\ Chain(bufs, Len(bufs) + 1)
<1>1. DOMAIN <<>> = {} /\ Len(<<>>) = 0
  BY EmptySeq
<1>2. ASSUME NEW bufs \in Seq(Buffer) PROVE Len(bufs) + 1 .. Len(bufs) = {}
  BY LenProperties
<1>3. 1 .. 0 = {}
  OBVIOUS
<1>4. QED
  BY <1>1, <1>2, <1>3 DEF LinesOf, Increasing, LinesFrom, Chain

\* Another buffer at the end.
LEMMA AppendBuffer ==
  ASSUME NEW bufs \in Seq(Buffer), NEW buf \in Buffer, NEW i \in 1 .. Len(bufs) + 1
  PROVE  /\ LinesFrom(Append(bufs, buf), i) = LinesFrom(bufs, i) \cup LinesOf(buf)
         /\ Chain(bufs, i) /\ Increasing(buf) /\ Before(LinesFrom(bufs, i), LinesOf(buf))
              => Chain(Append(bufs, buf), i)
<1> DEFINE u == Append(bufs, buf)
           n == Len(bufs)
<1>1. /\ n \in Nat /\ Len(u) = n + 1
      /\ \A j \in 1 .. n : u[j] = bufs[j]
      /\ u[n + 1] = buf
  BY AppendProperties, LenProperties
<1> HIDE DEF u, n
<1>2. /\ i .. n + 1 = (i .. n) \cup {n + 1}
      /\ \A j \in i .. n : j \in 1 .. n
      /\ i \in 1 .. n + 1
  BY <1>1 DEF n
<1>3. LinesFrom(u, i) = LinesFrom(bufs, i) \cup LinesOf(buf)
  <2>1. \A j \in i .. n : u[j] = bufs[j]
    BY <1>1, <1>2
  <2>2. LinesFrom(u, i) = UNION {LinesOf(u[k]) : k \in (i .. n) \cup {n + 1}}
    BY <1>1, <1>2 DEF LinesFrom
  <2>3. LinesFrom(bufs, i) = UNION {LinesOf(u[k]) : k \in i .. n}
    BY <2>1 DEF LinesFrom, n
  <2>4. QED
    BY <1>1, <2>2, <2>3
<1>4. ASSUME Chain(bufs, i), Increasing(buf), Before(LinesFrom(bufs, i), LinesOf(buf))
      PROVE  Chain(u, i)
  <2>1. ASSUME NEW j \in i .. n + 1 PROVE Increasing(u[j])
    BY <1>1, <1>2, <1>4, <2>1 DEF Chain, n
  <2>2. ASSUME NEW j \in i .. n + 1, NEW k \in i .. n + 1, j < k
        PROVE  Before(LinesOf(u[j]), LinesOf(u[k]))
    <3>1. j \in i .. n /\ u[j] = bufs[j]
      BY <1>1, <1>2, <2>2
    <3>2. CASE k \in i .. n
      BY <1>1, <1>2, <1>4, <2>2, <3>1, <3>2 DEF Chain, n
    <3>3. CASE k = n + 1
      <4>1. LinesOf(bufs[j]) \subseteq LinesFrom(bufs, i)
        BY <3>1 DEF LinesFrom, n
      <4>2. QED
        BY <1>1, <1>4, <3>1, <3>3, <4>1 DEF Before
    <3>4. QED
      BY <1>2, <3>2, <3>3
  <2>3. QED
    BY <1>1, <2>1, <2>2 DEF Chain
<1>5. QED
  BY <1>3, <1>4 DEF u

\* The i-th buffer comes before the later ones.
LEMMA NextBuffer ==
  ASSUME NEW bufs \in Seq(Buffer), NEW i \in 1 .. Len(bufs)
  PROVE  /\ LinesFrom(bufs, i) = LinesOf(bufs[i]) \cup LinesFrom(bufs, i + 1)
         /\ Chain(bufs, i) => /\ Increasing(bufs[i]) /\ Chain(bufs, i + 1)
                              /\ Before(LinesOf(bufs[i]), LinesFrom(bufs, i + 1))
<1> DEFINE n == Len(bufs)
<1>1. n \in Nat
  BY LenProperties
<1> HIDE DEF n
<1>2. i .. n = {i} \cup (i + 1 .. n) /\ \A k \in i + 1 .. n : i < k
  BY <1>1 DEF n
<1>3. LinesFrom(bufs, i) = LinesOf(bufs[i]) \cup LinesFrom(bufs, i + 1)
  <2>1. LinesFrom(bufs, i) = UNION {LinesOf(bufs[k]) : k \in {i} \cup (i + 1 .. n)}
    BY <1>2 DEF LinesFrom, n
  <2>2. QED
    BY <2>1 DEF LinesFrom, n
<1>4. ASSUME Chain(bufs, i)
      PROVE  /\ Increasing(bufs[i]) /\ Chain(bufs, i + 1)
             /\ Before(LinesOf(bufs[i]), LinesFrom(bufs, i + 1))
  <2>1. \A k \in i + 1 .. n : Before(LinesOf(bufs[i]), LinesOf(bufs[k]))
    BY <1>2, <1>4 DEF Chain, n
  <2>2. Before(LinesOf(bufs[i]), LinesFrom(bufs, i + 1))
    BY <2>1 DEF Before, LinesFrom, n
  <2>3. QED
    BY <1>2, <1>4, <2>2 DEF Chain, n
<1>5. QED
  BY <1>3, <1>4

\* Cut to the first two, the rest comes later.
LEMMA FirstTwoBuffers ==
  ASSUME NEW bufs \in Seq(Buffer), Len(bufs) > 2
  PROVE  LET two == SubSeq(bufs, 1, 2) IN
         /\ LinesFrom(bufs, 1) = LinesFrom(two, 1) \cup LinesFrom(bufs, 3)
         /\ Chain(bufs, 1) => /\ Chain(two, 1)
                              /\ Before(LinesFrom(two, 1), LinesFrom(bufs, 3))
<1> DEFINE two == SubSeq(bufs, 1, 2)
<1>1. /\ Len(bufs) \in Nat /\ Len(two) = 2
      /\ two[1] = bufs[1] /\ two[2] = bufs[2]
  BY LenProperties, FirstTwo
<1> HIDE DEF two
<1>2. LinesFrom(two, 1) = LinesOf(bufs[1]) \cup LinesOf(bufs[2])
  <2>1. 1 .. 2 = {1, 2}
    OBVIOUS
  <2>2. LinesFrom(two, 1) = UNION {LinesOf(two[k]) : k \in {1, 2}}
    BY <1>1, <2>1 DEF LinesFrom
  <2>3. QED
    BY <1>1, <2>2
<1>3. /\ LinesFrom(bufs, 1) = LinesOf(bufs[1]) \cup LinesFrom(bufs, 2)
      /\ LinesFrom(bufs, 2) = LinesOf(bufs[2]) \cup LinesFrom(bufs, 3)
  BY <1>1, NextBuffer
<1>4. ASSUME Chain(bufs, 1)
      PROVE  Chain(two, 1) /\ Before(LinesFrom(two, 1), LinesFrom(bufs, 3))
  <2>1. /\ Increasing(bufs[1]) /\ Chain(bufs, 2)
        /\ Before(LinesOf(bufs[1]), LinesFrom(bufs, 2))
    BY <1>1, <1>4, NextBuffer
  <2>2. Increasing(bufs[2]) /\ Before(LinesOf(bufs[2]), LinesFrom(bufs, 3))
    BY <1>1, <2>1, NextBuffer
  <2>3. Before(LinesFrom(two, 1), LinesFrom(bufs, 3))
    BY <1>2, <1>3, <2>1, <2>2 DEF Before
  <2>4. Before(LinesOf(bufs[1]), LinesOf(bufs[2]))
    BY <1>3, <2>1 DEF Before
  <2>5. \A j \in 1 .. 2 : j = 1 \/ j = 2
    OBVIOUS
  <2>6. QED
    BY <1>1, <2>1, <2>2, <2>3, <2>4, <2>5 DEF Chain
<1>5. QED
  BY <1>2, <1>3, <1>4 DEF two
-----------------------------------------------------------------------------
(***************************************************************************)
(* The inductive invariant behind LogIntact: the lines of the file, of the *)
(* buffers still to be written, of the full buffers and of the current one *)
(* follow one another, and are, with the lost ones, all that append() took.*)
(***************************************************************************)
Logged  == LinesOf(output)
Pending == IF pc = "recycle" THEN {} ELSE LinesFrom(buffersToWrite, written + 1)
Full    == LinesFrom(buffers_, 1)
Current == LinesOf(currentBuffer_)

OrderInv ==
  /\ Increasing(output) /\ Increasing(currentBuffer_) /\ Chain(buffers_, 1)
  /\ pc # "recycle" => Chain(buffersToWrite, written + 1)
  /\ Before(Logged, Pending \cup Full \cup Current)
  /\ Before(Pending, Full \cup Current)
  /\ Before(Full, Current)
  /\ nextBuffer_ \in {Null, <<>>}

AccountInv ==
  /\ lost \cap (Logged \cup Pending \cup Full \cup Current) = {}
  /\ 1 .. appended = Logged \cup lost \cup Pending \cup Full \cup Current
  /\ \A k \in 1 .. written : LinesOf(buffersToWrite[k]) \subseteq Logged
  /\ pc = "recycle" => LinesFrom(buffersToWrite, 1) \subseteq Logged

\* A step that moves no line.
LEMMA LinesUntouched ==
  ASSUME OrderInv, AccountInv, pc' = pc \/ "recycle" \notin {pc, pc'},
         UNCHANGED <<front, buffersToWrite, written, output, lost>>
  PROVE  (OrderInv /\ AccountInv)'
BY DEF front, OrderInv, AccountInv, Logged, Pending, Full, Current

LEMMA AppendLineOrder ==
  ASSUME TypeOK, OrderInv, AccountInv, AppendLine
  PROVE  (OrderInv /\ AccountInv)'
<1> DEFINE x == appended + 1
<1>1. /\ x \in Lines /\ 1 .. x = (1 .. appended) \cup {x} /\ x \notin 1 .. appended
      /\ \A l \in 1 .. appended : l < x
  BY AsyncLoggingAssumption DEF AppendLine, TypeOK, Lines
<1>2. /\ currentBuffer_ \in Seq(Lines) /\ <<>> \in Seq(Lines)
      /\ currentBuffer_ \in Buffer /\ buffers_ \in Seq(Buffer)
      /\ 1 \in 1 .. Len(buffers_) + 1
  BY EmptySeq, LenProperties DEF TypeOK, Buffer
<1>3. UNCHANGED <<pc, buffersToWrite, written, output, lost>> /\ appended' = x
  BY DEF AppendLine, backend
<1> HIDE DEF x
<1>4. Logged' = Logged /\ Pending' = Pending
  BY <1>3 DEF Logged, Pending
<1>5. Before(Logged \cup Pending \cup Full \cup Current, {x})
  BY <1>1 DEF AccountInv, Before
<1>6. CASE Fits(currentBuffer_)
  <2>1. currentBuffer_' = Append(currentBuffer_, x) /\ UNCHANGED <<nextBuffer_, buffers_>>
    BY <1>6 DEF AppendLine, x
  <2>2. Full' = Full
    BY <2>1 DEF Full
  <2>3. Current' = Current \cup {x} /\ Increasing(currentBuffer_')
    <3>1. Before(Current, {x})
      BY <1>5 DEF Before
    <3>2. QED
      BY <1>1, <1>2, <2>1, <3>1, AppendLines DEF Current, OrderInv
  <2>4. OrderInv'
    <3>1. /\ Before(Logged, Pending \cup Full \cup Current \cup {x})
          /\ Before(Pending, Full \cup Current \cup {x})
          /\ Before(Full, Current \cup {x})
      BY <1>5 DEF OrderInv, Before
    <3>2. QED
      BY <1>3, <1>4, <2>1, <2>2, <2>3, <3>1 DEF OrderInv
  <2>5. AccountInv'
    BY <1>1, <1>3, <1>4, <2>2, <2>3 DEF AccountInv
  <2>6. QED
    BY <2>4, <2>5
<1>7. CASE ~Fits(currentBuffer_)
  <2>1. Fits(<<>>) /\ Len(<<>>) = 0
    BY AsyncLoggingAssumption DEF Fits
  <2>2. /\ buffers_' = Append(buffers_, currentBuffer_)
        /\ currentBuffer_' = Append(<<>>, x) /\ nextBuffer_' = Null
    BY <1>7, <2>1 DEF AppendLine, OrderInv, x
  <2>3. Full' = Full \cup Current /\ Chain(buffers_', 1)
    <3>1. Increasing(currentBuffer_) /\ Before(Full, Current) /\ Chain(buffers_, 1)
      BY DEF OrderInv
    <3>2. QED
      BY <1>2, <2>2, <3>1, AppendBuffer DEF Full, Current
  <2>4. Current' = {x} /\ Increasing(currentBuffer_')
    <3>1. Before({}, {x})
      BY DEF Before
    <3>2. QED
      BY <1>1, <1>2, <2>2, <3>1, AppendLines, NoLines DEF Current
  <2>5. OrderInv'
    <3>1. /\ Before(Logged, Pending \cup (Full \cup Current) \cup {x})
          /\ Before(Pending, (Full \cup Current) \cup {x})
          /\ Before(Full \cup Current, {x})
      BY <1>5 DEF OrderInv, Before
    <3>2. QED
      BY <1>3, <1>4, <2>2, <2>3, <2>4, <3>1 DEF OrderInv
  <2>6. AccountInv'
    BY <1>1, <1>3, <1>4, <2>3, <2>4 DEF AccountInv
  <2>7. QED
    BY <2>5, <2>6
<1>8. QED
  BY <1>6, <1>7

LEMMA TakeBuffersOrder ==
  ASSUME TypeOK, SparesInv, OrderInv, AccountInv, pc \in {"take", "wait"}, TakeBuffers
  PROVE  (OrderInv /\ AccountInv)'
<1>1. /\ written = 0 /\ buffersToWrite = <<>> /\ newBuffer1 = <<>> /\ newBuffer2 = <<>>
      /\ currentBuffer_ \in Buffer /\ buffers_ \in Seq(Buffer)
      /\ 1 \in 1 .. Len(buffers_) + 1
  BY LenProperties DEF SparesInv, SparesReady, TypeOK
<1>2. /\ buffersToWrite' = Append(buffers_, currentBuffer_) /\ pc' = "trim"
      /\ buffers_' = <<>> /\ currentBuffer_' = <<>> /\ nextBuffer_' \in {Null, <<>>}
      /\ written' = 0 /\ UNCHANGED <<appended, output, lost>>
  BY <1>1 DEF TakeBuffers, Round, NextUsed, OrderInv
<1>3. Logged' = Logged /\ Pending = {} /\ Full' = {} /\ Current' = {}
  BY <1>1, <1>2, NoLines DEF Logged, Pending, Full, Current
<1>4. Pending' = Full \cup Current /\ Chain(buffersToWrite', 1)
  <2>1. Increasing(currentBuffer_) /\ Before(Full, Current) /\ Chain(buffers_, 1)
    BY DEF OrderInv
  <2>2. LinesFrom(Append(buffers_, currentBuffer_), 1) = Full \cup Current
          /\ Chain(Append(buffers_, currentBuffer_), 1)
    BY <1>1, <2>1, AppendBuffer DEF Full, Current
  <2>3. QED
    BY <1>2, <2>2 DEF Pending
<1>5. OrderInv'
  BY <1>2, <1>3, <1>4, NoLines DEF OrderInv, Before
<1>6. AccountInv'
  BY <1>2, <1>3, <1>4 DEF AccountInv
<1>7. QED
  BY <1>5, <1>6

LEMMA TrimOrder ==
  ASSUME TypeOK, SparesInv, OrderInv, AccountInv, Trim
  PROVE  (OrderInv /\ AccountInv)'
<1>1. written = 0 /\ pc = "trim" /\ pc' = "write"
        /\ UNCHANGED <<front, written, output>>
  BY DEF Trim, SparesInv
<1>2. CASE UNCHANGED <<buffersToWrite, lost>>
  BY <1>1, <1>2, LinesUntouched
<1>3. CASE /\ Len(buffersToWrite) > MaxBuffers
           /\ buffersToWrite' = SubSeq(buffersToWrite, 1, 2)
           /\ lost' = lost \cup LinesFrom(buffersToWrite, 3)
  <2> DEFINE rest == LinesFrom(buffersToWrite, 3)
  <2>1. Len(buffersToWrite) > 2 /\ buffersToWrite \in Seq(Buffer)
    BY <1>3, LenProperties, AsyncLoggingAssumption DEF TypeOK
  <2>2. Pending = LinesFrom(buffersToWrite, 1) /\ Pending' = LinesFrom(buffersToWrite', 1)
    BY <1>1 DEF Pending
  <2>3. /\ Pending = Pending' \cup rest
        /\ Chain(buffersToWrite', 1) /\ Before(Pending', rest)
    BY <1>1, <1>3, <2>1, <2>2, FirstTwoBuffers DEF OrderInv
  <2>4. Logged' = Logged /\ Full' = Full /\ Current' = Current
    BY <1>1 DEF Logged, Full, Current, front
  <2> HIDE DEF rest
  <2>5. OrderInv'
    <3>1. /\ Before(Logged, Pending' \cup Full \cup Current)
          /\ Before(Pending', Full \cup Current)
      BY <2>3 DEF OrderInv, Before
    <3>2. QED
      BY <1>1, <2>3, <2>4, <3>1 DEF OrderInv, front
  <2>6. \A l \in Logged \cup Pending' \cup Full \cup Current : l \in Nat /\ l \notin rest
    <3>1. rest \subseteq 1 .. appended /\ Pending' \subseteq 1 .. appended
            /\ Logged \cup Full \cup Current \subseteq 1 .. appended
      BY <2>3 DEF AccountInv
    <3>2. /\ \A l \in Logged, m \in rest : l < m
          /\ \A l \in Pending', m \in rest : l < m
          /\ \A l \in Full \cup Current, m \in rest : m < l
      BY <2>3 DEF OrderInv, Before
    <3>3. \A l, m \in 1 .. appended : l \in Nat /\ (l < m => l # m)
      BY AsyncLoggingAssumption DEF TypeOK
    <3>4. QED
      BY <3>1, <3>2, <3>3, Zenon
  <2>7. AccountInv'
    BY <1>1, <1>3, <2>3, <2>4, <2>6 DEF AccountInv, front, rest
  <2>8. QED
    BY <2>5, <2>7
<1>4. QED
  BY <1>2, <1>3 DEF Trim
LEMMA WriteBufferOrder ==
  ASSUME TypeOK, OrderInv, AccountInv, WriteBuffer
  PROVE  (OrderInv /\ AccountInv)'
<1> DEFINE i == written + 1
           data == buffersToWrite[i]
<1>1. /\ i \in 1 .. Len(buffersToWrite) /\ buffersToWrite \in Seq(Buffer)
      /\ written \in Nat /\ pc = "write"
      /\ data \in Seq(Lines) /\ output \in Seq(Lines)
  <2>1. i \in 1 .. Len(buffersToWrite) /\ written \in Nat
    BY LenProperties DEF WriteBuffer, TypeOK
  <2>2. QED
    BY <2>1, ElementOfSeq DEF WriteBuffer, TypeOK, Buffer
<1>2. /\ written' = i /\ output' = output \o data
      /\ UNCHANGED <<front, pc, buffersToWrite, lost>>
  BY DEF WriteBuffer
<1> HIDE DEF i, data
<1>3. /\ Pending = LinesOf(data) \cup Pending'
      /\ Increasing(data) /\ Chain(buffersToWrite, i + 1)
      /\ Before(LinesOf(data), Pending')
  <2>1. Pending = LinesFrom(buffersToWrite, i) /\ Pending' = LinesFrom(buffersToWrite, i + 1)
    BY <1>1, <1>2 DEF Pending, i
  <2>2. Chain(buffersToWrite, i)
    BY <1>1 DEF OrderInv, i
  <2>3. QED
    BY <1>1, <2>1, <2>2, NextBuffer DEF data
<1>4. Logged' = Logged \cup LinesOf(data) /\ Increasing(output')
  <2>1. Increasing(output) /\ Increasing(data) /\ Before(Logged, LinesOf(data))
    BY <1>3 DEF OrderInv, Before
  <2>2. QED
    BY <1>1, <1>2, <2>1, ConcatLines DEF Logged
<1>5. Full' = Full /\ Current' = Current
  BY <1>2 DEF Full, Current, front
<1>6. OrderInv'
  <2>1. /\ Before(Logged \cup LinesOf(data), Pending' \cup Full \cup Current)
        /\ Before(Pending', Full \cup Current)
    BY <1>3 DEF OrderInv, Before
  <2>2. QED
    BY <1>1, <1>2, <1>3, <1>4, <1>5, <2>1 DEF OrderInv, front
<1>7. AccountInv'
  <2>1. \A k \in 1 .. i : k \in 1 .. written \/ k = i
    BY <1>1 DEF i
  <2>2. QED
    BY <1>1, <1>2, <1>3, <1>4, <1>5, <2>1 DEF AccountInv, front, data
<1>8. QED
  BY <1>6, <1>7

LEMMA EndWritingOrder ==
  ASSUME TypeOK, OrderInv, AccountInv, EndWriting
  PROVE  (OrderInv /\ AccountInv)'
<1>1. /\ pc = "write" /\ pc' = "recycle" /\ written = Len(buffersToWrite) /\ written' = 0
      /\ UNCHANGED <<front, output, lost>> /\ buffersToWrite \in Seq(Buffer)
  BY DEF EndWriting, TypeOK
<1>2. Pending = {} /\ Pending' = {}
  BY <1>1, NoLines DEF Pending
<1>3. Logged' = Logged /\ Full' = Full /\ Current' = Current
  BY <1>1 DEF Logged, Full, Current, front
<1>4. LinesFrom(buffersToWrite', 1) \subseteq Logged
  <2>1. LinesFrom(buffersToWrite, 1) \subseteq Logged
    BY <1>1 DEF AccountInv, LinesFrom
  <2>2. CASE Len(buffersToWrite) > 2
    <3>1. LinesFrom(SubSeq(buffersToWrite, 1, 2), 1) \subseteq LinesFrom(buffersToWrite, 1)
      BY <1>1, <2>2, FirstTwoBuffers
    <3>2. QED
      BY <2>1, <2>2, <3>1 DEF EndWriting
  <2>3. CASE ~(Len(buffersToWrite) > 2)
    BY <2>1, <2>3 DEF EndWriting
  <2>4. QED
    BY <2>2, <2>3
<1>5. QED
  BY <1>1, <1>2, <1>3, <1>4 DEF OrderInv, AccountInv, front

LEMMA RecycleOrder ==
  ASSUME TypeOK, SparesInv, OrderInv, AccountInv, Recycle
  PROVE  (OrderInv /\ AccountInv)'
<1>1. /\ pc = "recycle" /\ pc' # "recycle" /\ written = 0 /\ buffersToWrite' = <<>>
      /\ UNCHANGED <<front, written, output, lost>>
  BY DEF Recycle, SparesInv
<1>2. Pending = {} /\ Pending' = {} /\ Chain(buffersToWrite', 1)
  BY <1>1, NoLines DEF Pending
<1>3. Logged' = Logged /\ Full' = Full /\ Current' = Current
  BY <1>1 DEF Logged, Full, Current, front
<1>4. QED
  BY <1>1, <1>2, <1>3 DEF OrderInv, AccountInv, front

LEMMA OrderInductive == Spec => [](OrderInv /\ AccountInv)
<1>1. Init => OrderInv /\ AccountInv
  <2> SUFFICES ASSUME Init PROVE OrderInv /\ AccountInv
    OBVIOUS
  <2>1. Logged = {} /\ Pending = {} /\ Full = {} /\ Current = {}
    BY NoLines DEF Init, Logged, Pending, Full, Current
  <2>2. OrderInv
    BY <2>1, NoLines DEF Init, OrderInv, Before
  <2>3. AccountInv
    BY <2>1 DEF Init, AccountInv
  <2>4. QED
    BY <2>2, <2>3
<1>2. TypeOK /\ SparesInv /\ OrderInv /\ AccountInv /\ [Next]_vars
        => (OrderInv /\ AccountInv)'
  <2> SUFFICES ASSUME TypeOK, SparesInv, OrderInv, AccountInv, [Next]_vars
               PROVE  (OrderInv /\ AccountInv)'
    OBVIOUS
  <2>1. CASE StartLogging \/ StartReturns \/ Stop \/ Join \/ BackendStart \/ TestRunning
               \/ BeginWait
    <3>1. pc' = pc \/ "recycle" \notin {pc, pc'}
      BY <2>1 DEF StartLogging, StartReturns, Stop, Join, BackendStart, TestRunning, BeginWait,
                  SparesInv
    <3>2. UNCHANGED <<front, buffersToWrite, written, output, lost>>
      BY <2>1 DEF StartLogging, StartReturns, Stop, Join, BackendStart, TestRunning, BeginWait,
                  backend
    <3>3. QED
      BY <3>1, <3>2, LinesUntouched
  <2>2. CASE UNCHANGED vars
    BY <2>2 DEF vars, front, backend, OrderInv, AccountInv, Logged, Pending, Full, Current
  <2>3. QED
    BY <2>1, <2>2, AppendLineOrder, TakeBuffersOrder, TrimOrder, WriteBufferOrder,
       EndWritingOrder, RecycleOrder
       DEF Next, OwnerWaits, BackendStep, TakeAtOnce, WaitEnds
<1>3. QED
  BY <1>1, <1>2, SparesInvInductive, PTL DEF Spec

(***************************************************************************)
(* The log, for any number of callers and rounds: the file has the lines   *)
(* in the order in which append() took them, none twice and none of those  *)
(* dropped, and every line taken is in the file, in a buffer or dropped.   *)
(***************************************************************************)
THEOREM LogAlwaysIntact == Spec => []LogIntact
<1>1. TypeOK /\ OrderInv /\ AccountInv => LogIntact
  <2> SUFFICES ASSUME TypeOK, OrderInv, AccountInv PROVE LogIntact
    OBVIOUS
  <2>1. CASE pc = "recycle"
    <3>1. LinesFrom(buffersToWrite, written + 1) \subseteq Logged
      BY <2>1 DEF AccountInv, LinesFrom, TypeOK
    <3>2. QED
      BY <2>1, <3>1 DEF LogIntact, OrderInv, AccountInv, Logged, Pending, Full, Current
  <2>2. CASE pc # "recycle"
    BY <2>2 DEF LogIntact, OrderInv, AccountInv, Logged, Pending, Full, Current
  <2>3. QED
    BY <2>1, <2>2
<1>2. QED
  BY <1>1, OrderInductive, TypeCorrect, PTL
-----------------------------------------------------------------------------
(* The file.                                                               *)

(***************************************************************************)
(* With its file, AsyncLogging does what it does without: the steps that   *)
(* write are WriteBuffer, Recycle and TestRunning.                         *)
(***************************************************************************)
THEOREM LogFileImplements == LogSpec => Spec
<1>1. InitLog => Init
  BY DEF InitLog
<1>2. [NextLog]_logVars => [Next]_vars
  BY DEF NextLog, logVars, ToFile, AppendToFile, FlushRound, CloseFile, InMemory,
         BackendInMemory, Next, BackendStep
<1>3. QED
  BY <1>1, <1>2, PTL DEF LogSpec, Spec

\* A sequence of lines cut in two.
LEMMA CutLines ==
  ASSUME NEW s \in Seq(Lines), NEW n \in 0 .. Len(s)
  PROVE  /\ SubSeq(s, 1, n) \in Seq(Lines) /\ SubSeq(s, n + 1, Len(s)) \in Seq(Lines)
         /\ SubSeq(s, 1, n) \o SubSeq(s, n + 1, Len(s)) = s
<1>1. /\ Len(s) \in Nat
      /\ \A i \in 1 .. n : s[i] \in Lines
      /\ \A i \in n + 1 .. Len(s) : s[i] \in Lines
  BY LenProperties, ElementOfSeq
<1>2. SubSeq(s, 1, n) \in Seq(Lines) /\ SubSeq(s, n + 1, Len(s)) \in Seq(Lines)
  BY <1>1, SubSeqProperties
<1>3. SubSeq(s, 1, n) \o SubSeq(s, n + 1, Len(s)) = SubSeq(s, 1, Len(s))
  <2>1. 1 \in 1 .. Len(s) + 1 /\ n \in 1 - 1 .. Len(s) /\ Len(s) \in n .. Len(s)
    BY <1>1
  <2>2. QED
    BY <2>1, ConcatAdjacentSubSeq
<1>4. QED
  BY <1>2, <1>3, SubSeqFull

LEMMA LinesAssociative ==
  \A a, b, c \in Seq(Lines) : (a \o b) \o c = a \o (b \o c)
BY ConcatAssociative

\* The kernel takes what stdio held first.
LEMMA HandOverKeeps ==
  ASSUME file \in Seq(Lines), NEW held \in Seq(Lines), NEW n \in 0 .. Len(held),
         HandOver(held, n)
  PROVE  /\ file' \in Seq(Lines) /\ buffer_' \in Seq(Lines)
         /\ file' \o buffer_' = file \o held
         /\ LinesOf(buffer_') \subseteq LinesOf(held)
         /\ n = Len(held) => buffer_' = <<>>
<1> DEFINE a == SubSeq(held, 1, n)
           b == SubSeq(held, n + 1, Len(held))
<1>1. a \in Seq(Lines) /\ b \in Seq(Lines) /\ a \o b = held
  BY CutLines, Zenon
<1>2. file' = file \o a /\ buffer_' = b
  BY DEF HandOver
<1>3. n = Len(held) => b = <<>>
  BY LenProperties, SubSeqEmpty
<1> HIDE DEF a, b
<1>4. (file \o a) \o b = file \o (a \o b) /\ file \o a \in Seq(Lines)
  BY <1>1, LinesAssociative, ConcatProperties, Zenon
<1>5. LinesOf(held) = LinesOf(a) \cup LinesOf(b)
  BY <1>1, ConcatLines
<1>6. QED
  BY <1>1, <1>2, <1>3, <1>4, <1>5

LEMMA FflushKeeps ==
  ASSUME FileTypeOK(Lines), NEW held \in Seq(Lines), fflush(held)
  PROVE  /\ file' \in Seq(Lines) /\ buffer_' \in Seq(Lines)
         /\ file' \o buffer_' = file \o held
         /\ LinesOf(buffer_') \subseteq LinesOf(held)
         /\ errors' \in 0 .. MaxErrors /\ (errors' = 0 => errors = 0 /\ buffer_' = <<>>)
<1> USE LogFileAssumption
<1>1. CASE HandOver(held, Len(held)) /\ UNCHANGED errors
  <2>1. Len(held) \in 0 .. Len(held)
    BY LenProperties
  <2>2. QED
    BY <1>1, <2>1, HandOverKeeps DEF FileTypeOK
<1>2. CASE Fails /\ \E n \in 0 .. Len(held) - 1 : HandOver(held, n)
  <2>1. PICK n \in 0 .. Len(held) - 1 : HandOver(held, n)
    BY <1>2
  <2>2. n \in 0 .. Len(held)
    BY LenProperties
  <2>3. errors' \in 0 .. MaxErrors /\ errors' # 0
    BY <1>2 DEF Fails, FileTypeOK
  <2>4. QED
    BY <2>1, <2>2, <2>3, HandOverKeeps DEF FileTypeOK
<1>3. QED
  BY <1>1, <1>2 DEF fflush

\* AppendFile::append(): what it takes follows what stdio held.
LEMMA AppendKeeps ==
  ASSUME FileTypeOK(Lines), NEW data \in Seq(Lines), NEW n \in 0 .. Len(data),
         NEW again \in BOOLEAN, append(data, n, again)
  PROVE  LET taken == SubSeq(data, 1, n) \o (IF again THEN Rest(data, n) ELSE <<>>) IN
         /\ FileTypeOK(Lines)'
         /\ file' \o buffer_' = file \o (buffer_ \o taken)
         /\ LinesOf(buffer_') \subseteq LinesOf(buffer_) \cup LinesOf(taken)
         /\ taken \in Seq(Lines)
         /\ errors' = 0 => errors = 0
<1> USE LogFileAssumption
<1> DEFINE a == SubSeq(data, 1, n)
           b == IF again THEN Rest(data, n) ELSE <<>>
           taken == a \o b
           held == buffer_ \o a \o b
<1>1. a \in Seq(Lines) /\ b \in Seq(Lines)
  BY CutLines, EmptySeq DEF Rest
<1>2. /\ buffer_ \in Seq(Lines) /\ file \in Seq(Lines)
      /\ count_ \in 0 .. flushEveryN_ - 1 /\ errors \in 0 .. MaxErrors
  BY DEF FileTypeOK
<1>3. IF n = Len(data)
      THEN Counted(held, Spill(held) /\ UNCHANGED errors)
      ELSE Fails /\ count_' = (count_ + 1) % flushEveryN_ /\ Spill(held)
  BY DEF append
<1> HIDE DEF a, b
<1>4. /\ held = buffer_ \o taken
      /\ taken \in Seq(Lines) /\ held \in Seq(Lines)
  <2>1. (buffer_ \o a) \o b = buffer_ \o (a \o b) /\ a \o b \in Seq(Lines)
    BY <1>1, <1>2, LinesAssociative, ConcatProperties, Zenon
  <2>2. buffer_ \o (a \o b) \in Seq(Lines)
    BY <1>2, <2>1, ConcatProperties
  <2>3. QED
    BY <2>1, <2>2
<1>5. LinesOf(held) = LinesOf(buffer_) \cup LinesOf(taken)
  BY <1>2, <1>4, ConcatLines
<1> HIDE DEF held, taken
<1>6. \/ fflush(held)
      \/ Spill(held) /\ (UNCHANGED errors \/ Fails)
  BY <1>3 DEF Counted
<1>7. /\ file' \in Seq(Lines) /\ buffer_' \in Seq(Lines)
      /\ file' \o buffer_' = file \o held
      /\ LinesOf(buffer_') \subseteq LinesOf(held)
      /\ errors' \in 0 .. MaxErrors /\ (errors' = 0 => errors = 0)
  <2>1. CASE fflush(held)
    BY <1>4, <2>1, FflushKeeps
  <2>2. CASE Spill(held) /\ (UNCHANGED errors \/ Fails)
    <3>1. errors' \in 0 .. MaxErrors /\ (errors' = 0 => errors = 0)
      BY <1>2, <2>2 DEF Fails
    <3>2. QED
      BY <1>2, <1>4, <2>2, <3>1, HandOverKeeps DEF Spill
  <2>3. QED
    BY <1>6, <2>1, <2>2
<1>8. count_' \in 0 .. flushEveryN_ - 1
  BY <1>2, <1>3 DEF Counted
<1>9. QED
  BY <1>4, <1>5, <1>7, <1>8 DEF FileTypeOK, taken, a, b
\* FileIntact with what its steps need: nothing is dropped before it is written.
FileInv == FileIntact /\ dropped \subseteq Logged

LEMMA AppendToFileIntact ==
  ASSUME TypeOK, OrderInv, FileInv, KillLosesOneRound, AppendToFile
  PROVE  (FileInv /\ KillLosesOneRound)'
<1> DEFINE i == written + 1
           data == buffersToWrite[i]
<1>1. /\ i \in 1 .. Len(buffersToWrite) /\ written \in Nat /\ pc = "write" /\ pc' = "write"
      /\ data \in Seq(Lines) /\ output \in Seq(Lines) /\ buffersToWrite \in Seq(Buffer)
      /\ output' = output \o data /\ buffersToWrite' = buffersToWrite /\ written' = i
  <2>1. /\ i \in 1 .. Len(buffersToWrite) /\ written \in Nat
    BY LenProperties DEF AppendToFile, WriteBuffer, TypeOK
  <2>2. QED
    BY <2>1, ElementOfSeq DEF AppendToFile, WriteBuffer, TypeOK, Buffer
<1>2. PICK n \in 0 .. Len(data), again \in BOOLEAN :
        /\ append(data, n, again)
        /\ dropped' = dropped \cup (IF again THEN {} ELSE LinesOf(Rest(data, n)))
  BY DEF AppendToFile
<1>3. Increasing(data) /\ Before(Logged, LinesOf(data))
  <2>1. Chain(buffersToWrite, i) /\ Pending = LinesFrom(buffersToWrite, i)
    BY <1>1 DEF OrderInv, Pending
  <2>2. Increasing(data) /\ LinesOf(data) \subseteq Pending
    BY <1>1, <2>1, NextBuffer
  <2>3. QED
    BY <2>2 DEF OrderInv, Before
<1> DEFINE a == SubSeq(data, 1, n)
           b == Rest(data, n)
           taken == a \o (IF again THEN b ELSE <<>>)
<1> HIDE DEF i, data
<1>4. /\ FileTypeOK(Lines)' /\ taken \in Seq(Lines)
      /\ file' \o buffer_' = file \o (buffer_ \o taken)
      /\ LinesOf(buffer_') \subseteq LinesOf(buffer_) \cup LinesOf(taken)
      /\ errors' = 0 => errors = 0
  BY <1>1, <1>2, AppendKeeps DEF FileInv, FileIntact
<1>5. a \in Seq(Lines) /\ b \in Seq(Lines) /\ a \o b = data
  BY <1>1, CutLines DEF Rest
<1>6. /\ file \in Seq(Lines) /\ buffer_ \in Seq(Lines) /\ file \o buffer_ \in Seq(Lines)
      /\ file \o (buffer_ \o taken) = (file \o buffer_) \o taken
  BY <1>4, LinesAssociative, ConcatProperties DEF FileInv, FileIntact, FileTypeOK
<1> HIDE DEF a, b
<1>7. /\ Increasing(taken)
      /\ LinesOf(taken) = LinesOf(a) \cup (IF again THEN LinesOf(b) ELSE {})
      /\ LinesOf(data) = LinesOf(a) \cup LinesOf(b)
      /\ Before(LinesOf(a), LinesOf(b))
  <2>1. /\ Increasing(a) /\ LinesOf(data) = LinesOf(a) \cup LinesOf(b)
        /\ Before(LinesOf(a), LinesOf(b))
    BY <1>3, <1>5, ConcatLines
  <2>2. CASE again
    BY <1>3, <1>5, <2>1, <2>2
  <2>3. CASE ~again
    BY <1>5, <2>1, <2>3, ConcatEmptySeq
  <2>4. QED
    BY <2>1, <2>2, <2>3
<1> HIDE DEF taken
<1>8. LinesOf(data) \subseteq Nat /\ Logged \subseteq Nat
  <2>1. \A s \in Seq(Lines) : LinesOf(s) \subseteq Lines
    BY ElementOfSeq, LenProperties DEF LinesOf
  <2>2. QED
    BY <1>1, <2>1 DEF Logged, Lines
<1>9. Logged' = Logged \cup LinesOf(data)
  BY <1>1, ConcatLines DEF Logged
<1>10. /\ Increasing(file' \o buffer_')
       /\ LinesOf(file' \o buffer_') = (Logged \ dropped) \cup LinesOf(taken)
  <2>1. Increasing(file \o buffer_) /\ LinesOf(file \o buffer_) = Logged \ dropped
    BY DEF FileInv, FileIntact, Logged
  <2>2. Before(Logged \ dropped, LinesOf(taken))
    BY <1>3, <1>7 DEF Before
  <2>3. /\ Increasing((file \o buffer_) \o taken)
        /\ LinesOf((file \o buffer_) \o taken) = LinesOf(file \o buffer_) \cup LinesOf(taken)
    <3> DEFINE held == file \o buffer_
    <3>1. held \in Seq(Lines) /\ Increasing(held) /\ Before(LinesOf(held), LinesOf(taken))
      BY <1>6, <2>1, <2>2, Zenon
    <3> HIDE DEF held
    <3>2. QED
      BY <1>4, <1>7, <3>1, ConcatLines DEF held
  <2>4. file' \o buffer_' = (file \o buffer_) \o taken
    BY <1>4, <1>6, Zenon
  <2>5. QED
    BY <2>1, <2>3, <2>4, Zenon
<1>11. (Logged \ dropped) \cup LinesOf(taken) = Logged' \ dropped' /\ dropped' \subseteq Logged'
  <2>1. \A l \in LinesOf(data) : l \notin Logged
    BY <1>3, <1>8 DEF Before
  <2>2. \A l \in LinesOf(a) : l \notin LinesOf(b)
    BY <1>7, <1>8 DEF Before
  <2>3. dropped \subseteq Logged
    BY DEF FileInv
  <2>4. dropped' = dropped \cup (IF again THEN {} ELSE LinesOf(b))
    BY <1>2 DEF b
  <2>5. QED
    BY <1>7, <1>9, <2>1, <2>2, <2>3, <2>4
<1>12. FileInv'
  BY <1>4, <1>10, <1>11 DEF FileInv, FileIntact, Logged
<1>13. KillLosesOneRound'
  <2>1. SUFFICES ASSUME errors' = 0
                 PROVE  LinesOf(buffer_') \subseteq UNION {LinesOf(buffersToWrite[k]) : k \in 1 .. i}
    BY <1>1 DEF KillLosesOneRound
  <2>2. LinesOf(buffer_) \subseteq UNION {LinesOf(buffersToWrite[k]) : k \in 1 .. written}
    BY <1>1, <1>4, <2>1 DEF KillLosesOneRound
  <2>3. LinesOf(taken) \subseteq LinesOf(data)
    BY <1>7
  <2>4. i \in 1 .. i /\ \A k \in 1 .. written : k \in 1 .. i
    BY <1>1 DEF i
  <2>5. QED
    BY <1>4, <2>2, <2>3, <2>4 DEF data
<1>14. QED
  BY <1>12, <1>13

LEMMA CloseFileIntact ==
  ASSUME TypeOK, FileInv, CloseFile
  PROVE  (FileInv /\ KillLosesOneRound)'
<1> USE LogFileAssumption
<1>1. /\ buffer_' = <<>> /\ count_' = count_ /\ output' = output
      /\ pc' \in {"done", "take", "aborted"}
      /\ dropped' = dropped \cup (LinesOf(buffer_) \ LinesOf(file'))
  BY DEF CloseFile, fclose, TestRunning, backend
<1>2. file \in Seq(Lines) /\ buffer_ \in Seq(Lines)
  BY DEF FileInv, FileIntact, FileTypeOK
<1>3. PICK a \in Seq(Lines), b \in Seq(Lines) : a \o b = buffer_ /\ file' = file \o a
  <2>1. CASE file' = file \o buffer_
    BY <1>2, <2>1, EmptySeq, ConcatEmptySeq
  <2>2. CASE \E n \in 0 .. Len(buffer_) - 1 : file' = file \o SubSeq(buffer_, 1, n)
    <3>1. PICK n \in 0 .. Len(buffer_) - 1 : file' = file \o SubSeq(buffer_, 1, n)
      BY <2>2
    <3>2. n \in 0 .. Len(buffer_)
      BY <1>2, LenProperties
    <3>3. QED
      BY <1>2, <3>1, <3>2, CutLines
  <2>3. QED
    BY <2>1, <2>2 DEF CloseFile, fclose
<1>4. /\ file' \in Seq(Lines) /\ file' \o buffer_' = file'
      /\ file \o buffer_ = file' \o b
  <2>1. file \o a \in Seq(Lines) /\ (file \o a) \o b = file \o (a \o b)
    BY <1>2, <1>3, LinesAssociative, ConcatProperties, Zenon
  <2>2. QED
    BY <1>1, <1>3, <2>1, ConcatEmptySeq
<1>5. Increasing(file') /\ LinesOf(file \o buffer_) = LinesOf(file') \cup LinesOf(b)
  <2>1. Increasing(file' \o b)
    BY <1>4, Zenon DEF FileInv, FileIntact
  <2>2. Increasing(file') /\ LinesOf(file' \o b) = LinesOf(file') \cup LinesOf(b)
    BY <1>3, <1>4, <2>1, ConcatLines, Zenon
  <2>3. QED
    BY <1>4, <2>2, Zenon
<1>6. /\ LinesOf(buffer_) = LinesOf(a) \cup LinesOf(b)
      /\ LinesOf(file') = LinesOf(file) \cup LinesOf(a)
      /\ LinesOf(file \o buffer_) = LinesOf(file) \cup LinesOf(buffer_)
  BY <1>2, <1>3, ConcatLines
<1>7. LinesOf(file') = Logged \ dropped' /\ dropped' \subseteq Logged
  <2>1. LinesOf(file \o buffer_) = Logged \ dropped /\ dropped \subseteq Logged
    BY DEF FileInv, FileIntact, Logged
  <2>2. QED
    BY <1>1, <1>5, <1>6, <2>1
<1>8. FileTypeOK(Lines)'
  <2>1. <<>> \in Seq(Lines)
    BY EmptySeq
  <2>2. errors' \in 0 .. MaxErrors
    BY DEF CloseFile, fclose, Fails, FileInv, FileIntact, FileTypeOK
  <2>3. QED
    BY <1>1, <1>4, <2>1, <2>2 DEF FileInv, FileIntact, FileTypeOK
<1>9. QED
  BY <1>1, <1>4, <1>5, <1>7, <1>8 DEF FileInv, FileIntact, KillLosesOneRound, Logged

LEMMA FlushRoundIntact ==
  ASSUME TypeOK, FileInv, FlushRound
  PROVE  (FileInv /\ KillLosesOneRound)'
<1>1. /\ pc' \in {"while", "aborted"} /\ output' = output /\ dropped' = dropped
      /\ count_' = count_ /\ fflush(buffer_)
  BY DEF FlushRound, Recycle, flush
<1>2. /\ file' \in Seq(Lines) /\ buffer_' \in Seq(Lines) /\ file' \o buffer_' = file \o buffer_
      /\ errors' \in 0 .. MaxErrors /\ (errors' = 0 => buffer_' = <<>>)
  BY <1>1, FflushKeeps DEF FileInv, FileIntact, FileTypeOK
<1>3. QED
  BY <1>1, <1>2 DEF FileInv, FileIntact, FileTypeOK, KillLosesOneRound, Logged

LEMMA InMemoryIntact ==
  ASSUME TypeOK, SparesInv, FileInv, KillLosesOneRound,
         InMemory \/ UNCHANGED vars, UNCHANGED <<fileVars, dropped>>
  PROVE  (FileInv /\ KillLosesOneRound)'
<1>1. output' = output
  BY DEF InMemory, BackendInMemory, AppendLine, StartLogging, Stop, OwnerWaits, StartReturns, Join, WaitEnds,
         BackendStart, BeginWait, TakeAtOnce, TakeBuffers, Trim, EndWriting, TestRunning,
         vars, backend
<1>2. /\ FileIntact' = FileIntact /\ Logged' = Logged /\ dropped' = dropped
      /\ UNCHANGED <<errors, buffer_>>
  BY <1>1 DEF FileIntact, FileTypeOK, fileVars, Logged
<1>3. \/ pc' = "recycle"
      \/ UNCHANGED <<pc, buffersToWrite, written>>
      \/ pc \notin {"write", "recycle"} /\ pc' # "write"
      \/ pc = "trim" /\ pc' = "write"
  BY DEF InMemory, BackendInMemory, AppendLine, StartLogging, Stop, OwnerWaits, StartReturns, Join, WaitEnds,
         BackendStart, BeginWait, TakeAtOnce, TakeBuffers, Trim, EndWriting, TestRunning,
         vars, backend, SparesInv
<1>4. KillLosesOneRound'
  <2>1. SUFFICES ASSUME errors = 0, ~UNCHANGED <<pc, buffersToWrite, written>>, pc' # "recycle"
                 PROVE  KillLosesOneRound'
    BY <1>2 DEF KillLosesOneRound
  <2>2. buffer_ = <<>>
    BY <1>3, <2>1 DEF KillLosesOneRound
  <2>3. QED
    BY <1>2, <2>2, NoLines DEF KillLosesOneRound
<1>5. QED
  BY <1>2, <1>4 DEF FileInv
LEMMA FileInductive == LogSpec => [](FileInv /\ KillLosesOneRound)
<1>1. InitLog => FileInv /\ KillLosesOneRound
  <2> SUFFICES ASSUME InitLog PROVE FileInv /\ KillLosesOneRound
    OBVIOUS
  <2>1. /\ <<>> \in Seq(Lines) /\ <<>> \o <<>> = <<>> /\ 0 \in 0 .. flushEveryN_ - 1
        /\ 0 \in 0 .. MaxErrors
    BY EmptySeq, ConcatEmptySeq, LogFileAssumption
  <2>2. QED
    BY <2>1, NoLines
       DEF InitLog, Init, FileInit, FileInv, FileIntact, FileTypeOK, KillLosesOneRound, Logged
<1>2. TypeOK /\ SparesInv /\ OrderInv /\ FileInv /\ KillLosesOneRound /\ [NextLog]_logVars
        => (FileInv /\ KillLosesOneRound)'
  <2> SUFFICES ASSUME TypeOK, SparesInv, OrderInv, FileInv, KillLosesOneRound,
                      [NextLog]_logVars
               PROVE  (FileInv /\ KillLosesOneRound)'
    OBVIOUS
  <2>1. CASE UNCHANGED logVars
    <3>1. UNCHANGED vars /\ UNCHANGED <<fileVars, dropped>>
      BY <2>1 DEF logVars
    <3>2. QED
      BY <3>1, InMemoryIntact
  <2>2. QED
    BY <2>1, AppendToFileIntact, FlushRoundIntact, CloseFileIntact, InMemoryIntact
       DEF NextLog, ToFile
<1>3. QED
  BY <1>1, <1>2, LogFileImplements, SparesInvInductive, OrderInductive, PTL DEF LogSpec

(***************************************************************************)
(* Whatever write(2) does: the kernel and stdio have, in order and once,   *)
(* what threadFunc() wrote, without the lines a failed write made          *)
(* AppendFile::append() or fclose() give up.                               *)
(***************************************************************************)
THEOREM FileAlwaysIntact == LogSpec => []FileIntact
<1>1. FileInv => FileIntact
  BY DEF FileInv
<1>2. QED
  BY <1>1, FileInductive, PTL

(***************************************************************************)
(* As long as no write fails, a process that is killed loses only lines of *)
(* the round being written: stdio is empty whenever none is.               *)
(***************************************************************************)
THEOREM OneRoundAtRisk == LogSpec => []KillLosesOneRound
BY FileInductive, PTL

-----------------------------------------------------------------------------
(* Induction, and functions defined by recursion.  The library's theorems  *)
(* on both take an operator as a parameter; here the property is the set   *)
(* of the numbers that have it, and a recursion is given by functions.     *)

\* From the well-foundedness of < on Nat.
LEMMA Induction ==
  ASSUME NEW S, 0 \in S, \A n \in Nat : n \in S => n + 1 \in S
  PROVE  \A n \in Nat : n \in S
<1> DEFINE R == OpToRel(<, Nat)
           T == Nat \ S
<1>1. IsWellFoundedOn(R, Nat)
  BY NatLessThanWellFounded
<1>2. SUFFICES ASSUME T # {} PROVE FALSE
  OBVIOUS
<1>3. PICK x \in T : \A y \in T : <<y, x>> \notin R
  <2> HIDE DEF R
  <2> QED BY <1>1, <1>2, WFMin
<1>4. x - 1 \in Nat /\ <<x - 1, x>> \in R
  BY DEF OpToRel
<1>5. x - 1 \in S
  BY <1>3, <1>4
<1> HIDE DEF R
<1> QED BY <1>3, <1>4, <1>5

(***************************************************************************)
(* The parts of a recursion on S: f[x] is last[x] where the recursion      *)
(* ends, and step[x] of f at the smaller element down[x] elsewhere.        *)
(***************************************************************************)
Descends(S, V, size, Ends, down, last, step) ==
  /\ size \in [S -> Nat] /\ Ends \in SUBSET S
  /\ down \in [S \ Ends -> S] /\ last \in [Ends -> V] /\ step \in [S \ Ends -> [V -> V]]
  /\ \A x \in S \ Ends : size[down[x]] < size[x]

(***************************************************************************)
(* There is such a function: one for the elements up to each size, each    *)
(* extended by the next, and any two of them agree where both are defined. *)
(***************************************************************************)
LEMMA Recursion ==
  ASSUME NEW S, NEW V, NEW size, NEW Ends, NEW down, NEW last, NEW step,
         Descends(S, V, size, Ends, down, last, step)
  PROVE  \E f \in [S -> V] :
           \A x \in S : f[x] = IF x \in Ends THEN last[x] ELSE step[x][f[down[x]]]
<1> USE DEF Descends
<1> DEFINE Upto(n) == {x \in S : size[x] <= n}
           Solves(f, n) == /\ f \in [Upto(n) -> V]
                           /\ \A x \in Upto(n) :
                                f[x] = IF x \in Ends THEN last[x] ELSE step[x][f[down[x]]]
<1>1. ASSUME NEW m \in Nat, NEW n \in Nat, NEW f, NEW g, Solves(f, m), Solves(g, n)
      PROVE  \A x \in Upto(m) \cap Upto(n) : f[x] = g[x]
  <2> DEFINE Same == {k \in Nat : \A x \in Upto(m) \cap Upto(n) : size[x] < k => f[x] = g[x]}
  <2>1. 0 \in Same
    OBVIOUS
  <2>2. ASSUME NEW k \in Nat, k \in Same PROVE k + 1 \in Same
    <3> SUFFICES ASSUME NEW x \in Upto(m) \cap Upto(n), size[x] < k + 1 PROVE f[x] = g[x]
      OBVIOUS
    <3>1. CASE x \in Ends
      BY <1>1, <3>1
    <3>2. CASE x \notin Ends
      <4>1. /\ down[x] \in Upto(m) \cap Upto(n) /\ size[down[x]] < k
        BY <3>2
      <4>2. f[down[x]] = g[down[x]]
        BY <2>2, <4>1
      <4> QED BY <1>1, <3>2, <4>2
    <3> QED BY <3>1, <3>2
  <2> HIDE DEF Same
  <2>3. \A k \in Nat : k \in Same
    BY <2>1, <2>2, Induction
  <2>4. \A x \in Upto(m) \cap Upto(n) : size[x] + 1 \in Nat /\ size[x] < size[x] + 1
    OBVIOUS
  <2> QED BY <2>3, <2>4 DEF Same
<1>2. \A n \in Nat : \E f : Solves(f, n)
  <2> DEFINE Solved == {n \in Nat : \E f : Solves(f, n)}
             ValueAt(f, x) == IF x \in Ends THEN last[x] ELSE step[x][f[down[x]]]
  <2>1. 0 \in Solved
    <3> DEFINE f == [x \in Upto(0) |-> last[x]]
    <3>1. \A x \in Upto(0) : x \in Ends
      OBVIOUS
    <3>2. Solves(f, 0)
      BY <3>1
    <3> QED BY <3>2
  <2>2. ASSUME NEW n \in Nat, n \in Solved PROVE n + 1 \in Solved
    <3>1. PICK f : Solves(f, n)
      BY <2>2
    <3> DEFINE g == [x \in Upto(n + 1) |-> ValueAt(f, x)]
    <3>2. \A x \in Upto(n + 1) \ Ends : down[x] \in Upto(n) /\ down[x] \in Upto(n + 1)
      OBVIOUS
    <3>3. \A x \in Upto(n) : x \in Upto(n + 1) /\ g[x] = f[x]
      BY <3>1
    <3>4. \A x \in Upto(n + 1) : g[x] = ValueAt(g, x)
      BY <3>2, <3>3
    <3>5. g \in [Upto(n + 1) -> V]
      <4>1. \A x \in Upto(n + 1) : ValueAt(f, x) \in V
        BY <3>1, <3>2
      <4> QED BY <4>1
    <3>6. Solves(g, n + 1)
      BY <3>4, <3>5
    <3> HIDE DEF g, Solves
    <3> QED BY <3>6
  <2> HIDE DEF Solved
  <2>3. \A n \in Nat : n \in Solved
    BY <2>1, <2>2, Induction
  <2> QED BY <2>3 DEF Solved
<1> DEFINE sol == [n \in Nat |-> CHOOSE f : Solves(f, n)]
           h == [x \in S |-> sol[size[x]][x]]
<1>3. \A n \in Nat : Solves(sol[n], n)
  BY <1>2
<1>4. \A x \in S : size[x] \in Nat /\ x \in Upto(size[x])
  OBVIOUS
<1> HIDE DEF sol, Solves
<1>5. h \in [S -> V]
  <2>1. ASSUME NEW x \in S PROVE sol[size[x]][x] \in V
    <3>1. sol[size[x]] \in [Upto(size[x]) -> V]
      BY <1>3, <1>4 DEF Solves
    <3> QED BY <1>4, <3>1
  <2> QED BY <2>1
<1>6. ASSUME NEW x \in S
      PROVE  h[x] = IF x \in Ends THEN last[x] ELSE step[x][h[down[x]]]
  <2>1. CASE x \in Ends
    BY <1>3, <1>4, <2>1 DEF Solves
  <2>2. CASE x \notin Ends
    <3> DEFINE y == down[x]
    <3>1. y \in S /\ y \in Upto(size[x]) \cap Upto(size[y])
      BY <2>2
    <3>2. Solves(sol[size[x]], size[x]) /\ Solves(sol[size[y]], size[y])
      BY <1>3, <1>4, <3>1
    <3>3. sol[size[x]][y] = sol[size[y]][y]
      BY <1>1, <1>4, <3>1, <3>2
    <3>4. sol[size[x]][x] = step[x][sol[size[x]][y]]
      BY <1>4, <2>2, <3>2 DEF Solves
    <3> QED BY <2>2, <3>1, <3>3, <3>4
  <2> QED BY <2>1, <2>2
<1> QED BY <1>5, <1>6

-----------------------------------------------------------------------------
(* convert().                                                              *)

\* One round of its loop: the last digit, and what is left of the value.
LEMMA Quotients ==
  ASSUME NEW i \in Int
  PROVE  /\ Quot(i) \in Int /\ Rem(i) \in Int
         /\ zero(Rem(i)) \in 0 .. 9
         /\ i = 10 * Quot(i) + Rem(i)
         /\ i >= 0 => 0 <= Quot(i) /\ Quot(i) <= i /\ zero(Rem(i)) = Rem(i)
         /\ i < 0 => i < Quot(i) /\ Quot(i) <= 0 /\ zero(Rem(i)) = -Rem(i)
         /\ i > 0 => Quot(i) < i
<1>1. i \div 10 \in Int /\ i % 10 \in 0 .. 9 /\ i = 10 * (i \div 10) + (i % 10)
  OBVIOUS
<1> DEFINE q == i \div 10  m == i % 10
<1>2. Quot(i) = q + (IF i < 0 /\ m # 0 THEN 1 ELSE 0)
  BY DEF Quot
<1>3. zero(Rem(i)) = IF i - 10 * Quot(i) < 0 THEN -(i - 10 * Quot(i)) ELSE i - 10 * Quot(i)
  BY DEF zero, Rem
<1>4. Rem(i) = i - 10 * Quot(i)
  BY DEF Rem
<1> HIDE DEF q, m
<1>5. q \in Int /\ m \in 0 .. 9 /\ i = 10 * q + m
  BY <1>1 DEF q, m
<1> QED BY <1>2, <1>3, <1>4, <1>5

\* The digits that the loop writes, and what shrinks with every round.
Digits == Seq(0 .. 9)
Size(i) == IF i < 0 THEN -i ELSE i

\* The loop ends: the value comes closer to zero.
LEMMA QuotientSmaller ==
  ASSUME NEW i \in Int, Quot(i) # 0
  PROVE  Size(Quot(i)) < Size(i)
<1> DEFINE q == Quot(i)
<1>1. /\ q \in Int /\ q # 0
      /\ i >= 0 => 0 <= q /\ q <= i
      /\ i < 0 => i < q /\ q <= 0
      /\ i > 0 => q < i
  BY Quotients
<1> HIDE DEF q
<1>2. Size(q) < Size(i)
  BY <1>1 DEF Size
<1> QED BY <1>2 DEF q

\* LastFirst is the function that its recursive definition describes.
LEMMA LastFirstUnfolds ==
  /\ LastFirst \in [Int -> Digits]
  /\ \A i \in Int : LastFirst[i] =
       <<zero(Rem(i))>> \o (IF Quot(i) = 0 THEN <<>> ELSE LastFirst[Quot(i)])
<1> DEFINE Single == {i \in Int : Quot(i) = 0}
           size == [i \in Int |-> Size(i)]
           down == [i \in Int \ Single |-> Quot(i)]
           last == [i \in Single |-> <<zero(Rem(i))>>]
           step == [i \in Int \ Single |-> [s \in Digits |-> <<zero(Rem(i))>> \o s]]
           Body(f, i) == <<zero(Rem(i))>> \o (IF Quot(i) = 0 THEN <<>> ELSE f[Quot(i)])
<1>1. \A i \in Int : <<zero(Rem(i))>> \in Digits /\ <<zero(Rem(i))>> \o <<>> = <<zero(Rem(i))>>
  <2> SUFFICES ASSUME NEW i \in Int
               PROVE  <<zero(Rem(i))>> \in Digits /\ <<zero(Rem(i))>> \o <<>> = <<zero(Rem(i))>>
    OBVIOUS
  <2> DEFINE z == zero(Rem(i))
  <2>1. z \in 0 .. 9
    BY Quotients
  <2> HIDE DEF z
  <2>2. <<z>> \in Seq(0 .. 9)
    BY <2>1
  <2> QED BY <2>2, ConcatEmptySeq DEF Digits, z
<1>2. size \in [Int -> Nat] /\ Single \in SUBSET Int
  BY DEF Size
<1>3. down \in [Int \ Single -> Int]
  BY Quotients
<1>4. last \in [Single -> Digits]
  BY <1>1
<1>5. step \in [Int \ Single -> [Digits -> Digits]]
  BY <1>1, ConcatProperties DEF Digits
<1>6. \A i \in Int \ Single : size[down[i]] < size[i]
  <2> SUFFICES ASSUME NEW i \in Int \ Single PROVE size[down[i]] < size[i]
    OBVIOUS
  <2>1. down[i] = Quot(i) /\ Quot(i) \in Int
    BY Quotients
  <2>2. size[Quot(i)] = Size(Quot(i)) /\ size[i] = Size(i)
    BY <2>1
  <2>3. Quot(i) # 0
    BY <2>1
  <2>4. Size(Quot(i)) < Size(i)
    BY <2>3, QuotientSmaller
  <2> QED BY <2>1, <2>2, <2>4
<1>7. PICK f \in [Int -> Digits] :
        \A i \in Int : f[i] = IF i \in Single THEN last[i] ELSE step[i][f[down[i]]]
  <2> HIDE DEF Single, size, down, last, step
  <2>1. \E f \in [Int -> Digits] :
        \A i \in Int : f[i] = IF i \in Single THEN last[i] ELSE step[i][f[down[i]]]
    <3>1. Descends(Int, Digits, size, Single, down, last, step)
      BY <1>2, <1>3, <1>4, <1>5, <1>6 DEF Descends
    <3> QED BY <3>1, Recursion
  <2> QED BY <2>1
<1>8. \A i \in Int : f[i] = Body(f, i)
  <2> SUFFICES ASSUME NEW i \in Int PROVE f[i] = Body(f, i)
    OBVIOUS
  <2>1. CASE i \in Single
    BY <1>1, <1>7, <2>1
  <2>2. CASE i \notin Single
    BY <1>7, <2>2, Quotients
  <2> QED BY <2>1, <2>2
<1>9. f = [i \in Int |-> Body(f, i)]
  BY <1>8
<1>10. LastFirst = [i \in Int |-> Body(LastFirst, i)]
  <2>1. LastFirst = CHOOSE g : g = [i \in Int |-> Body(g, i)]
    BY DEF LastFirst
  <2> HIDE DEF Body
  <2> QED BY <1>9, <2>1
<1>11. \A i \in Int : LastFirst[i] = Body(LastFirst, i)
  BY <1>10
<1> DEFINE Typed == {n \in Nat : \A i \in Int : Size(i) < n => LastFirst[i] \in Digits}
<1>12. 0 \in Typed
  BY DEF Size
<1>13. ASSUME NEW n \in Nat, n \in Typed PROVE n + 1 \in Typed
  <2> SUFFICES ASSUME NEW i \in Int, Size(i) < n + 1 PROVE LastFirst[i] \in Digits
    OBVIOUS
  <2>1. CASE Quot(i) = 0
    BY <1>1, <1>11, <2>1
  <2>2. CASE Quot(i) # 0
    <3>1. Quot(i) \in Int /\ Size(Quot(i)) < n
      <4>1. Size(Quot(i)) \in Int /\ Size(i) \in Int
        BY Quotients DEF Size
      <4> QED BY <2>2, <4>1, Quotients, QuotientSmaller
    <3>2. LastFirst[Quot(i)] \in Digits
      BY <1>13, <3>1
    <3> QED BY <1>1, <1>11, <2>2, <3>2, ConcatProperties DEF Digits
  <2> QED BY <2>1, <2>2
<1> HIDE DEF Typed
<1>14. \A n \in Nat : n \in Typed
  BY <1>12, <1>13, Induction
<1>15. \A i \in Int : LastFirst[i] \in Digits
  <2>1. \A i \in Int : Size(i) + 1 \in Nat /\ Size(i) < Size(i) + 1
    BY DEF Size
  <2> QED BY <1>14, <2>1 DEF Typed
<1>16. LastFirst \in [Int -> Digits]
  <2> HIDE DEF Body
  <2>1. DOMAIN LastFirst = Int /\ LastFirst = [i \in Int |-> LastFirst[i]]
    BY <1>10
  <2> QED BY <1>15, <2>1
<1> QED BY <1>11, <1>16

\* A digit in front of others.
LEMMA OneMore ==
  ASSUME NEW z \in 0 .. 9, NEW s \in Digits
  PROVE  /\ <<z>> \o s \in Digits /\ <<z>> \o s # <<>>
         /\ Head(<<z>> \o s) = z /\ Tail(<<z>> \o s) = s
<1> DEFINE t == <<z>> \o s
<1>1. <<z>> \in Digits /\ Len(<<z>>) = 1 /\ <<z>>[1] = z
  BY DEF Digits
<1>2. /\ t \in Seq(0 .. 9) /\ Len(t) = 1 + Len(s) /\ Len(s) \in Nat
      /\ \A i \in 1 .. 1 + Len(s) : t[i] = IF i <= 1 THEN z ELSE s[i - 1]
  BY <1>1, ConcatProperties, LenProperties DEF Digits
<1> HIDE DEF t
<1>3. t # <<>>
  BY <1>2, EmptySeq
<1>4. Head(t) = z
  <2>1. Head(t) = t[1]
    BY <1>2, <1>3
  <2> QED BY <1>2, <2>1
<1>5. Tail(t) = s
  <2>1. /\ Tail(t) \in Seq(0 .. 9) /\ Len(Tail(t)) = Len(s)
        /\ \A i \in 1 .. Len(s) : Tail(t)[i] = t[i + 1]
    BY <1>2, <1>3, HeadTailProperties
  <2>2. \A i \in 1 .. Len(s) : t[i + 1] = s[i]
    BY <1>2
  <2>3. \A i \in 1 .. Len(Tail(t)) : Tail(t)[i] = s[i]
    BY <2>1, <2>2
  <2>4. s \in Seq(0 .. 9)
    BY DEF Digits
  <2> QED BY <2>1, <2>3, <2>4, SeqEqual
<1> QED BY <1>2, <1>3, <1>4, <1>5 DEF Digits, t

\* So is Below.
LEMMA BelowUnfolds ==
  /\ Below \in [Digits -> Int]
  /\ Below[<<>>] = 0
  /\ \A d \in Digits : d # <<>> => Below[d] = 10 * Below[Tail(d)] - Head(d)
<1> DEFINE size == [d \in Digits |-> Len(d)]
           down == [d \in Digits \ {<<>>} |-> Tail(d)]
           last == [d \in {<<>>} |-> 0]
           step == [d \in Digits \ {<<>>} |-> [n \in Int |-> 10 * n - Head(d)]]
           Body(f, d) == IF d = <<>> THEN 0 ELSE 10 * f[Tail(d)] - Head(d)
<1>1. \A d \in Digits \ {<<>>} : Head(d) \in 0 .. 9 /\ Tail(d) \in Digits /\ Len(Tail(d)) < Len(d)
  BY HeadTailProperties, LenProperties DEF Digits
<1>2. <<>> \in Digits
  BY EmptySeq DEF Digits
<1>3. size \in [Digits -> Nat]
  BY LenProperties DEF Digits
<1>4. down \in [Digits \ {<<>>} -> Digits] /\ last \in [{<<>>} -> Int]
  BY <1>1
<1>5. step \in [Digits \ {<<>>} -> [Int -> Int]]
  <2>1. ASSUME NEW d \in Digits \ {<<>>}, NEW n \in Int PROVE 10 * n - Head(d) \in Int
    <3>1. Head(d) \in Int
      BY <1>1
    <3> QED BY <3>1
  <2> QED BY <2>1
<1>6. \A d \in Digits \ {<<>>} : size[down[d]] < size[d]
  BY <1>1
<1>7. PICK f \in [Digits -> Int] :
        \A d \in Digits : f[d] = IF d \in {<<>>} THEN last[d] ELSE step[d][f[down[d]]]
  <2> HIDE DEF size, down, last, step
  <2>1. Descends(Digits, Int, size, {<<>>}, down, last, step)
    BY <1>2, <1>3, <1>4, <1>5, <1>6 DEF Descends
  <2> QED BY <2>1, Recursion
<1>8. f = [d \in Digits |-> Body(f, d)]
  <2>1. ASSUME NEW d \in Digits, d # <<>> PROVE f[d] = Body(f, d)
    <3>1. down[d] = Tail(d) /\ f[Tail(d)] \in Int
      BY <1>1, <2>1
    <3>2. f[d] = step[d][f[Tail(d)]]
      BY <1>7, <2>1, <3>1
    <3> QED BY <2>1, <3>1, <3>2
  <2>2. f[<<>>] = Body(f, <<>>)
    BY <1>2, <1>7
  <2> HIDE DEF Body
  <2> QED BY <2>1, <2>2
<1>9. Below = [d \in Digits |-> Body(Below, d)]
  <2>1. Below = CHOOSE g : g = [d \in Digits |-> Body(g, d)]
    BY DEF Below, Digits
  <2> HIDE DEF Body
  <2> QED BY <1>8, <2>1
<1>10. \A d \in Digits : Below[d] = Body(Below, d)
  <2> HIDE DEF Body
  <2> QED BY <1>9
<1> DEFINE Typed == {n \in Nat : \A d \in Digits : Len(d) < n => Below[d] \in Int}
<1> HIDE DEF Below
<1>11. 0 \in Typed
  BY LenProperties DEF Digits
<1>12. ASSUME NEW n \in Nat, n \in Typed PROVE n + 1 \in Typed
  <2> SUFFICES ASSUME NEW d \in Digits, Len(d) < n + 1 PROVE Below[d] \in Int
    OBVIOUS
  <2>1. CASE d = <<>>
    BY <1>10, <2>1
  <2>2. CASE d # <<>>
    <3>1. Tail(d) \in Digits /\ Head(d) \in 0 .. 9 /\ Len(Tail(d)) < n
      <4>1. Len(Tail(d)) = Len(d) - 1 /\ Len(d) \in Nat
        BY <2>2, HeadTailProperties, LenProperties DEF Digits
      <4> QED BY <1>1, <2>2, <4>1
    <3>2. Below[Tail(d)] \in Int
      BY <1>12, <3>1
    <3> QED BY <1>10, <2>2, <3>1, <3>2
  <2> QED BY <2>1, <2>2
<1> HIDE DEF Typed
<1>13. \A n \in Nat : n \in Typed
  BY <1>11, <1>12, Induction
<1>14. \A d \in Digits : Below[d] \in Int
  <2>1. \A d \in Digits : Len(d) + 1 \in Nat /\ Len(d) < Len(d) + 1
    BY LenProperties DEF Digits
  <2> QED BY <1>13, <2>1 DEF Typed
<1>15. Below \in [Digits -> Int]
  <2> HIDE DEF Body
  <2>1. Below = [d \in Digits |-> Below[d]]
    BY <1>9
  <2> QED BY <1>14, <2>1
<1> QED BY <1>2, <1>10, <1>15

\* The digits of a value come to the value, by induction on its size.
LEMMA DigitsComeTo == \A i \in Int : Below[LastFirst[i]] = -Size(i)
<1> DEFINE Right == {n \in Nat : \A i \in Int : Size(i) < n => Below[LastFirst[i]] = -Size(i)}
<1>1. 0 \in Right
  BY DEF Size
<1>2. ASSUME NEW n \in Nat, n \in Right PROVE n + 1 \in Right
  <2> SUFFICES ASSUME NEW i \in Int, Size(i) < n + 1 PROVE Below[LastFirst[i]] = -Size(i)
    OBVIOUS
  <2> DEFINE z == zero(Rem(i))
             q == Quot(i)
             rest == IF q = 0 THEN <<>> ELSE LastFirst[q]
  <2>1. /\ q \in Int /\ z \in 0 .. 9 /\ Rem(i) \in Int /\ i = 10 * q + Rem(i)
        /\ i >= 0 => 0 <= q /\ z = Rem(i)
        /\ i < 0 => q <= 0 /\ z = -Rem(i)
    BY Quotients
  <2>2. rest \in Digits
    BY <2>1, LastFirstUnfolds, EmptySeq DEF Digits
  <2>3. Below[rest] = -Size(q)
    <3>1. CASE q = 0
      BY <3>1, BelowUnfolds DEF Size
    <3>2. CASE q # 0
      <4>1. Size(q) \in Int /\ Size(i) \in Int /\ Size(q) < Size(i)
        BY <2>1, <3>2, QuotientSmaller DEF Size
      <4> HIDE DEF q
      <4>2. Below[LastFirst[q]] = -Size(q)
        BY <1>2, <2>1, <4>1
      <4> QED BY <3>2, <4>2
    <3> QED BY <3>1, <3>2
  <2>4. LastFirst[i] = <<z>> \o rest
    BY LastFirstUnfolds
  <2> HIDE DEF z, q, rest
  <2>5. <<z>> \o rest \in Digits /\ <<z>> \o rest # <<>>
        /\ Head(<<z>> \o rest) = z /\ Tail(<<z>> \o rest) = rest
    BY <2>1, <2>2, OneMore
  <2>6. Below[LastFirst[i]] = 10 * (-Size(q)) - z
    BY <2>3, <2>4, <2>5, BelowUnfolds
  <2> QED BY <2>1, <2>6 DEF Size
<1> HIDE DEF Right
<1>3. \A n \in Nat : n \in Right
  BY <1>1, <1>2, Induction
<1>4. \A i \in Int : Size(i) + 1 \in Nat /\ Size(i) < Size(i) + 1
  BY DEF Size
<1> QED BY <1>3, <1>4 DEF Right

\* A text of digits or '-', the other way round.
LEMMA Reversed ==
  ASSUME NEW S, NEW s \in Seq(S)
  PROVE  /\ Reverse(s) \in Seq(S) /\ Len(Reverse(s)) = Len(s)
         /\ Reverse(Reverse(s)) = s
<1> DEFINE r == Reverse(s)
<1>1. Len(s) \in Nat /\ \A i \in 1 .. Len(s) : s[i] \in S
  BY LenProperties, ElementOfSeq
<1>2. r = [i \in 1 .. Len(s) |-> s[(Len(s) - i) + 1]]
  BY DEF Reverse
<1>3. r \in Seq(S) /\ Len(r) = Len(s)
  <2>1. \A i \in 1 .. Len(s) : s[(Len(s) - i) + 1] \in S
    BY <1>1
  <2> QED BY <1>1, <1>2, <2>1
<1>4. /\ Reverse(r) = [i \in 1 .. Len(r) |-> r[(Len(r) - i) + 1]]
      /\ Reverse(r) \in Seq(S) /\ Len(Reverse(r)) = Len(s)
  <2>1. \A i \in 1 .. Len(r) : r[(Len(r) - i) + 1] \in S
    BY <1>1, <1>2, <1>3
  <2> HIDE DEF r
  <2>2. Reverse(r) = [i \in 1 .. Len(r) |-> r[(Len(r) - i) + 1]]
    BY DEF Reverse
  <2> QED BY <1>1, <1>3, <2>1, <2>2
<1>5. \A i \in 1 .. Len(s) : Reverse(r)[i] = s[i]
  <2> SUFFICES ASSUME NEW i \in 1 .. Len(s) PROVE Reverse(r)[i] = s[i]
    OBVIOUS
  <2>1. Reverse(r)[i] = r[(Len(s) - i) + 1]
    BY <1>3, <1>4
  <2>2. (Len(s) - i) + 1 \in 1 .. Len(s)
    BY <1>1
  <2>3. r[(Len(s) - i) + 1] = s[(Len(s) - ((Len(s) - i) + 1)) + 1]
    BY <1>2, <2>2
  <2>4. (Len(s) - ((Len(s) - i) + 1)) + 1 = i
    BY <1>1
  <2> QED BY <2>1, <2>3, <2>4
<1>6. Reverse(r) = s
  <2> HIDE DEF r
  <2> QED BY <1>4, <1>5, SeqEqual
<1> QED BY <1>3, <1>6

(***************************************************************************)
(* '-' in front of a text: it is the first character, the rest the text.   *)
(***************************************************************************)
LEMMA MinusInFront ==
  ASSUME NEW d \in Digits
  PROVE  /\ Head(Reverse(Append(d, Minus))) = Minus
         /\ Tail(Reverse(Append(d, Minus))) = Reverse(d)
         /\ Len(Reverse(Append(d, Minus))) = Len(d) + 1
<1> DEFINE s == Append(d, Minus)
           r == Reverse(s)
           Chars == 0 .. 10
<1>1. d \in Seq(Chars) /\ Minus \in Chars
  BY SeqMonotonic DEF Digits, Minus
<1>2. /\ s \in Seq(Chars) /\ Len(s) = Len(d) + 1 /\ Len(d) \in Nat
      /\ s[Len(d) + 1] = Minus /\ \A i \in 1 .. Len(d) : s[i] = d[i]
  BY <1>1, AppendProperties, LenProperties
<1>3. r = [i \in 1 .. Len(s) |-> s[(Len(s) - i) + 1]]
  BY DEF Reverse
<1>4. r \in Seq(Chars) /\ Len(r) = Len(d) + 1
  BY <1>2, Reversed
<1> HIDE DEF s, r, Chars
<1>5. r # <<>>
  BY <1>2, <1>4, EmptySeq
<1>6. Head(r) = Minus
  <2>1. Head(r) = r[1]
    BY <1>4, <1>5
  <2>2. 1 \in 1 .. Len(s) /\ (Len(s) - 1) + 1 = Len(d) + 1
    BY <1>2
  <2> QED BY <1>2, <1>3, <2>1, <2>2
<1>7. Tail(r) = Reverse(d)
  <2>1. /\ Tail(r) \in Seq(Chars) /\ Len(Tail(r)) = Len(d)
        /\ \A i \in 1 .. Len(d) : Tail(r)[i] = r[i + 1]
    BY <1>2, <1>4, <1>5, HeadTailProperties
  <2>2. /\ Reverse(d) \in Seq(Chars) /\ Len(Reverse(d)) = Len(d)
        /\ Reverse(d) = [i \in 1 .. Len(d) |-> d[(Len(d) - i) + 1]]
    BY <1>1, Reversed DEF Reverse
  <2>3. ASSUME NEW i \in 1 .. Len(d) PROVE Tail(r)[i] = Reverse(d)[i]
    <3>1. /\ i + 1 \in 1 .. Len(s) /\ (Len(s) - (i + 1)) + 1 = (Len(d) - i) + 1
          /\ (Len(d) - i) + 1 \in 1 .. Len(d)
      BY <1>2
    <3>2. r[i + 1] = s[(Len(d) - i) + 1]
      BY <1>3, <3>1
    <3>3. s[(Len(d) - i) + 1] = d[(Len(d) - i) + 1]
      BY <1>2, <3>1
    <3>4. Reverse(d)[i] = d[(Len(d) - i) + 1]
      BY <2>2
    <3> QED BY <2>1, <3>2, <3>3, <3>4
  <2> QED BY <2>1, <2>2, <2>3, SeqEqual
<1> QED BY <1>4, <1>6, <1>7 DEF s, r

(***************************************************************************)
(* convert() never negates the value: for every integer, the least one of  *)
(* its type included, what it writes reads back as that integer.           *)
(***************************************************************************)
THEOREM IntegersReadBack == \A v \in Int : ReadAs(convert(v)) = v
<1> SUFFICES ASSUME NEW v \in Int PROVE ReadAs(convert(v)) = v
  OBVIOUS
<1> DEFINE d == LastFirst[v]
<1>1. d \in Digits /\ Below[d] = -Size(v)
  BY LastFirstUnfolds, DigitsComeTo
<1> HIDE DEF d
<1>2. Reverse(d) \in Digits /\ Len(Reverse(d)) = Len(d) /\ Reverse(Reverse(d)) = d
  BY <1>1, Reversed DEF Digits
<1>3. CASE v < 0
  <2>1. convert(v) = Reverse(Append(d, Minus))
    BY <1>3 DEF convert, d
  <2>2. ReadAs(convert(v)) = Below[Reverse(Reverse(d))]
    BY <1>1, <2>1, MinusInFront DEF ReadAs
  <2> QED BY <1>1, <1>2, <1>3, <2>2 DEF Size
<1>4. CASE ~(v < 0)
  <2>1. convert(v) = Reverse(d)
    BY <1>4 DEF convert, d
  <2>2. Head(Reverse(d)) \in 0 .. 9
    <3>1. d # <<>>
      <4>1. v = 0 \/ v > 0
        BY <1>4
      <4>2. LastFirst[v] = <<zero(Rem(v))>> \o (IF Quot(v) = 0 THEN <<>> ELSE LastFirst[Quot(v)])
        BY LastFirstUnfolds
      <4>3. zero(Rem(v)) \in 0 .. 9 /\ Quot(v) \in Int
        BY Quotients
      <4>4. (IF Quot(v) = 0 THEN <<>> ELSE LastFirst[Quot(v)]) \in Digits
        BY <4>3, LastFirstUnfolds, EmptySeq DEF Digits
      <4> QED BY <4>2, <4>3, <4>4, OneMore DEF d
    <3>2. Reverse(d) # <<>>
      BY <1>1, <1>2, <3>1, EmptySeq DEF Digits
    <3> QED BY <1>2, <3>2, HeadTailProperties DEF Digits
  <2>3. ReadAs(convert(v)) = -Below[Reverse(Reverse(d))]
    BY <2>1, <2>2 DEF ReadAs, Minus
  <2> QED BY <1>1, <1>2, <1>4, <2>3 DEF Size
<1> QED BY <1>3, <1>4

\* The integers smaller than p have at most k digits.
Digited(p, k) == \A i \in Int : Size(i) < p => Len(LastFirst[i]) <= k

\* One digit more for a power of ten more ...
LEMMA OneDigitMore ==
  ASSUME NEW p \in Nat \ {0}, NEW k \in Nat \ {0}, Digited(p, k)
  PROVE  Digited(10 * p, k + 1)
<1> SUFFICES ASSUME NEW i \in Int, Size(i) < 10 * p PROVE Len(LastFirst[i]) <= k + 1
  BY DEF Digited
<1> DEFINE z == zero(Rem(i))
           q == Quot(i)
           rest == IF q = 0 THEN <<>> ELSE LastFirst[q]
<1>1. /\ q \in Int /\ z \in 0 .. 9 /\ i = 10 * q + Rem(i)
      /\ i >= 0 => 0 <= q /\ z = Rem(i)
      /\ i < 0 => q <= 0 /\ z = -Rem(i)
      /\ Rem(i) \in Int
  BY Quotients
<1>2. LastFirst[i] = <<z>> \o rest
  BY LastFirstUnfolds
<1>3. rest \in Digits
  BY <1>1, LastFirstUnfolds, EmptySeq DEF Digits
<1>4. Len(rest) <= k
  <2>1. CASE q = 0
    BY <2>1, EmptySeq
  <2>2. CASE q # 0
    <3> HIDE DEF q, z
    <3>1. Size(q) < p
      BY <1>1 DEF Size
    <3> QED BY <1>1, <2>2, <3>1 DEF Digited
  <2> QED BY <2>1, <2>2
<1> HIDE DEF z, rest
<1>5. Len(<<z>> \o rest) = 1 + Len(rest) /\ Len(rest) \in Nat
  <2>1. <<z>> \in Digits /\ Len(<<z>>) = 1
    BY <1>1 DEF Digits
  <2> QED BY <1>3, <2>1, ConcatProperties, LenProperties DEF Digits
<1> QED BY <1>2, <1>4, <1>5

\* ... three ...
LEMMA ThreeDigitsMore ==
  ASSUME NEW p \in Nat \ {0}, NEW k \in Nat \ {0}, Digited(p, k)
  PROVE  Digited(1000 * p, k + 3)
<1>1. Digited(10 * p, k + 1)
  BY OneDigitMore
<1>2. 10 * p \in Nat \ {0} /\ 100 * p \in Nat \ {0} /\ k + 1 \in Nat \ {0} /\ k + 2 \in Nat \ {0}
  OBVIOUS
<1>3. Digited(100 * p, k + 2)
  <2>1. Digited(10 * (10 * p), (k + 1) + 1)
    BY <1>1, <1>2, OneDigitMore
  <2>2. 10 * (10 * p) = 100 * p /\ (k + 1) + 1 = k + 2
    OBVIOUS
  <2> QED BY <2>1, <2>2
<1>4. Digited(10 * (100 * p), (k + 2) + 1)
  BY <1>2, <1>3, OneDigitMore
<1>5. 10 * (100 * p) = 1000 * p /\ (k + 2) + 1 = k + 3
  OBVIOUS
<1> QED BY <1>4, <1>5

\* 10^9.
Billion == 1000 * (1000 * 1000)

\* ... and nine.
LEMMA NineDigitsMore ==
  ASSUME NEW p \in Nat \ {0}, NEW k \in Nat \ {0}, Digited(p, k)
  PROVE  Digited(Billion * p, k + 9)
<1> DEFINE q == 1000 * p
           r == 1000 * q
<1>1. /\ q \in Nat \ {0} /\ r \in Nat \ {0} /\ Billion * p = 1000 * r
      /\ k + 3 \in Nat \ {0} /\ k + 6 \in Nat \ {0}
      /\ (k + 3) + 3 = k + 6 /\ (k + 6) + 3 = k + 9
  BY SMT DEF Billion
<1>2. Digited(q, k + 3)
  BY ThreeDigitsMore
<1> HIDE DEF q
<1>3. Digited(r, (k + 3) + 3)
  BY <1>1, <1>2, ThreeDigitsMore
<1> HIDE DEF r
<1>4. Digited(1000 * r, (k + 6) + 3)
  BY <1>1, <1>3, ThreeDigitsMore
<1> QED BY <1>1, <1>4, Zenon

(***************************************************************************)
(* Every integer of 64 bits, signed or unsigned, is written in at most     *)
(* twenty characters, so that formatInteger() may leave the NUL behind it  *)
(* within the kMaxNumericSize characters it asks for, and                  *)
(* LogStreamAssumption is no restriction.                                  *)
(***************************************************************************)
THEOREM SixtyFourBitsFit ==
  \A v \in Int : -(10 * Billion * Billion) < v /\ v < 100 * Billion * Billion
                 => Len(convert(v)) <= 20
<1> DEFINE ten19 == Billion * (Billion * 10)
<1>1. Digited(10, 1)
  <2> SUFFICES ASSUME NEW i \in Int, Size(i) < 10 PROVE Len(LastFirst[i]) <= 1
    BY DEF Digited
  <2>1. Quot(i) = 0
    <3>1. i \in -9 .. 9
      BY DEF Size
    <3> QED BY <3>1 DEF Quot
  <2>2. LastFirst[i] = <<zero(Rem(i))>> \o <<>> /\ zero(Rem(i)) \in 0 .. 9
    BY <2>1, LastFirstUnfolds, Quotients
  <2> DEFINE z == zero(Rem(i))
  <2> HIDE DEF z
  <2>3. <<z>> \in Digits /\ Len(<<z>>) = 1
    BY <2>2 DEF Digits, z
  <2> QED BY <2>2, <2>3, ConcatEmptySeq DEF Digits, z
<1>2. Digited(Billion * 10, 1 + 9)
  BY <1>1, NineDigitsMore
<1>3. Billion * 10 \in Nat \ {0} /\ ten19 \in Nat \ {0}
  BY SMT DEF Billion
<1>4. Digited(ten19, 19)
  <2>1. Digited(ten19, 10 + 9)
    BY <1>2, <1>3, NineDigitsMore
  <2> QED BY <2>1
<1>5. Digited(10 * ten19, 20)
  <2> HIDE DEF ten19
  <2>1. Digited(10 * ten19, 19 + 1)
    BY <1>3, <1>4, OneDigitMore
  <2> QED BY <2>1
<1>6. SUFFICES ASSUME NEW v \in Int, -ten19 < v, v < 10 * ten19
               PROVE  Len(convert(v)) <= 20
  BY SMT DEF Billion
<1> HIDE DEF ten19
<1>7. LastFirst[v] \in Digits /\ Len(LastFirst[v]) \in Nat
  BY LastFirstUnfolds, LenProperties DEF Digits
<1>8. CASE v < 0
  <2>1. Size(v) < ten19
    BY <1>3, <1>6, <1>8 DEF Size
  <2>2. Len(LastFirst[v]) <= 19
    BY <1>4, <2>1 DEF Digited
  <2>3. convert(v) = Reverse(Append(LastFirst[v], Minus))
    BY <1>8 DEF convert
  <2> QED BY <1>7, <2>2, <2>3, MinusInFront
<1>9. CASE ~(v < 0)
  <2>1. Size(v) < 10 * ten19
    BY <1>6, <1>9 DEF Size
  <2>2. Len(LastFirst[v]) <= 20
    BY <1>5, <2>1 DEF Digited
  <2>3. convert(v) = Reverse(LastFirst[v])
    BY <1>9 DEF convert
  <2> QED BY <1>7, <2>2, <2>3, Reversed DEF Digits
<1> QED BY <1>8, <1>9

\* The length of what convert() writes is a number.
LEMMA ConvertedTyped == \A v \in Int : Len(convert(v)) \in Nat
<1> SUFFICES ASSUME NEW v \in Int PROVE Len(convert(v)) \in Nat
  OBVIOUS
<1>1. LastFirst[v] \in Digits /\ Len(LastFirst[v]) \in Nat
  BY LastFirstUnfolds, LenProperties DEF Digits
<1> QED BY <1>1, MinusInFront, Reversed DEF convert, Digits

-----------------------------------------------------------------------------
(* The buffer of a log statement.                                          *)

LoggedPieces == {text(n) : n \in Nat} \cup {integer(v) : v \in Integers_}
                  \cup {float(n) : n \in FloatSizes}

(***************************************************************************)
(* What holds of a buffer whatever was streamed into it: there is always   *)
(* room for one more character, and the room only shrinks, so that what    *)
(* did not fit once would not fit now.                                     *)
(***************************************************************************)
BufferOK(buf) ==
  /\ buf \in [asked : Seq(LoggedPieces), taken : SUBSET Nat,
              length : 0 .. kSmallBuffer - 1, top : 0 .. kSmallBuffer]
  /\ \A i \in DOMAIN buf.asked \ buf.taken :
       IF buf.asked[i].kind = "text" THEN avail(buf) <= buf.asked[i].n
                                     ELSE avail(buf) < kMaxNumericSize

\* What LogStreamAssumption says of the sizes.
LEMMA Sizes ==
  /\ kSmallBuffer \in Nat /\ kMaxNumericSize \in Nat
  /\ 1 <= kMaxNumericSize /\ kMaxNumericSize <= kSmallBuffer
  /\ \A n \in FloatSizes : n \in Nat /\ n < kMaxNumericSize
  /\ \A v \in Integers_ : v \in Int /\ Len(convert(v)) < kMaxNumericSize
<1>1. kSmallBuffer \in Nat /\ kMaxNumericSize \in 1 .. kSmallBuffer /\ Naturals_ \subseteq Nat
  BY LogStreamAssumption
<1>2. FloatSizes \subseteq 1 .. kMaxNumericSize - 1
  BY LogStreamAssumption
<1>3. \A v \in Integers_ : Len(convert(v)) < kMaxNumericSize
  BY LogStreamAssumption
<1> QED BY <1>1, <1>2, <1>3 DEF Integers_

\* The larger of two numbers.
LEMMA MaxOfTwo ==
  ASSUME NEW a \in Int, NEW b \in Int
  PROVE  Max({a, b}) = IF a >= b THEN a ELSE b
<1>1. \E x \in {a, b} : \A y \in {a, b} : x >= y
  OBVIOUS
<1>2. Max({a, b}) \in {a, b} /\ \A y \in {a, b} : Max({a, b}) >= y
  BY <1>1 DEF Max
<1> QED BY <1>2

\* One more piece is asked for.
LEMMA AskedMore ==
  ASSUME NEW s \in Seq(LoggedPieces), NEW piece \in LoggedPieces
  PROVE  /\ Append(s, piece) \in Seq(LoggedPieces)
         /\ Len(s) \in Nat /\ DOMAIN s = 1 .. Len(s)
         /\ DOMAIN Append(s, piece) = 1 .. Len(s) + 1
         /\ Append(s, piece)[Len(s) + 1] = piece
         /\ \A i \in 1 .. Len(s) : Append(s, piece)[i] = s[i]
<1>1. /\ Append(s, piece) \in Seq(LoggedPieces) /\ Len(Append(s, piece)) = Len(s) + 1
      /\ \A i \in 1 .. Len(s) : Append(s, piece)[i] = s[i]
      /\ Append(s, piece)[Len(s) + 1] = piece
  BY AppendProperties
<1> QED BY <1>1, LenProperties

\* A piece that fits.
LEMMA AddKeeps ==
  ASSUME NEW buf, BufferOK(buf), NEW piece \in LoggedPieces, NEW size \in Nat, NEW nul \in Nat,
         size < avail(buf), size + nul <= avail(buf)
  PROVE  /\ BufferOK(Add(buf, piece, size, nul))
         /\ Len(Add(buf, piece, size, nul).asked) \in Add(buf, piece, size, nul).taken
<1> DEFINE new == Add(buf, piece, size, nul)
<1>1. /\ buf.asked \in Seq(LoggedPieces) /\ buf.taken \subseteq Nat
      /\ buf.length \in 0 .. kSmallBuffer - 1 /\ buf.top \in 0 .. kSmallBuffer
      /\ kSmallBuffer \in Nat /\ kMaxNumericSize \in Nat
  BY Sizes DEF BufferOK
<1>2. avail(buf) = kSmallBuffer - buf.length
  BY DEF avail
<1>3. /\ new.asked = Append(buf.asked, piece) /\ new.taken = buf.taken \cup {Len(buf.asked) + 1}
      /\ new.length = buf.length + size /\ new.top = Max({buf.top, buf.length + size + nul})
      /\ new = [asked |-> new.asked, taken |-> new.taken, length |-> new.length, top |-> new.top]
  BY DEF Add
<1>4. new.length \in 0 .. kSmallBuffer - 1 /\ new.top \in 0 .. kSmallBuffer
  <2>1. /\ buf.length + size < kSmallBuffer /\ buf.length + size + nul <= kSmallBuffer
        /\ buf.length + size \in Nat /\ buf.length + size + nul \in Nat
    <3> HIDE DEF new
    <3> QED BY <1>1, <1>2
  <2>2. new.top \in {buf.top, buf.length + size + nul}
    <3>1. buf.top \in Int /\ buf.length + size + nul \in Int
      <4> HIDE DEF new
      <4> QED BY <1>1, <2>1
    <3>2. Max({buf.top, buf.length + size + nul}) \in {buf.top, buf.length + size + nul}
      <4> HIDE DEF new
      <4> QED BY <3>1, MaxOfTwo
    <3> HIDE DEF new
    <3> QED BY <1>3, <3>2
  <2> HIDE DEF new
  <2> QED BY <1>1, <1>3, <2>1, <2>2
<1>5. /\ new.asked \in Seq(LoggedPieces) /\ Len(new.asked) = Len(buf.asked) + 1
      /\ Len(buf.asked) \in Nat /\ DOMAIN buf.asked = 1 .. Len(buf.asked)
      /\ DOMAIN new.asked = 1 .. Len(buf.asked) + 1
      /\ \A i \in 1 .. Len(buf.asked) : new.asked[i] = buf.asked[i]
  BY <1>1, <1>3, AskedMore, LenProperties, AppendProperties
<1>6. avail(new) <= avail(buf) /\ avail(new) \in Int /\ avail(buf) \in Int
  BY <1>1, <1>3 DEF avail
<1> HIDE DEF new
<1>7. ASSUME NEW i \in DOMAIN new.asked \ new.taken
      PROVE  IF new.asked[i].kind = "text" THEN avail(new) <= new.asked[i].n
                                           ELSE avail(new) < kMaxNumericSize
  <2>1. i \in DOMAIN buf.asked \ buf.taken /\ new.asked[i] = buf.asked[i]
    BY <1>3, <1>5, <1>7
  <2>2. IF new.asked[i].kind = "text" THEN avail(buf) <= new.asked[i].n
                                      ELSE avail(buf) < kMaxNumericSize
    BY <2>1 DEF BufferOK
  <2>3. new.asked[i].kind = "text" => new.asked[i].n \in Int
    <3>1. buf.asked[i] \in LoggedPieces
      BY <1>1, <1>5, <2>1, ElementOfSeq
    <3> QED BY <2>1, <3>1 DEF LoggedPieces, text, integer, float
  <2> QED BY <1>1, <1>6, <2>2, <2>3
<1>8. BufferOK(new)
  <2>1. new.taken \subseteq Nat
    BY <1>1, <1>3, <1>5
  <2> QED BY <1>3, <1>4, <1>5, <1>7, <2>1 DEF BufferOK
<1> QED BY <1>3, <1>5, <1>8 DEF new

\* A piece that does not.
LEMMA DropKeeps ==
  ASSUME NEW buf, BufferOK(buf), NEW piece \in LoggedPieces,
         IF piece.kind = "text" THEN avail(buf) <= piece.n ELSE avail(buf) < kMaxNumericSize
  PROVE  BufferOK(Drop(buf, piece)) /\ Drop(buf, piece).length = buf.length
<1> DEFINE new == Drop(buf, piece)
<1>1. /\ buf.asked \in Seq(LoggedPieces)
      /\ buf \in [asked : Seq(LoggedPieces), taken : SUBSET Nat,
                  length : 0 .. kSmallBuffer - 1, top : 0 .. kSmallBuffer]
  BY DEF BufferOK
<1>2. /\ new.asked = Append(buf.asked, piece) /\ new.taken = buf.taken
      /\ new.length = buf.length /\ new = [buf EXCEPT !.asked = new.asked]
  BY <1>1 DEF Drop
<1>3. avail(new) = avail(buf)
  BY <1>2 DEF avail
<1>4. /\ new.asked \in Seq(LoggedPieces) /\ Len(buf.asked) \in Nat
      /\ DOMAIN buf.asked = 1 .. Len(buf.asked) /\ DOMAIN new.asked = 1 .. Len(buf.asked) + 1
      /\ new.asked[Len(buf.asked) + 1] = piece
      /\ \A i \in 1 .. Len(buf.asked) : new.asked[i] = buf.asked[i]
  BY <1>1, <1>2, AskedMore
<1> HIDE DEF new
<1>5. ASSUME NEW i \in DOMAIN new.asked \ new.taken
      PROVE  IF new.asked[i].kind = "text" THEN avail(new) <= new.asked[i].n
                                           ELSE avail(new) < kMaxNumericSize
  <2>1. CASE i = Len(buf.asked) + 1
    BY <1>3, <1>4, <2>1
  <2>2. CASE i # Len(buf.asked) + 1
    <3>1. i \in DOMAIN buf.asked \ buf.taken /\ new.asked[i] = buf.asked[i]
      BY <1>2, <1>4, <1>5, <2>2
    <3> QED BY <1>3, <3>1 DEF BufferOK
  <2> QED BY <2>1, <2>2
<1>6. new \in [asked : Seq(LoggedPieces), taken : SUBSET Nat,
              length : 0 .. kSmallBuffer - 1, top : 0 .. kSmallBuffer]
  BY <1>1, <1>2, <1>4
<1> QED BY <1>2, <1>5, <1>6 DEF BufferOK, new

\* operator<<, of a text, an integer or a floating point number.
LEMMA PutKeeps ==
  ASSUME NEW buf, BufferOK(buf), NEW piece \in LoggedPieces
  PROVE  BufferOK(Put(buf, piece))
<1>1. buf.length \in 0 .. kSmallBuffer - 1 /\ kSmallBuffer \in Nat /\ kMaxNumericSize \in Nat
  BY Sizes DEF BufferOK
<1>2. avail(buf) \in Nat
  BY <1>1 DEF avail
<1>3. CASE piece.kind = "text"
  <2>1. piece.n \in Nat
    BY <1>3 DEF LoggedPieces, text, integer, float
  <2>2. Put(buf, piece) = IF avail(buf) > piece.n THEN Add(buf, piece, piece.n, 0) ELSE Drop(buf, piece)
    BY <1>3 DEF Put, AppendText
  <2>3. CASE avail(buf) > piece.n
    BY <1>2, <2>1, <2>2, <2>3, AddKeeps
  <2>4. CASE ~(avail(buf) > piece.n)
    BY <1>2, <1>3, <2>1, <2>2, <2>4, DropKeeps
  <2> QED BY <2>3, <2>4
<1>4. ASSUME piece.kind # "text", NEW size \in Nat, size < kMaxNumericSize,
             Put(buf, piece) = AppendNumber(buf, piece, size)
      PROVE  BufferOK(Put(buf, piece))
  <2>1. CASE avail(buf) >= kMaxNumericSize
    <3>1. size < avail(buf) /\ size + 1 <= avail(buf)
      BY <1>1, <1>2, <1>4, <2>1
    <3>2. Put(buf, piece) = Add(buf, piece, size, 1)
      BY <1>4, <2>1 DEF AppendNumber
    <3> QED BY <3>1, <3>2, AddKeeps
  <2>2. CASE ~(avail(buf) >= kMaxNumericSize)
    <3>1. avail(buf) < kMaxNumericSize
      BY <1>1, <1>2, <2>2
    <3>2. Put(buf, piece) = Drop(buf, piece)
      BY <1>4, <2>2 DEF AppendNumber
    <3> QED BY <1>4, <3>1, <3>2, DropKeeps
  <2> QED BY <2>1, <2>2
<1>5. CASE piece.kind = "integer"
  <2>1. piece.n \in Integers_
    BY <1>5 DEF LoggedPieces, text, integer, float
  <2>2. Len(convert(piece.n)) \in Nat /\ Len(convert(piece.n)) < kMaxNumericSize
    BY <2>1, Sizes, ConvertedTyped
  <2>3. Put(buf, piece) = AppendNumber(buf, piece, Len(convert(piece.n)))
    BY <1>5 DEF Put
  <2> QED BY <1>4, <1>5, <2>1, <2>2, <2>3
<1>6. CASE piece.kind = "float"
  <2>1. piece.n \in FloatSizes
    BY <1>6 DEF LoggedPieces, text, integer, float
  <2>2. piece.n \in Nat /\ piece.n < kMaxNumericSize
    BY <2>1, Sizes
  <2>3. Put(buf, piece) = AppendNumber(buf, piece, piece.n)
    BY <1>6 DEF Put
  <2> QED BY <1>4, <1>6, <2>2, <2>3
<1> QED BY <1>3, <1>5, <1>6 DEF LoggedPieces, text, integer, float

\* The end of the line is one character: it fits, or only the last one is free.
LEMMA EndOfLine ==
  ASSUME NEW buf, BufferOK(buf)
  PROVE  LET new == Put(buf, text(1)) IN
           Len(new.asked) \in new.taken \/ new.length = kSmallBuffer - 1
<1>1. buf.length \in 0 .. kSmallBuffer - 1 /\ kSmallBuffer \in Nat /\ kMaxNumericSize \in Nat
  BY Sizes DEF BufferOK
<1>2. text(1) \in LoggedPieces /\ text(1).kind = "text" /\ text(1).n = 1
  BY DEF LoggedPieces, text
<1>3. Put(buf, text(1)) = IF avail(buf) > 1 THEN Add(buf, text(1), 1, 0) ELSE Drop(buf, text(1))
  BY <1>2 DEF Put, AppendText
<1>4. CASE avail(buf) > 1
  <2>1. 1 < avail(buf) /\ 1 + 0 <= avail(buf)
    BY <1>1, <1>4 DEF avail
  <2> QED BY <1>2, <1>3, <1>4, <2>1, AddKeeps
<1>5. CASE ~(avail(buf) > 1)
  <2>1. avail(buf) <= 1 /\ buf.length = kSmallBuffer - 1
    BY <1>1, <1>5 DEF avail
  <2> QED BY <1>2, <1>3, <1>5, <2>1, DropKeeps
<1> QED BY <1>4, <1>5

\* The buffer of a new LogStream.
LEMMA EmptyBufferOK == BufferOK(EmptyBuffer)
<1>1. 0 \in 0 .. kSmallBuffer - 1 /\ 0 \in 0 .. kSmallBuffer
  BY Sizes
<1>2. <<>> \in Seq(LoggedPieces) /\ DOMAIN <<>> = {}
  BY EmptySeq
<1> QED BY <1>1, <1>2 DEF BufferOK, EmptyBuffer

-----------------------------------------------------------------------------
(* The log statements.                                                     *)

\* Where a line is complete.
EndsWell(buf) == Len(buf.asked) \in buf.taken \/ buf.length = kSmallBuffer - 1

(***************************************************************************)
(* The inductive invariant: the buffer of every thread is in order, and    *)
(* from the destructor on it holds the end of the line or no room for it.  *)
(***************************************************************************)
LinesInv ==
  /\ caller \in [Threads -> CallerPoints]
  /\ stream_ = [t \in Threads |-> stream_[t]]
  /\ \A t \in Threads : BufferOK(stream_[t])
  /\ \A t \in Threads : caller[t] \notin {"run", "stream"} => EndsWell(stream_[t])

\* The pieces the statements stream.
LEMMA PiecesLogged ==
  /\ Pieces \subseteq LoggedPieces
  /\ \A n \in Nat : text(n) \in LoggedPieces
  /\ \A line \in lines : integer(line) \in LoggedPieces
BY LoggerAssumption DEF Pieces, LoggedPieces

\* What the constructor of Logger writes.
LEMMA HeadedOK == \A level \in LevelSizes : BufferOK(Headed(level))
<1> SUFFICES ASSUME NEW level \in LevelSizes PROVE BufferOK(Headed(level))
  OBVIOUS
<1> DEFINE b1 == Put(EmptyBuffer, text(level))
           b2 == Put(b1, text(1))
           b3 == Put(b2, text(6))
           b4 == Put(b3, text(1))
<1>1. /\ text(1) \in LoggedPieces /\ text(6) \in LoggedPieces /\ text(20) \in LoggedPieces
      /\ text(level) \in LoggedPieces
  BY PiecesLogged, LoggerAssumption
<1>2. BufferOK(b1)
  BY <1>1, EmptyBufferOK, PutKeeps
<1> HIDE DEF b1
<1>3. BufferOK(b2)
  BY <1>1, <1>2, PutKeeps
<1> HIDE DEF b2
<1>4. BufferOK(b3)
  BY <1>1, <1>3, PutKeeps
<1> HIDE DEF b3
<1>5. BufferOK(b4)
  BY <1>1, <1>4, PutKeeps
<1> HIDE DEF b4
<1>6. BufferOK(Put(b4, text(20)))
  BY <1>1, <1>5, PutKeeps
<1> QED BY <1>6 DEF Headed, b1, b2, b3, b4

\* What the destructor writes.
LEMMA TrailedOK ==
  ASSUME NEW buf, BufferOK(buf), NEW line \in lines
  PROVE  BufferOK(Trailed(buf, line)) /\ EndsWell(Trailed(buf, line))
<1> DEFINE b1 == Put(buf, text(2))
           b2 == Put(b1, text(basename_))
           b3 == Put(b2, text(1))
           b4 == Put(b3, integer(line))
<1>1. /\ text(1) \in LoggedPieces /\ text(2) \in LoggedPieces
      /\ text(basename_) \in LoggedPieces /\ integer(line) \in LoggedPieces
  BY PiecesLogged, LoggerAssumption
<1>2. BufferOK(b1)
  BY <1>1, PutKeeps
<1> HIDE DEF b1
<1>3. BufferOK(b2)
  BY <1>1, <1>2, PutKeeps
<1> HIDE DEF b2
<1>4. BufferOK(b3)
  BY <1>1, <1>3, PutKeeps
<1> HIDE DEF b3
<1>5. BufferOK(b4)
  BY <1>1, <1>4, PutKeeps
<1> HIDE DEF b4
<1>6. BufferOK(Put(b4, text(1)))
  BY <1>1, <1>5, PutKeeps
<1>7. EndsWell(Put(b4, text(1)))
  BY <1>5, EndOfLine DEF EndsWell
<1> QED BY <1>6, <1>7 DEF Trailed, b1, b2, b3, b4

\* The invariant gives LineReadable.
LEMMA LinesInvReadable == LinesInv => LineReadable
<1> SUFFICES ASSUME LinesInv, NEW t \in Threads
    PROVE  LET buf == stream_[t] IN
             /\ buf.top <= kSmallBuffer
             /\ \A i \in DOMAIN buf.asked \ buf.taken :
                  IF buf.asked[i].kind = "text" THEN avail(buf) <= buf.asked[i].n
                                                ELSE avail(buf) < kMaxNumericSize
             /\ caller[t] \notin {"run", "stream"} =>
                  Len(buf.asked) \in buf.taken \/ buf.length = kSmallBuffer - 1
             /\ \A i \in DOMAIN buf.asked :
                  buf.asked[i].kind = "integer" =>
                    ReadAs(convert(buf.asked[i].n)) = buf.asked[i].n
  BY DEF LineReadable
<1> DEFINE buf == stream_[t]
<1>1. BufferOK(buf)
  BY DEF LinesInv
<1>2. caller[t] \notin {"run", "stream"} => EndsWell(buf)
  BY DEF LinesInv
<1> HIDE DEF buf
<1>3. buf.top <= kSmallBuffer /\ buf.asked \in Seq(LoggedPieces)
  BY <1>1, Sizes DEF BufferOK
<1>4. ASSUME NEW i \in DOMAIN buf.asked, buf.asked[i].kind = "integer"
      PROVE  ReadAs(convert(buf.asked[i].n)) = buf.asked[i].n
  <2>1. buf.asked[i] \in LoggedPieces
    BY <1>3, ElementOfSeq, LenProperties
  <2>2. buf.asked[i].n \in Int
    BY <1>4, <2>1, Sizes DEF LoggedPieces, text, integer, float
  <2> QED BY <2>2, IntegersReadBack
<1> QED BY <1>1, <1>2, <1>3, <1>4 DEF buf, BufferOK, EndsWell

\* Every step keeps the invariant.
LEMMA LinesStep == LinesInv /\ [NextLogger]_loggerVars => LinesInv'
<1> SUFFICES ASSUME LinesInv, [NextLogger]_loggerVars PROVE LinesInv'
  OBVIOUS
<1>0. /\ caller \in [Threads -> CallerPoints] /\ stream_ = [t \in Threads |-> stream_[t]]
      /\ \A t \in Threads : BufferOK(stream_[t])
      /\ \A t \in Threads : caller[t] \notin {"run", "stream"} => EndsWell(stream_[t])
  BY DEF LinesInv
\* One thread moves and its buffer is replaced.
<1>1. ASSUME NEW t \in Threads, NEW to \in CallerPoints, NEW new, BufferOK(new),
             to \notin {"run", "stream"} => EndsWell(new),
             caller' = [caller EXCEPT ![t] = to], stream_' = [stream_ EXCEPT ![t] = new]
      PROVE  LinesInv'
  <2>1. caller' \in [Threads -> CallerPoints] /\ stream_' = [u \in Threads |-> stream_'[u]]
    BY <1>0, <1>1
  <2>2. ASSUME NEW u \in Threads
        PROVE  BufferOK(stream_'[u]) /\ (caller'[u] \notin {"run", "stream"} => EndsWell(stream_'[u]))
    <3>1. CASE u = t
      <4>1. stream_'[u] = new /\ caller'[u] = to
        BY <1>0, <1>1, <3>1
      <4> QED BY <1>1, <4>1
    <3>2. CASE u # t
      <4>1. stream_'[u] = stream_[u] /\ caller'[u] = caller[u]
        BY <1>0, <1>1, <3>2
      <4> QED BY <1>0, <4>1
    <3> QED BY <3>1, <3>2
  <2>3. \A u \in Threads : BufferOK(stream_[u])'
    BY <2>2 DEF BufferOK, avail
  <2>4. \A u \in Threads : (caller[u] \notin {"run", "stream"} => EndsWell(stream_[u]))'
    BY <2>2 DEF EndsWell
  <2> QED BY <2>1, <2>3, <2>4 DEF LinesInv
\* One thread moves on from the destructor, the buffers as they are.
<1>2. ASSUME NEW t \in Threads, NEW to \in CallerPoints, caller[t] \notin {"run", "stream"},
             caller' = [caller EXCEPT ![t] = to], UNCHANGED stream_
      PROVE  LinesInv'
  <2>1. stream_' = [stream_ EXCEPT ![t] = stream_[t]]
    BY <1>0, <1>2
  <2> QED BY <1>0, <1>1, <1>2, <2>1
<1>3. ASSUME UNCHANGED <<caller, stream_>> PROVE LinesInv'
  BY <1>3 DEF LinesInv, BufferOK, avail, EndsWell
<1>4. ASSUME NEW t \in Threads, NEW level \in LevelSizes, MakeLogger(t, level) PROVE LinesInv'
  BY <1>1, <1>4, HeadedOK DEF MakeLogger, Goto, CallerPoints
<1>5. ASSUME NEW t \in Threads, NEW piece \in Pieces, Stream(t, piece) PROVE LinesInv'
  <2>1. BufferOK(Put(stream_[t], piece))
    BY <1>0, PiecesLogged, PutKeeps
  <2>2. caller' = [caller EXCEPT ![t] = "stream"]
    BY <1>0, <1>5 DEF Stream
  <2>3. stream_' = [stream_ EXCEPT ![t] = Put(stream_[t], piece)]
    BY <1>5 DEF Stream
  <2> QED BY <1>1, <2>1, <2>2, <2>3 DEF CallerPoints
<1>6. ASSUME NEW t \in Threads, NEW line \in lines, EndLine(t, line) PROVE LinesInv'
  <2>1. BufferOK(Trailed(stream_[t], line)) /\ EndsWell(Trailed(stream_[t], line))
    BY <1>0, TrailedOK
  <2>2. caller' = [caller EXCEPT ![t] = "once"]
    BY <1>6 DEF EndLine, Goto
  <2>3. stream_' = [stream_ EXCEPT ![t] = Trailed(stream_[t], line)]
    BY <1>6 DEF EndLine
  <2> QED BY <1>1, <2>1, <2>2, <2>3 DEF CallerPoints
<1>7. ASSUME NEW t \in Threads,
             OnceFirst(t) \/ OncePasses(t) \/ OnceNew(t) \/ OnceReturns(t)
      PROVE  LinesInv'
  <2>1. CASE OnceFirst(t)
    BY <1>2, <2>1 DEF OnceFirst, Goto, CallerPoints
  <2>2. CASE OncePasses(t)
    BY <1>2, <2>2 DEF OncePasses, Goto, CallerPoints
  <2>3. CASE OnceNew(t)
    BY <1>2, <2>3 DEF OnceNew, Goto, CallerPoints
  <2>4. CASE OnceReturns(t)
    BY <1>2, <2>4 DEF OnceReturns, Goto, CallerPoints
  <2> QED BY <1>7, <2>1, <2>2, <2>3, <2>4
<1>8. ASSUME NEW t \in Threads, Deliver(t) PROVE LinesInv'
  BY <1>1, <1>8, EmptyBufferOK DEF Deliver, Goto, CallerPoints
<1>9. ASSUME NEW name \in FileNames, SetLogFileName(name) PROVE LinesInv'
  BY <1>3, <1>9 DEF SetLogFileName
<1>10. CASE UNCHANGED loggerVars
  BY <1>3, <1>10 DEF loggerVars
<1> QED
  BY <1>4, <1>5, <1>6, <1>7, <1>8, <1>9, <1>10 DEF NextLogger, Statement, Output

(***************************************************************************)
(* What LineReadable says of Logging.cpp and LogStream.cpp holds for every *)
(* number of threads, of pieces and of statements, for every length of a   *)
(* text and for every integer: no text and no number ever ends behind the  *)
(* buffer, and no integer is logged as another one.                        *)
(***************************************************************************)
THEOREM LinesReadable == LoggerSpec => []LineReadable
<1>1. InitLogger => LinesInv
  <2> SUFFICES ASSUME InitLogger PROVE LinesInv
    OBVIOUS
  <2>1. caller = [t \in Threads |-> "run"] /\ stream_ = [t \in Threads |-> EmptyBuffer]
    BY DEF InitLogger
  <2>2. \A t \in Threads : caller[t] = "run" /\ stream_[t] = EmptyBuffer
    BY <2>1
  <2> QED BY <2>1, <2>2, EmptyBufferOK DEF LinesInv, CallerPoints
<1>2. LinesInv /\ [NextLogger]_loggerVars => LinesInv'
  BY LinesStep
<1>3. LinesInv => LineReadable
  BY LinesInvReadable
<1> QED BY <1>1, <1>2, <1>3, PTL DEF LoggerSpec

-----------------------------------------------------------------------------
(* pthread_once().                                                         *)

(***************************************************************************)
(* pthread_once(): the flag, the pointer and what once_init() has made go  *)
(* together, and one thread at most is in once_init().                     *)
(***************************************************************************)
OnceInv ==
  /\ LoggerTypeOK
  /\ \A t, u \in Threads : {caller[t], caller[u]} \subseteq {"new", "start"} => t = u
  /\ \A t \in Threads : /\ caller[t] = "new" => once_control_ = "running" /\ made = <<>>
                        /\ caller[t] = "start" => once_control_ = "running"
                        /\ caller[t] = "append" => once_control_ = "done"
  /\ once_control_ = "init" => made = <<>>
  /\ once_control_ = "done" => AsyncLogger_ = "started"
  /\ Len(made) <= 1

\* Every step keeps the invariant.
LEMMA OnceStep == OnceInv /\ [NextLogger]_loggerVars => OnceInv'
<1> SUFFICES ASSUME OnceInv, [NextLogger]_loggerVars PROVE OnceInv'
  OBVIOUS
<1> USE DEF OnceInv, LoggerTypeOK, CallerPoints
<1>1. ASSUME NEW t \in Threads, Statement(t) PROVE OnceInv'
  <2>1. ASSUME NEW level \in LevelSizes, MakeLogger(t, level) PROVE OnceInv'
    BY <2>1 DEF MakeLogger, Goto
  <2>2. ASSUME NEW piece \in Pieces, Stream(t, piece) PROVE OnceInv'
    BY <2>2 DEF Stream
  <2>3. ASSUME NEW line \in lines, EndLine(t, line) PROVE OnceInv'
    BY <2>3 DEF EndLine, Goto
  <2> QED BY <1>1, <2>1, <2>2, <2>3 DEF Statement
<1>2. ASSUME NEW t \in Threads, OnceFirst(t) PROVE OnceInv'
  BY <1>2 DEF OnceFirst, Goto
<1>3. ASSUME NEW t \in Threads, OncePasses(t) PROVE OnceInv'
  BY <1>3 DEF OncePasses, Goto
<1>4. ASSUME NEW t \in Threads, OnceNew(t) PROVE OnceInv'
  <2>1. made = <<>> /\ made' = Append(made, logFileName_) /\ logFileName_ \in FileNames
    BY <1>4 DEF OnceNew, Goto
  <2>2. Len(made') = 1 /\ made' \in Seq(FileNames)
    BY <2>1, AppendProperties, EmptySeq
  <2> QED BY <1>4, <2>1, <2>2 DEF OnceNew, Goto
<1>5. ASSUME NEW t \in Threads, Deliver(t) PROVE OnceInv'
  BY <1>5 DEF Deliver, Goto
<1>6. ASSUME NEW t \in Threads, OnceReturns(t) PROVE OnceInv'
  BY <1>6 DEF OnceReturns, Goto
<1>7. ASSUME NEW name \in FileNames, SetLogFileName(name) PROVE OnceInv'
  BY <1>7 DEF SetLogFileName
<1>8. CASE UNCHANGED loggerVars
  BY <1>8 DEF loggerVars
<1> QED BY <1>1, <1>2, <1>3, <1>4, <1>5, <1>6, <1>7, <1>8 DEF NextLogger, Output

\* The invariant gives OneLogger, in the next state as in this one.
LEMMA OnceInvOne == (OnceInv => OneLogger) /\ (OnceInv' => OneLogger')
BY DEF OnceInv, OneLogger

\* OnceInv holds in every state.
LEMMA OnceAlways == LoggerSpec => []OnceInv
<1>1. InitLogger => OnceInv
  BY EmptySeq DEF InitLogger, OnceInv, LoggerTypeOK, CallerPoints
<1> QED BY <1>1, OnceStep, PTL DEF LoggerSpec

(***************************************************************************)
(* Whichever threads log first, one AsyncLogging is made, and no line is   *)
(* appended before it is started.                                          *)
(***************************************************************************)
THEOREM OneLoggerMade == LoggerSpec => []OneLogger
BY OnceInvOne, OnceAlways, PTL

-----------------------------------------------------------------------------
(* The statements and AsyncLogging together.                               *)

\* A step of the composition is a step or a stutter of each part.
LEMMA LoggingStepMaps ==
  [NextLogging]_loggingVars => [NextLogger]_loggerVars /\ [NextLog]_logVars
<1> SUFFICES ASSUME [NextLogging]_loggingVars
             PROVE  [NextLogger]_loggerVars /\ [NextLog]_logVars
  OBVIOUS
<1>1. ASSUME NEW t \in Threads, pc # "aborted", Once(t) /\ UNCHANGED logVars
      PROVE  NextLogger /\ UNCHANGED logVars
  BY <1>1 DEF Once, NextLogger, Output
<1>2. ASSUME NEW t \in Threads, pc # "aborted", EndStart(t)
      PROVE  NextLogger /\ NextLog
  <2>1. NextLogger
    BY <1>2 DEF EndStart, NextLogger
  <2>2. NextLog
    BY <1>2 DEF EndStart, NextLog, InMemory, OwnerWaits
  <2> QED BY <2>1, <2>2
<1>3. ASSUME NEW t \in Threads, pc # "aborted", AppendTo(t)
      PROVE  NextLogger /\ NextLog
  <2>1. NextLogger
    BY <1>3 DEF AppendTo, NextLogger, Output
  <2>2. NextLog
    BY <1>3 DEF AppendTo, NextLog, InMemory
  <2> QED BY <2>1, <2>2
<1>4. ASSUME NEW t \in Threads, pc # "aborted", CallStart(t)
      PROVE  UNCHANGED loggerVars /\ NextLog
  BY <1>4 DEF CallStart, NextLog, InMemory
<1>5. ASSUME NEW t \in Threads, Statement(t), UNCHANGED logVars
      PROVE  NextLogger /\ UNCHANGED logVars
  BY <1>5 DEF NextLogger
<1>6. ASSUME NEW name \in FileNames, SetLogFileName(name), UNCHANGED logVars
      PROVE  NextLogger /\ UNCHANGED logVars
  BY <1>6 DEF NextLogger
<1>7. ASSUME pc # "aborted", BackendRuns
      PROVE  UNCHANGED loggerVars /\ NextLog
  BY <1>7 DEF BackendRuns, NextLog, InMemory
<1>8. CASE UNCHANGED loggingVars
  BY <1>8 DEF loggingVars
<1> QED
  BY <1>1, <1>2, <1>3, <1>4, <1>5, <1>6, <1>7, <1>8 DEF NextLogging, OutputOn

(***************************************************************************)
(* Neither part does anything in the composition that it does not do       *)
(* alone: the log statements of the process are a behaviour of Logger, and *)
(* the one AsyncLogging it makes is one of AsyncLogFile.                   *)
(***************************************************************************)
THEOREM LoggingImplements == LoggingSpec => LoggerSpec /\ LogSpec
<1>1. InitLogging => InitLogger /\ InitLog
  BY DEF InitLogging
<1>2. QED
  BY <1>1, LoggingStepMaps, PTL DEF LoggingSpec, LoggerSpec, LogSpec

(***************************************************************************)
(* What is proved of each part holds of the two together: from the         *)
(* statement to the file, a line is readable, handed to the one logger,    *)
(* and in the file once and in order, or known to be lost.                 *)
(***************************************************************************)
THEOREM LoggingKeepsAll ==
  LoggingSpec => [](/\ LineReadable /\ OneLogger /\ AssertsHold
                    /\ LogIntact /\ FileIntact /\ KillLosesOneRound)
BY LoggingImplements, LogFileImplements, LinesReadable, OneLoggerMade, AssertsNeverFail,
   LogAlwaysIntact, FileAlwaysIntact, OneRoundAtRisk, PTL

(***************************************************************************)
(* The inductive invariant: the flag, the pointer, the caller of start()   *)
(* and running_ go together, and nobody stops the logger.                  *)
(***************************************************************************)
LoggingInv ==
  /\ AppendsToRunning
  /\ AsyncLogger_ = "started" => once_control_ = "done"
  /\ owner \in {"new", "starting", "started"}
  /\ pc # "done"

\* The thread of the logger runs from start() on, whatever step it takes.
LEMMA BackendGoesOn ==
  ASSUME SparesInv, LoggingInv, BackendRuns
  PROVE  /\ UNCHANGED <<loggerVars, appended, running_, owner>>
         /\ pc \notin {"none", "done"} /\ pc' \notin {"none", "entry", "done"}
<1> USE DEF SparesInv, LoggingInv, AppendsToRunning
<1>1. UNCHANGED loggerVars
  BY DEF BackendRuns
<1>2. CASE AppendToFile
  BY <1>1, <1>2 DEF AppendToFile, WriteBuffer, front
<1>3. CASE FlushRound
  BY <1>1, <1>3 DEF FlushRound, Recycle, front
<1>4. CASE CloseFile
  BY <1>1, <1>4 DEF CloseFile, TestRunning, front
<1>5. CASE BackendStart
  BY <1>1, <1>5 DEF BackendStart, front
<1>6. CASE BeginWait
  BY <1>1, <1>6 DEF BeginWait, front
<1>7. CASE TakeAtOnce \/ WaitEnds
  BY <1>1, <1>7 DEF TakeAtOnce, WaitEnds, TakeBuffers
<1>8. CASE Trim
  BY <1>1, <1>8 DEF Trim, front
<1>9. CASE EndWriting
  BY <1>1, <1>9 DEF EndWriting, front
<1>10. CASE running_ /\ TestRunning
  BY <1>1, <1>10 DEF TestRunning, front
<1> QED
  BY <1>2, <1>3, <1>4, <1>5, <1>6, <1>7, <1>8, <1>9, <1>10
     DEF BackendRuns, ToFile, BackendInMemory

\* Every step keeps the invariant.
LEMMA LoggingStep ==
  OnceInv /\ OnceInv' /\ TypeOK /\ SparesInv /\ LoggingInv /\ [NextLogging]_loggingVars
    => LoggingInv'
<1> SUFFICES ASSUME OnceInv, OnceInv', TypeOK, SparesInv, LoggingInv, [NextLogging]_loggingVars
             PROVE  LoggingInv'
  OBVIOUS
<1>0. /\ caller \in [Threads -> CallerPoints] /\ log \in Seq(Threads)
      /\ \A t \in Threads : /\ caller[t] = "new" => once_control_ = "running"
                            /\ caller[t] = "start" => once_control_ = "running"
                            /\ caller[t] = "append" => once_control_ = "done"
      /\ \A t \in Threads : caller'[t] = "append" => once_control_' = "done"
      /\ once_control_ = "done" => AsyncLogger_ = "started"
      /\ once_control_' = "done" => AsyncLogger_' = "started"
      /\ pc = "none" <=> owner = "new"
      /\ owner = "started" => pc # "entry"
  BY DEF OnceInv, LoggerTypeOK, SparesInv
\* Past pthread_once() the logger is started; so that much remains to be shown.
<1>1. ASSUME Len(log') = appended',
             AsyncLogger_' = "started" <=> owner' = "started",
             running_' <=> owner' # "new",
             AsyncLogger_' = "started" => once_control_' = "done",
             owner' \in {"new", "starting", "started"},
             pc' # "done",
             owner' = "started" => pc' \notin {"none", "entry"}
      PROVE  LoggingInv'
  <2>1. \A t \in Threads : caller'[t] = "append" =>
          running_' /\ owner' = "started" /\ pc' \notin {"none", "entry", "done"}
    BY <1>0, <1>1
  <2>2. OneLogger'
    BY OnceInvOne
  <2> QED BY <1>1, <2>1, <2>2 DEF LoggingInv, AppendsToRunning
<1>2. ASSUME NEW t \in Threads, Once(t), UNCHANGED logVars
      PROVE  LoggingInv'
  <2>1. UNCHANGED <<appended, owner, running_, pc, log>>
    BY <1>2 DEF logVars, vars, front, Once, OnceFirst, OncePasses, OnceNew
  <2>2. /\ AsyncLogger_' = "started" <=> AsyncLogger_ = "started"
        /\ AsyncLogger_' = "started" => once_control_' = "done"
    BY <1>0, <1>2 DEF LoggingInv, Once, OnceFirst, OncePasses, OnceNew, Goto
  <2> QED BY <1>0, <1>1, <2>1, <2>2 DEF LoggingInv, AppendsToRunning
<1>3. ASSUME NEW t \in Threads, EndStart(t)
      PROVE  LoggingInv'
  BY <1>0, <1>1, <1>3
     DEF LoggingInv, AppendsToRunning, EndStart, StartReturns, OnceReturns, Goto, front
<1>4. ASSUME NEW t \in Threads, AppendTo(t)
      PROVE  LoggingInv'
  <2>1. Len(log') = Len(log) + 1
    BY <1>0, <1>4, AppendTyped DEF AppendTo, Deliver
  <2> QED
    BY <1>0, <1>1, <1>4, <2>1
       DEF LoggingInv, AppendsToRunning, AppendTo, Deliver, AppendLine
<1>5. ASSUME NEW t \in Threads, CallStart(t)
      PROVE  LoggingInv'
  BY <1>0, <1>1, <1>5
     DEF LoggingInv, AppendsToRunning, CallStart, StartLogging, front, loggerVars
<1>6. ASSUME UNCHANGED <<AsyncLogger_, once_control_, log>>, UNCHANGED logVars
      PROVE  LoggingInv'
  BY <1>0, <1>1, <1>6 DEF LoggingInv, AppendsToRunning, logVars, vars, front
<1>7. ASSUME NEW t \in Threads, Statement(t), UNCHANGED logVars
      PROVE  LoggingInv'
  BY <1>6, <1>7 DEF Statement, MakeLogger, Stream, EndLine
<1>8. ASSUME NEW name \in FileNames, SetLogFileName(name), UNCHANGED logVars
      PROVE  LoggingInv'
  BY <1>6, <1>8 DEF SetLogFileName
<1>9. ASSUME BackendRuns
      PROVE  LoggingInv'
  <2>1. /\ UNCHANGED <<loggerVars, appended, running_, owner>>
        /\ pc' \notin {"none", "entry", "done"}
    BY <1>9, BackendGoesOn
  <2> QED BY <1>1, <2>1 DEF LoggingInv, AppendsToRunning, loggerVars
<1>10. CASE UNCHANGED loggingVars
  BY <1>6, <1>10 DEF loggingVars, loggerVars
<1> QED
  BY <1>2, <1>3, <1>4, <1>5, <1>7, <1>8, <1>9, <1>10 DEF NextLogging, OutputOn

(***************************************************************************)
(* Whichever threads log first, a line is appended only while the thread   *)
(* that writes the file runs, past its own assertion on running_, and the  *)
(* lines appended are those of the statements.                             *)
(***************************************************************************)
THEOREM AppendedWhileRunning == LoggingSpec => []AppendsToRunning
<1>1. InitLogging => LoggingInv
  <2> SUFFICES ASSUME InitLogging PROVE LoggingInv
    OBVIOUS
  <2>1. \A t \in Threads : caller[t] = "run"
    BY DEF InitLogging, InitLogger
  <2>2. OneLogger
    BY <2>1, EmptySeq
       DEF InitLogging, InitLogger, OneLogger, LoggerTypeOK, CallerPoints
  <2> QED
    BY <2>1, <2>2, EmptySeq DEF InitLogging, InitLogger, InitLog, Init, LoggingInv, AppendsToRunning
<1>2. OnceInv /\ OnceInv' /\ TypeOK /\ SparesInv /\ LoggingInv /\ [NextLogging]_loggingVars
        => LoggingInv'
  BY LoggingStep
<1>3. LoggingInv => AppendsToRunning
  BY DEF LoggingInv
<1> QED
  BY <1>1, <1>2, <1>3, OnceAlways, LoggingImplements, LogFileImplements,
     SparesInvInductive, PTL DEF LoggingSpec
=============================================================================
