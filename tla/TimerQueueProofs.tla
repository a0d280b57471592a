-------------------------- MODULE TimerQueueProofs --------------------------
(***************************************************************************)
(* Proofs about TimerQueue.tla, for any number of timers, any clock and    *)
(* any queue of closures: the state stays typed, the timerfd covers the    *)
(* first entry, and, where callbacks leave alone the timers that expired   *)
(* with them, no assertion fails and every Timer is in one place.          *)
(***************************************************************************)
EXTENDS TimerQueue, FiniteSetTheorems, WellFoundedInduction, TLAPS

-----------------------------------------------------------------------------
(* The first entry.                                                        *)

\* A nonempty set of naturals has a least element.
LEMMA LeastNat ==
  ASSUME NEW T, T \subseteq Nat, T # {}
  PROVE  \E x \in T : \A y \in T : x <= y
<1> DEFINE R == {ss \in Nat \X Nat : ss[1] < ss[2]}
<1>1. IsWellFoundedOn(R, Nat)
  BY NatLessThanWellFounded DEF OpToRel
<1>2. \E x \in T : \A y \in T : <<y, x>> \notin R
  <2> HIDE DEF R
  <2> QED BY <1>1, WFMin
<1>3. PICK x \in T : \A y \in T : <<y, x>> \notin R
  BY <1>2
<1>4. ASSUME NEW y \in T
      PROVE  x <= y
  <2>1. <<y, x>> \in Nat \X Nat /\ ~(<<y, x>>[1] < <<y, x>>[2])
    BY <1>3
  <2> QED BY <2>1
<1> QED BY <1>4

LEMMA EntryType ==
  \A e \in Entry : /\ e[1] \in Times /\ e[1] \in Nat
                   /\ e[2] \in Timers /\ e[2] \in Nat
                   /\ e = <<e[1], e[2]>>
<1>1. \A e \in Entry : e[1] \in Times /\ e[2] \in Timers /\ e = <<e[1], e[2]>>
  BY DEF Entry
<1>2. Times \subseteq Nat
  BY TimerQueueAssumption DEF Times
<1>3. Timers \subseteq Nat
  BY TimerQueueAssumption
<1> QED BY <1>1, <1>2, <1>3

\* A nonempty set of entries has a first one, by instant and then by address.
LEMMA FirstIsFirst ==
  ASSUME NEW S, S \subseteq Entry, S # {}
  PROVE  /\ First(S) \in S
         /\ \A f \in S : Before(First(S), f)
<1> DEFINE Instants == {e[1] : e \in S}
<1>1. Instants \subseteq Nat /\ Instants # {}
  BY TimerQueueAssumption DEF Entry, Times
<1>2. PICK w \in Instants : \A v \in Instants : w <= v
  <2> HIDE DEF Instants
  <2> QED BY <1>1, LeastNat
<1> DEFINE Addresses == {e[2] : e \in {f \in S : f[1] = w}}
<1>3. Addresses \subseteq Nat /\ Addresses # {}
  BY TimerQueueAssumption DEF Entry, Times
<1>4. PICK t \in Addresses : \A u \in Addresses : t <= u
  <2> HIDE DEF Addresses
  <2> QED BY <1>3, LeastNat
<1>5. PICK e \in S : e[1] = w /\ e[2] = t
  BY <1>4
<1>6. ASSUME NEW f \in S
      PROVE  Before(e, f)
  <2>1. /\ e[1] \in Nat /\ f[1] \in Nat
        /\ e[2] \in Nat /\ f[2] \in Nat
    BY <1>5, <1>6, EntryType
  <2>2. e[1] <= f[1]
    BY <1>2, <1>5
  <2>3. f[1] = e[1] => e[2] <= f[2]
    BY <1>4, <1>5
  <2> QED BY <2>1, <2>2, <2>3 DEF Before
<1> QED BY <1>6 DEF First
-----------------------------------------------------------------------------
(* The inductive invariant.                                                *)

\* No callback cancels a timer that handleRead() has still to look at.
LeaveExpired == CancelsExpired = FALSE

Adds == {i \in DOMAIN tasks : tasks[i].op = "add"}
Cancels == {i \in DOMAIN tasks : tasks[i].op = "cancel"}

HasEntry(t) == \E e \in timers_ \cup batch : e[2] = t
HasAdd(t) == \E i \in Adds : tasks[i].timer = t

(***************************************************************************)
(* An entry is that of an existing timer and carries its instant, so that  *)
(* a set holds one entry of a timer at most; no entry is in both sets.     *)
(***************************************************************************)
EntriesInv ==
  /\ \A e \in timers_ \cup batch : e[2] \in DOMAIN timer /\ timer[e[2]].when = e[1]
  /\ timers_ \cap batch = {}
  /\ \A e \in batch : e[1] <= expiredAt
  /\ pc = "callback" => current \in DOMAIN timer /\ ~HasEntry(current)

(***************************************************************************)
(* The closures that wait: a timer that is to be added is nowhere else,    *)
(* one that is to be cancelled is a repeating one that nobody else can     *)
(* cancel, and it is cancelled after it is added.                          *)
(***************************************************************************)
TasksInv ==
  /\ \A i \in DOMAIN tasks : tasks[i].timer \in DOMAIN timer
  /\ \A i \in Adds : /\ timer[tasks[i].timer].holder # "loop"
                     /\ ~HasEntry(tasks[i].timer)
                     /\ current # tasks[i].timer
  /\ \A i \in Cancels : /\ timer[tasks[i].timer].holder = "none"
                        /\ timer[tasks[i].timer].interval # 0
  /\ \A i, j \in Adds : tasks[i].timer = tasks[j].timer => i = j
  /\ \A i, j \in Cancels : tasks[i].timer = tasks[j].timer => i = j
  /\ \A i \in Adds, j \in Cancels : tasks[i].timer = tasks[j].timer => i < j

\* No timer is lost.
HeldInv == \A t \in DOMAIN timer : HasEntry(t) \/ current = t \/ HasAdd(t)

TimersInv ==
  /\ TypeOK
  /\ AssertionsHold
  /\ EntriesInv
  /\ TasksInv
  /\ HeldInv

\* The entries outside the handler: the timerfd is armed in time for the first.
CoverInv == TypeOK /\ TimerfdCoversFirst
-----------------------------------------------------------------------------
(* Type correctness.                                                       *)

LEMMA AfterType ==
  ASSUME NEW w \in Times, NEW d \in Intervals \cup {0, 1}
  PROVE  After(w, d) \in Times /\ After(w, d) >= w
BY TimerQueueAssumption DEF After, Times

LEMMA ExpiryType ==
  ASSUME now \in Times, NEW w \in Times
  PROVE  Expiry(w) \in Times
BY AfterType DEF Expiry

\* The timers that a Delete() leaves are those there were.
LEMMA DeleteTimer ==
  ASSUME NEW t
  PROVE  /\ DOMAIN Delete(t) = DOMAIN timer \ {t}
         /\ \A u \in DOMAIN timer \ {t} : Delete(t)[u] = timer[u]
BY DEF Delete

\* The timerfd is armed for an instant of the clock whenever a timer is inserted.
LEMMA InsertType ==
  ASSUME TypeOK, NEW t \in Timers, NEW when \in Times, Insert(t, when)
  PROVE  timers_' \subseteq Entry /\ armed' \in Times \cup {Disarmed}
BY ExpiryType DEF Insert, TypeOK, Entry

LEMMA TypeStep == TypeOK /\ [Next]_vars => TypeOK'
<1> SUFFICES ASSUME TypeOK, [Next]_vars
             PROVE  TypeOK'
  OBVIOUS
<1> USE TimerQueueAssumption DEF TypeOK, nullptr
<1>1. CASE Tick
  BY <1>1 DEF Tick, Times
<1>2. CASE PollReturns
  BY <1>2 DEF PollReturns
<1>3. CASE HandleRead
  BY <1>3 DEF HandleRead, Due
<1>4. CASE RunTimer
  <2> DEFINE e == First(batch)
             t == e[2]
  <2>1. CASE failed' \in {"useAfterFree", "expired"}
             /\ UNCHANGED <<now, timer, timers_, armed, pc, expiredAt, batch,
                            current, tasks>>
    BY <2>1
  <2>2. CASE /\ t \in DOMAIN timer
             /\ batch' = batch \ {e}
             /\ current' = t
             /\ timer' = IF timer[t].interval = 0
                         THEN [timer EXCEPT ![t].holder = "none"]
                         ELSE timer
             /\ pc' = "callback"
             /\ UNCHANGED <<now, timers_, armed, expiredAt, tasks, failed>>
    <3>1. \A u \in DOMAIN timer' : timer'[u] \in Timer
      BY <2>2 DEF Timer
    <3> HIDE DEF e
    <3>2. DOMAIN timer' = DOMAIN timer /\ t \in Timers
      BY <2>2
    <3> QED BY <2>2, <3>1, <3>2
  <2> QED BY <1>4, <2>1, <2>2 DEF RunTimer, Abort
<1>5. CASE CallbackReturns
  <2>1. CASE current \notin DOMAIN timer
    BY <1>5, <2>1 DEF CallbackReturns, Abort
  <2>2. CASE current \in DOMAIN timer /\ timer[current].interval # 0
    <3> DEFINE next == After(timer[current].when, timer[current].interval)
    <3>1. next \in Times
      BY <2>2, AfterType DEF Timer
    <3>2. Finish([timer EXCEPT ![current].when = next], timers_ \cup {<<next, current>>})
      BY <1>5, <2>2 DEF CallbackReturns
    <3> HIDE DEF next
    <3>3. timers_' \subseteq Entry
      BY <2>2, <3>1, <3>2 DEF Finish, Entry
    <3>4. \A u \in DOMAIN timer' : timer'[u] \in Timer
      BY <2>2, <3>1, <3>2 DEF Finish, Timer
    <3> QED BY <3>2, <3>3, <3>4 DEF Finish
  <2>3. CASE current \in DOMAIN timer /\ timer[current].interval = 0
    <3>1. Finish(Delete(current), timers_)
      BY <1>5, <2>3 DEF CallbackReturns, Finished
    <3> QED BY <3>1, DeleteTimer DEF Finish
  <2> QED BY <2>1, <2>2, <2>3
<1>6. CASE EndHandleRead
  <2>1. timers_ # {} => First(timers_)[1] \in Times
    BY FirstIsFirst DEF Entry
  <2> QED BY <1>6, <2>1, ExpiryType DEF EndHandleRead, Rearmed
<1>7. ASSUME NEW t \in Timers, NEW when \in Times, NEW interval \in Intervals \cup {0},
             AddOnLoop(t, when, interval)
      PROVE  TypeOK'
  <2>1. CASE <<when, t>> \in timers_
    BY <1>7, <2>1 DEF AddOnLoop, Abort
  <2>2. CASE <<when, t>> \notin timers_
    <3>1. /\ timer' = New(t, when, interval, "loop")
          /\ Insert(t, when)
          /\ UNCHANGED <<now, pc, expiredAt, batch, current, tasks, failed>>
      BY <1>7, <2>2 DEF AddOnLoop
    <3>2. [when |-> when, interval |-> interval, holder |-> "loop"] \in Timer
      BY <1>7 DEF Timer
    <3>3. DOMAIN timer' \subseteq Timers
      BY <3>1 DEF New
    <3>4. \A u \in DOMAIN timer' : timer'[u] \in Timer
      BY <3>1, <3>2 DEF New
    <3> QED BY <3>1, <3>3, <3>4, InsertType
  <2> QED BY <2>1, <2>2
<1>8. ASSUME NEW t \in Timers, NEW when \in Times, NEW interval \in Intervals \cup {0},
             AddElsewhere(t, when, interval)
      PROVE  TypeOK'
  <2>1. [when |-> when, interval |-> interval, holder |-> "foreign"] \in Timer
    BY <1>8 DEF Timer
  <2>2. DOMAIN timer' \subseteq Timers /\ \A u \in DOMAIN timer' : timer'[u] \in Timer
    <3>1. timer' = New(t, when, interval, "foreign")
      BY <1>8 DEF AddElsewhere
    <3>2. DOMAIN timer' \subseteq Timers
      BY <3>1 DEF New
    <3>3. \A u \in DOMAIN timer' : timer'[u] \in Timer
      BY <2>1, <3>1 DEF New
    <3> QED BY <3>2, <3>3
  <2>3. tasks' \in Seq(Task) /\ Len(tasks') <= MaxTasks
    BY <1>8 DEF AddElsewhere, Task
  <2> QED BY <1>8, <2>2, <2>3 DEF AddElsewhere
<1>9. ASSUME NEW t \in Timers, CancelOnLoop(t)
      PROVE  TypeOK'
  BY <1>9, DeleteTimer DEF CancelOnLoop, Erase
<1>10. ASSUME NEW t \in Timers, CancelElsewhere(t)
       PROVE  TypeOK'
  <2>1. \A u \in DOMAIN timer' : timer'[u] \in Timer
    BY <1>10 DEF CancelElsewhere, Timer
  <2>2. tasks' \in Seq(Task) /\ Len(tasks') <= MaxTasks
    BY <1>10 DEF CancelElsewhere, Task
  <2> QED BY <1>10, <2>1, <2>2 DEF CancelElsewhere
<1>11. CASE RunTask
  <2> DEFINE t == Head(tasks).timer
  <2>1. CASE failed' \in {"useAfterFree", "inserted"}
             /\ UNCHANGED <<now, timer, timers_, armed, pc, expiredAt, batch,
                            current, tasks>>
    BY <2>1
  <2>2. tasks # <<>> /\ Head(tasks) \in Task
    BY <1>11 DEF RunTask
  <2>3. Tail(tasks) \in Seq(Task) /\ Len(Tail(tasks)) <= MaxTasks
    BY <2>2
  <2>4. CASE /\ Erase(t)
             /\ tasks' = Tail(tasks)
             /\ UNCHANGED <<now, armed, pc, expiredAt, batch, current, failed>>
    BY <2>3, <2>4, DeleteTimer DEF Erase
  <2>5. CASE /\ t \in DOMAIN timer
             /\ Insert(t, timer[t].when)
             /\ tasks' = Tail(tasks)
             /\ UNCHANGED <<now, timer, pc, expiredAt, batch, current, failed>>
    <3>1. t \in Timers /\ timer[t].when \in Times
      BY <2>5 DEF Timer
    <3> QED BY <2>3, <2>5, <3>1, InsertType
  <2> QED BY <1>11, <2>1, <2>4, <2>5 DEF RunTask, Abort
<1>12. CASE UNCHANGED vars
  BY <1>12 DEF vars
<1> QED
  BY <1>1, <1>2, <1>3, <1>4, <1>5, <1>6, <1>7, <1>8, <1>9, <1>10, <1>11, <1>12
     DEF Next, HandlerStep, Add, Cancel

\* The state of the timer queue is typed.
THEOREM TypeCorrect == Spec => []TypeOK
<1>1. Init => TypeOK
  BY TimerQueueAssumption DEF Init, TypeOK, Times, nullptr
<1> QED BY <1>1, TypeStep, PTL DEF Spec
-----------------------------------------------------------------------------
(* The timerfd.                                                            *)

LEMMA ExpiryGrows ==
  ASSUME now \in Times, NEW v \in Times, NEW w \in Times, v <= w
  PROVE  Expiry(v) <= Expiry(w)
BY TimerQueueAssumption DEF Expiry, After, Times

\* Fewer entries start no earlier.
LEMMA FirstOfFewer ==
  ASSUME NEW T, T \subseteq Entry, NEW S, S \subseteq T, S # {}
  PROVE  /\ First(T)[1] \in Times /\ First(S)[1] \in Times
         /\ First(T)[1] <= First(S)[1]
<1>1. T \subseteq Entry /\ S \subseteq Entry /\ T # {}
  OBVIOUS
<1>2. /\ First(T) \in Entry /\ First(S) \in Entry
      /\ Before(First(T), First(S))
  BY <1>1, FirstIsFirst
<1> QED BY <1>2, EntryType DEF Before

\* An entry inserted is first, or the first one is where it was.
LEMMA FirstOfMore ==
  ASSUME NEW T, T \subseteq Entry, NEW e \in Entry, First(T \cup {e}) # e
  PROVE  T # {} /\ First(T)[1] = First(T \cup {e})[1]
<1> DEFINE U == T \cup {e}
           g == First(U)
<1>1. U \subseteq Entry /\ U # {}
  OBVIOUS
<1>2. g \in U /\ \A f \in U : Before(g, f)
  <2> HIDE DEF U
  <2> QED BY <1>1, FirstIsFirst
<1>3. g \in T
  BY <1>2
<1>4. First(T) \in T /\ Before(First(T), g)
  BY <1>3, FirstIsFirst
<1>5. Before(g, First(T))
  BY <1>2, <1>4
<1> HIDE DEF g
<1>6. g[1] \in Nat /\ First(T)[1] \in Nat
  BY <1>3, <1>4, EntryType
<1>7. First(T)[1] = g[1]
  BY <1>4, <1>5, <1>6 DEF Before
<1> QED BY <1>3, <1>7 DEF g

\* While the loop is outside the handler, inserting a timer keeps it covered.
LEMMA InsertCovers ==
  ASSUME CoverInv, pc \in {"idle", "dispatch"}, UNCHANGED now,
         NEW t \in Timers, NEW when \in Times, Insert(t, when)
  PROVE  armed' <= Expiry(First(timers_)[1])'
<1> DEFINE e == <<when, t>>
<1>1. e \in Entry /\ timers_ \subseteq Entry /\ now \in Times
  BY DEF Entry, CoverInv, TypeOK
<1>2. /\ timers_' = timers_ \cup {e}
      /\ armed' = IF First(timers_') = e THEN Expiry(when) ELSE armed
  BY DEF Insert
<1>3. \A w \in Times : Expiry(w)' = Expiry(w) /\ Expiry(w) \in Nat
  <2>1. \A w \in Times : Expiry(w) \in Times
    BY <1>1, ExpiryType
  <2> QED BY <2>1, TimerQueueAssumption DEF Expiry, Times
<1>4. First(timers_') \in Entry
  BY <1>1, <1>2, FirstIsFirst
<1>5. First(timers_')[1] \in Times
  BY <1>4, EntryType
<1>6. Expiry(First(timers_)[1])' = Expiry(First(timers_')[1])
  BY DEF Expiry
<1>7. CASE First(timers_') = e
  BY <1>2, <1>3, <1>6, <1>7
<1>8. CASE First(timers_') # e
  <2>1. timers_ # {} /\ First(timers_)[1] = First(timers_')[1]
    BY <1>1, <1>2, <1>8, FirstOfMore
  <2>2. armed <= Expiry(First(timers_)[1])
    BY <2>1 DEF CoverInv, TimerfdCoversFirst
  <2> QED BY <1>2, <1>6, <1>8, <2>1, <2>2
<1> QED BY <1>7, <1>8

\* Taking entries away keeps the rest covered.
LEMMA FewerCovers ==
  ASSUME CoverInv, pc \in {"idle", "dispatch"}, UNCHANGED <<now, armed>>,
         timers_' \subseteq timers_, timers_' # {}
  PROVE  armed' <= Expiry(First(timers_)[1])'
<1>1. /\ First(timers_)[1] \in Times /\ First(timers_')[1] \in Times
      /\ First(timers_)[1] <= First(timers_')[1]
  BY FirstOfFewer DEF CoverInv, TypeOK
<1>2. Expiry(First(timers_)[1]) <= Expiry(First(timers_')[1])
  BY <1>1, ExpiryGrows DEF CoverInv, TypeOK
<1>3. armed <= Expiry(First(timers_)[1])
  BY DEF CoverInv, TimerfdCoversFirst
<1>4. Expiry(First(timers_)[1])' = Expiry(First(timers_')[1])
  BY DEF Expiry
<1>5. /\ Expiry(First(timers_)[1]) \in Times
      /\ Expiry(First(timers_')[1]) \in Times
  BY <1>1, ExpiryType DEF CoverInv, TypeOK
<1>6. /\ Times \subseteq Nat
      /\ armed \in Nat
  BY TimerQueueAssumption DEF CoverInv, TypeOK, Times, Disarmed
<1>7. Expiry(First(timers_)[1]) \in Nat /\ Expiry(First(timers_')[1]) \in Nat
  BY <1>5, <1>6
<1>8. armed' = armed
  OBVIOUS
<1> QED BY <1>2, <1>3, <1>4, <1>6, <1>7, <1>8

LEMMA CoverStep == CoverInv /\ [Next]_vars => CoverInv'
<1> SUFFICES ASSUME CoverInv, [Next]_vars
             PROVE  CoverInv'
  OBVIOUS
<1>1. TypeOK /\ TypeOK'
  BY TypeStep DEF CoverInv
<1> SUFFICES ASSUME pc' \in {"idle", "dispatch"}, timers_' # {}
             PROVE  armed' <= Expiry(First(timers_)[1])'
  BY <1>1 DEF CoverInv, TimerfdCoversFirst
<1>2. CASE UNCHANGED <<now, timers_, armed>> /\ pc \in {"idle", "dispatch"}
  BY <1>2, FewerCovers
<1>3. CASE Tick
  <2>1. PICK w \in Times : w = First(timers_)[1]
    BY <1>1, <1>3, FirstIsFirst, EntryType DEF Tick, TypeOK
  <2>2. now \in Times /\ armed <= Expiry(w)
    BY <1>1, <1>3, <2>1 DEF Tick, CoverInv, TimerfdCoversFirst, TypeOK
  <2>3. Expiry(w) \in Nat /\ Expiry(w)' \in Nat /\ Expiry(w) <= Expiry(w)'
    BY <1>3, <2>2, TimerQueueAssumption DEF Tick, Expiry, After, Times
  <2>4. Expiry(First(timers_)[1])' = Expiry(w)'
    BY <1>3, <2>1 DEF Tick, Expiry
  <2>5. armed' = armed /\ armed \in Nat
    BY <1>1, <1>3, TimerQueueAssumption DEF Tick, TypeOK, Times, Disarmed
  <2> QED BY <2>2, <2>3, <2>4, <2>5
<1>4. CASE PollReturns
  BY <1>2, <1>4 DEF PollReturns
<1>5. CASE HandleRead
  BY <1>5 DEF HandleRead
<1>6. CASE RunTimer
  <2>1. pc = "expired" /\ pc' \in {"expired", "callback"}
    BY <1>6 DEF RunTimer, Abort
  <2> QED BY <2>1
<1>7. CASE CallbackReturns
  BY <1>7 DEF CallbackReturns, Finish, Abort
<1>8. CASE EndHandleRead
  <2>1. armed' = Expiry(First(timers_)[1]) /\ UNCHANGED <<now, timers_>>
    BY <1>8 DEF EndHandleRead, Rearmed
  <2>2. Expiry(First(timers_)[1])' = Expiry(First(timers_)[1])
    BY <2>1 DEF Expiry
  <2>3. armed' \in Nat
    BY <1>1, TimerQueueAssumption DEF TypeOK, Times, Disarmed
  <2> QED BY <2>1, <2>2, <2>3
<1>9. ASSUME NEW t \in Timers, NEW when \in Times, NEW interval \in Intervals \cup {0},
             AddOnLoop(t, when, interval)
      PROVE  armed' <= Expiry(First(timers_)[1])'
  <2>1. CASE <<when, t>> \in timers_
    BY <1>2, <1>9, <2>1 DEF AddOnLoop, Abort
  <2>2. CASE <<when, t>> \notin timers_
    <3>1. Insert(t, when) /\ UNCHANGED <<now, pc>>
      BY <1>9, <2>2 DEF AddOnLoop
    <3> QED BY <1>9, <3>1, InsertCovers
  <2> QED BY <2>1, <2>2
<1>10. ASSUME NEW t \in Timers, NEW when \in Times, NEW interval \in Intervals \cup {0},
              AddElsewhere(t, when, interval)
       PROVE  armed' <= Expiry(First(timers_)[1])'
  BY <1>2, <1>10 DEF AddElsewhere
<1>11. ASSUME NEW t \in Timers, CancelOnLoop(t)
       PROVE  armed' <= Expiry(First(timers_)[1])'
  BY <1>11, FewerCovers DEF CancelOnLoop, Erase
<1>12. ASSUME NEW t \in Timers, CancelElsewhere(t)
       PROVE  armed' <= Expiry(First(timers_)[1])'
  BY <1>2, <1>12 DEF CancelElsewhere
<1>13. CASE RunTask
  <2> DEFINE t == Head(tasks).timer
  <2>1. CASE UNCHANGED <<now, timers_, armed, pc>>
    BY <1>2, <2>1
  <2>2. CASE Erase(t) /\ UNCHANGED <<now, armed, pc>>
    BY <2>2, FewerCovers DEF Erase
  <2>3. CASE t \in DOMAIN timer /\ Insert(t, timer[t].when) /\ UNCHANGED <<now, pc>>
    <3>1. t \in Timers /\ timer[t].when \in Times
      BY <1>1, <2>3 DEF TypeOK, Timer
    <3> QED BY <2>3, <3>1, InsertCovers
  <2> QED BY <1>13, <2>1, <2>2, <2>3 DEF RunTask, Abort
<1>14. CASE UNCHANGED vars
  BY <1>2, <1>14 DEF vars
<1> QED
  BY <1>3, <1>4, <1>5, <1>6, <1>7, <1>8, <1>9, <1>10, <1>11, <1>12, <1>13, <1>14
     DEF Next, HandlerStep, Add, Cancel

\* No timer is slept through, whatever the callbacks cancel.
THEOREM TimerfdAlwaysCovers == Spec => []TimerfdCoversFirst
<1>1. Init => CoverInv
  BY TimerQueueAssumption DEF Init, CoverInv, TypeOK, TimerfdCoversFirst, Times, nullptr
<1>2. CoverInv => TimerfdCoversFirst
  BY DEF CoverInv
<1> QED BY <1>1, <1>2, CoverStep, PTL DEF Spec
-----------------------------------------------------------------------------
(* The entries, the waiting closures and the heap.                         *)

\* What the waiting closures ask of the timers, when the queue does not change.
LEMMA TasksKept ==
  ASSUME TasksInv, UNCHANGED tasks,
         \A i \in DOMAIN tasks :
           LET t == tasks[i].timer
           IN /\ t \in DOMAIN timer'
              /\ timer'[t].holder \in {timer[t].holder, "none"}
              /\ timer'[t].interval = timer[t].interval,
         \A i \in Adds : ~HasEntry(tasks[i].timer)' /\ current' # tasks[i].timer
  PROVE  TasksInv'
BY DEF TasksInv, Adds, Cancels

LEMMA TaskKinds == TypeOK => \A i \in DOMAIN tasks : i \in Adds \/ i \in Cancels
<1> SUFFICES ASSUME TypeOK, NEW i \in DOMAIN tasks
             PROVE  tasks[i].op \in {"add", "cancel"}
  BY DEF Adds, Cancels
<1>1. tasks[i] \in Task
  BY DEF TypeOK
<1> QED BY <1>1 DEF Task

\* No closure waits for a timer the loop's own code can cancel.
LEMMA NoTaskOfLoop ==
  ASSUME TypeOK, TasksInv, NEW t, timer[t].holder = "loop"
  PROVE  \A i \in DOMAIN tasks : tasks[i].timer # t
BY TaskKinds DEF TasksInv

LEMMA TimersHandleRead == TimersInv /\ HandleRead => TimersInv'
<1> SUFFICES ASSUME TimersInv, HandleRead
             PROVE  TimersInv'
  OBVIOUS
<1>1. TypeOK /\ TypeOK'
  BY TypeStep DEF TimersInv, Next, HandlerStep, AssertionsHold
<1>2. /\ timers_' \cup batch' = timers_ \cup batch
      /\ timers_' \cap batch' = {}
      /\ \A e \in batch' : e[1] <= expiredAt'
      /\ pc' = "expired"
      /\ UNCHANGED <<timer, current, tasks, failed>>
  BY <1>1 DEF HandleRead, Due, TypeOK
<1>3. \A t : HasEntry(t)' <=> HasEntry(t)
  BY <1>2 DEF HasEntry
<1>4. EntriesInv'
  BY <1>2 DEF TimersInv, EntriesInv
<1>5. TasksInv'
  BY <1>2, <1>3 DEF TimersInv, TasksInv, Adds, Cancels
<1>6. HeldInv'
  BY <1>2, <1>3 DEF TimersInv, HeldInv, HasAdd, Adds
<1> QED BY <1>1, <1>2, <1>4, <1>5, <1>6 DEF TimersInv, AssertionsHold

(***************************************************************************)
(* The timer of an entry that was taken exists and has expired, for it was *)
(* cancelled by nobody in the meantime.                                    *)
(***************************************************************************)
LEMMA TimersRunTimer == TimersInv /\ RunTimer => TimersInv'
<1> SUFFICES ASSUME TimersInv, RunTimer
             PROVE  TimersInv'
  OBVIOUS
<1>1. TypeOK /\ TypeOK' /\ failed = "none"
  BY TypeStep DEF TimersInv, Next, HandlerStep, AssertionsHold
<1>2. PICK e \in batch : e = First(batch)
  BY <1>1, FirstIsFirst DEF RunTimer, TypeOK
<1>3. PICK t \in Timers : t = e[2]
  BY <1>1, <1>2, EntryType DEF TypeOK
<1>4. /\ t \in DOMAIN timer /\ timer[t].when = e[1] /\ e[1] <= expiredAt
      /\ timer[t] \in Timer
  BY <1>1, <1>2, <1>3 DEF TimersInv, EntriesInv, TypeOK
<1>5. ~(timer[t].when > expiredAt)
  BY <1>1, <1>4, TimerQueueAssumption DEF TypeOK, Timer, Times
<1>6. /\ batch' = batch \ {e}
      /\ current' = t
      /\ timer' = IF timer[t].interval = 0
                  THEN [timer EXCEPT ![t].holder = "none"]
                  ELSE timer
      /\ pc' = "callback"
      /\ UNCHANGED <<timers_, expiredAt, tasks, failed>>
  BY <1>2, <1>3, <1>4, <1>5 DEF RunTimer, Abort
<1>7. /\ DOMAIN timer' = DOMAIN timer
      /\ \A u \in DOMAIN timer : /\ timer'[u].when = timer[u].when
                                 /\ timer'[u].interval = timer[u].interval
                                 /\ timer'[u].holder \in {timer[u].holder, "none"}
  BY <1>1, <1>4, <1>6 DEF TypeOK, Timer
<1>8. \A f \in timers_ \cup batch : f[2] = t => f = e
  <2> SUFFICES ASSUME NEW f \in timers_ \cup batch, f[2] = t
               PROVE  f = e
    OBVIOUS
  <2>1. timer[f[2]].when = f[1]
    BY DEF TimersInv, EntriesInv
  <2>2. f \in Entry /\ e \in Entry
    BY <1>1 DEF TypeOK
  <2> QED BY <1>3, <1>4, <2>1, <2>2, EntryType
<1>9. ~HasEntry(t)'
  BY <1>2, <1>6, <1>8 DEF HasEntry, TimersInv, EntriesInv
<1>10. EntriesInv'
  BY <1>4, <1>6, <1>7, <1>9 DEF TimersInv, EntriesInv
<1>11. HasEntry(t)
  BY <1>2, <1>3 DEF HasEntry
<1>12. \A u : HasEntry(u)' => HasEntry(u)
  BY <1>6 DEF HasEntry
<1>13. TasksInv'
  <2>1. \A i \in Adds : ~HasEntry(tasks[i].timer)' /\ current' # tasks[i].timer
    BY <1>6, <1>11, <1>12 DEF TimersInv, TasksInv
  <2> QED BY <1>6, <1>7, <2>1, TasksKept DEF TimersInv, TasksInv
<1>14. HeldInv'
  <2>1. \A u \in DOMAIN timer \ {t} : HasEntry(u) => HasEntry(u)'
    BY <1>3, <1>6 DEF HasEntry
  <2>2. current = nullptr
    BY <1>1 DEF RunTimer, TypeOK
  <2>3. \A u \in DOMAIN timer : u # nullptr
    BY <1>1, TimerQueueAssumption DEF TypeOK
  <2> QED BY <1>6, <1>7, <2>1, <2>2, <2>3 DEF TimersInv, HeldInv, HasAdd, Adds
<1> QED BY <1>1, <1>6, <1>10, <1>13, <1>14 DEF TimersInv, AssertionsHold

LEMMA TimersCallbackReturns == TimersInv /\ CallbackReturns => TimersInv'
<1> SUFFICES ASSUME TimersInv, CallbackReturns
             PROVE  TimersInv'
  OBVIOUS
<1>1. TypeOK /\ TypeOK' /\ failed = "none"
  BY TypeStep DEF TimersInv, Next, HandlerStep, AssertionsHold
<1>2. /\ pc = "callback" /\ current \in DOMAIN timer /\ ~HasEntry(current)
      /\ timer[current] \in Timer
  BY <1>1 DEF CallbackReturns, TimersInv, EntriesInv, TypeOK
<1>3. \A i \in Adds : tasks[i].timer # current
  BY DEF TimersInv, TasksInv
<1>4. current # nullptr /\ \A u \in DOMAIN timer : u # nullptr
  BY <1>1, <1>2, TimerQueueAssumption DEF TypeOK
<1>5. CASE timer[current].interval # 0
  <2> DEFINE next == After(timer[current].when, timer[current].interval)
  <2>1. /\ timer' = [timer EXCEPT ![current].when = next]
        /\ timers_' = timers_ \cup {<<next, current>>}
        /\ current' = nullptr
        /\ pc' = "expired"
        /\ UNCHANGED <<expiredAt, batch, tasks, failed>>
    BY <1>2, <1>5 DEF CallbackReturns, Finish
  <2> HIDE DEF next
  <2>2. /\ DOMAIN timer' = DOMAIN timer
        /\ \A u \in DOMAIN timer \ {current} : timer'[u] = timer[u]
        /\ timer'[current].when = next
        /\ timer'[current].holder = timer[current].holder
        /\ timer'[current].interval = timer[current].interval
    BY <1>2, <2>1 DEF Timer
  <2>3. \A u : HasEntry(u)' <=> HasEntry(u) \/ u = current
    <3>1. timers_' \cup batch' = (timers_ \cup batch) \cup {<<next, current>>}
      BY <2>1
    <3>2. <<next, current>>[2] = current
      OBVIOUS
    <3> QED BY <3>1, <3>2, Zenon DEF HasEntry
  <2>4. <<next, current>> \notin batch
    BY <1>2 DEF HasEntry
  <2>5. EntriesInv'
    <3>1. \A e \in timers_ \cup batch : e[2] # current
      BY <1>2 DEF HasEntry
    <3> QED BY <1>2, <2>1, <2>2, <2>4, <3>1 DEF TimersInv, EntriesInv
  <2>6. TasksInv'
    <3>1. \A i \in Adds : ~HasEntry(tasks[i].timer)' /\ current' # tasks[i].timer
      BY <1>3, <1>4, <2>1, <2>3 DEF TimersInv, TasksInv, Adds
    <3>2. \A u \in DOMAIN timer : /\ u \in DOMAIN timer'
                                  /\ timer'[u].holder \in {timer[u].holder, "none"}
                                  /\ timer'[u].interval = timer[u].interval
      BY <2>2
    <3> QED BY <2>1, <3>1, <3>2, TasksKept DEF TimersInv, TasksInv
  <2>7. HeldInv'
    BY <2>1, <2>2, <2>3 DEF TimersInv, HeldInv, HasAdd, Adds
  <2> QED BY <1>1, <2>1, <2>5, <2>6, <2>7 DEF TimersInv, AssertionsHold
<1>6. CASE timer[current].interval = 0
  <2>1. /\ timer' = Delete(current)
        /\ current' = nullptr
        /\ pc' = "expired"
        /\ UNCHANGED <<timers_, expiredAt, batch, tasks, failed>>
    BY <1>2, <1>6 DEF CallbackReturns, Finish, Finished
  <2>2. /\ DOMAIN timer' = DOMAIN timer \ {current}
        /\ \A u \in DOMAIN timer \ {current} : timer'[u] = timer[u]
    BY <2>1 DEF Delete
  <2>3. \A u : HasEntry(u)' <=> HasEntry(u)
    BY <2>1 DEF HasEntry
  <2>4. EntriesInv'
    <3>1. \A e \in timers_ \cup batch : e[2] # current
      BY <1>2 DEF HasEntry
    <3> QED BY <2>1, <2>2, <3>1 DEF TimersInv, EntriesInv
  <2>5. TasksInv'
    <3>2. \A i \in DOMAIN tasks : tasks[i].timer # current
      BY <1>1, <1>3, <1>6, TaskKinds DEF TimersInv, TasksInv
    <3>3. \A i \in Adds : ~HasEntry(tasks[i].timer)' /\ current' # tasks[i].timer
      BY <1>4, <2>1, <2>3 DEF TimersInv, TasksInv, Adds
    <3> QED BY <2>1, <2>2, <3>2, <3>3, TasksKept DEF TimersInv, TasksInv
  <2>6. HeldInv'
    BY <2>1, <2>2, <2>3 DEF TimersInv, HeldInv, HasAdd, Adds
  <2> QED BY <1>1, <2>1, <2>4, <2>5, <2>6 DEF TimersInv, AssertionsHold
<1> QED BY <1>5, <1>6
\* The timers a new one joins keep what they are.
LEMMA Joined ==
  ASSUME NEW t, t \notin DOMAIN timer, NEW when, NEW interval, NEW holder,
         timer' = New(t, when, interval, holder)
  PROVE  /\ DOMAIN timer' = DOMAIN timer \cup {t}
         /\ timer'[t].when = when
         /\ timer'[t].holder = holder
         /\ \A u \in DOMAIN timer : timer'[u] = timer[u]
BY DEF New

LEMMA TimersAddOnLoop ==
  ASSUME TimersInv, NEW t \in Timers, NEW when \in Times,
         NEW interval \in Intervals \cup {0}, AddOnLoop(t, when, interval), TypeOK'
  PROVE  TimersInv'
<1>1. TypeOK /\ TypeOK' /\ failed = "none" /\ t \notin DOMAIN timer
  BY DEF TimersInv, AssertionsHold, AddOnLoop
<1>2. \A e \in timers_ \cup batch : e[2] # t
  BY <1>1 DEF TimersInv, EntriesInv
<1>3. <<when, t>> \notin timers_ \cup batch
  <2>1. <<when, t>>[2] = t
    OBVIOUS
  <2> QED BY <1>2, <2>1
<1>4. /\ timer' = New(t, when, interval, "loop")
      /\ timers_' = timers_ \cup {<<when, t>>}
      /\ UNCHANGED <<pc, expiredAt, batch, current, tasks, failed>>
  BY <1>3 DEF AddOnLoop, Insert
<1>5. /\ DOMAIN timer' = DOMAIN timer \cup {t}
      /\ timer'[t].when = when
      /\ \A u \in DOMAIN timer : timer'[u] = timer[u]
  BY <1>1, <1>4, Joined
<1>6. \A u : HasEntry(u)' <=> HasEntry(u) \/ u = t
  <2>1. timers_' \cup batch' = (timers_ \cup batch) \cup {<<when, t>>}
    BY <1>4
  <2>2. <<when, t>>[2] = t
    OBVIOUS
  <2> QED BY <2>1, <2>2, Zenon DEF HasEntry
<1>7. EntriesInv'
  <2>1. \A e \in timers_' \cup batch' : e \in timers_ \cup batch \/ e = <<when, t>>
    BY <1>4
  <2>2. timers_' \cap batch' = {}
    BY <1>3, <1>4 DEF TimersInv, EntriesInv
  <2>3. \A e \in timers_ \cup batch :
          e[2] \in DOMAIN timer' /\ timer'[e[2]].when = e[1]
    BY <1>5 DEF TimersInv, EntriesInv
  <2>4. /\ \A e \in batch' : e[1] <= expiredAt'
        /\ pc' = "callback" => current' \in DOMAIN timer' /\ ~HasEntry(current)'
    BY <1>1, <1>4, <1>5, <1>6 DEF TimersInv, EntriesInv
  <2>5. <<when, t>>[2] = t /\ <<when, t>>[1] = when
    OBVIOUS
  <2>6. \A e \in timers_' \cup batch' : e[2] \in DOMAIN timer' /\ timer'[e[2]].when = e[1]
    BY <1>5, <2>1, <2>3, <2>5
  <2> QED BY <1>4, <2>2, <2>4, <2>6 DEF EntriesInv
<1>8. TasksInv'
  <2>1. \A i \in Adds : ~HasEntry(tasks[i].timer)' /\ current' # tasks[i].timer
    BY <1>1, <1>4, <1>6 DEF TimersInv, TasksInv, Adds
  <2> QED BY <1>4, <1>5, <2>1, TasksKept DEF TimersInv, TasksInv
<1>9. HeldInv'
  BY <1>4, <1>5, <1>6 DEF TimersInv, HeldInv, HasAdd, Adds
<1> QED BY <1>1, <1>4, <1>7, <1>8, <1>9 DEF TimersInv, AssertionsHold

\* The queue that a closure joins.
LEMMA TasksAppended ==
  ASSUME TypeOK, NEW op \in {"add", "cancel"}, NEW t \in Timers,
         tasks' = Append(tasks, [op |-> op, timer |-> t])
  PROVE  /\ DOMAIN tasks' = DOMAIN tasks \cup {Len(tasks) + 1}
         /\ Len(tasks) + 1 \notin DOMAIN tasks
         /\ \A i \in DOMAIN tasks : /\ i \in Nat /\ i < Len(tasks) + 1
                                    /\ tasks'[i] = tasks[i]
         /\ tasks'[Len(tasks) + 1].op = op
         /\ tasks'[Len(tasks) + 1].timer = t
         /\ Adds' = Adds \cup (IF op = "add" THEN {Len(tasks) + 1} ELSE {})
         /\ Cancels' = Cancels \cup (IF op = "cancel" THEN {Len(tasks) + 1} ELSE {})
<1> DEFINE n == Len(tasks) + 1
<1>1. tasks \in Seq(Task) /\ [op |-> op, timer |-> t] \in Task
  BY DEF TypeOK, Task
<1>2. /\ DOMAIN tasks' = DOMAIN tasks \cup {n}
      /\ n \notin DOMAIN tasks
      /\ \A i \in DOMAIN tasks : i \in Nat /\ i < n /\ tasks'[i] = tasks[i]
      /\ tasks'[n] = [op |-> op, timer |-> t]
  BY <1>1
<1> HIDE DEF n
<1>3. tasks'[n].op = op /\ tasks'[n].timer = t
  BY <1>2
<1>4. /\ Adds' = Adds \cup (IF op = "add" THEN {n} ELSE {})
      /\ Cancels' = Cancels \cup (IF op = "cancel" THEN {n} ELSE {})
  BY <1>2, <1>3 DEF Adds, Cancels
<1> QED BY <1>2, <1>3, <1>4 DEF n

LEMMA TimersAddElsewhere ==
  ASSUME TimersInv, NEW t \in Timers, NEW when \in Times,
         NEW interval \in Intervals \cup {0}, AddElsewhere(t, when, interval), TypeOK'
  PROVE  TimersInv'
<1> DEFINE n == Len(tasks) + 1
<1>1. TypeOK /\ TypeOK' /\ t \notin DOMAIN timer
  BY DEF TimersInv, AddElsewhere
<1>2. /\ timer' = New(t, when, interval, "foreign")
      /\ tasks' = Append(tasks, [op |-> "add", timer |-> t])
      /\ UNCHANGED <<timers_, pc, expiredAt, batch, current, failed>>
  BY DEF AddElsewhere
<1>3. /\ DOMAIN timer' = DOMAIN timer \cup {t}
      /\ timer'[t].holder = "foreign"
      /\ \A u \in DOMAIN timer : timer'[u] = timer[u]
  BY <1>1, <1>2, Joined
<1>4. /\ DOMAIN tasks' = DOMAIN tasks \cup {n}
      /\ n \notin DOMAIN tasks
      /\ \A i \in DOMAIN tasks : i \in Nat /\ i < n /\ tasks'[i] = tasks[i]
      /\ tasks'[n].timer = t
      /\ Adds' = Adds \cup {n}
      /\ Cancels' = Cancels
  BY <1>1, <1>2, TasksAppended
<1> HIDE DEF n
<1>5. \A u : HasEntry(u)' <=> HasEntry(u)
  BY <1>2 DEF HasEntry
<1>6. EntriesInv'
  BY <1>2, <1>3, <1>5 DEF TimersInv, EntriesInv
<1>7. Adds \subseteq DOMAIN tasks /\ Cancels \subseteq DOMAIN tasks
  BY DEF Adds, Cancels
<1>8. ~HasEntry(t) /\ current # t /\ \A i \in DOMAIN tasks : tasks[i].timer # t
  <2>1. current # nullptr => pc = "callback"
    BY <1>1 DEF TypeOK
  <2>2. t # nullptr
    BY TimerQueueAssumption
  <2> QED BY <1>1, <2>1, <2>2 DEF TimersInv, EntriesInv, TasksInv, HasEntry
<1>9. TasksInv'
  <2>1. \A i \in DOMAIN tasks' : tasks'[i].timer \in DOMAIN timer'
    BY <1>3, <1>4 DEF TimersInv, TasksInv
  <2>2. \A i \in Adds' : /\ timer'[tasks'[i].timer].holder # "loop"
                         /\ ~HasEntry(tasks'[i].timer)
                         /\ current # tasks'[i].timer
    BY <1>3, <1>4, <1>7, <1>8 DEF TimersInv, TasksInv
  <2>3. \A i \in Cancels' : /\ timer'[tasks'[i].timer].holder = "none"
                            /\ timer'[tasks'[i].timer].interval # 0
    BY <1>3, <1>4, <1>7 DEF TimersInv, TasksInv
  <2>4. \A i, j \in Adds' : tasks'[i].timer = tasks'[j].timer => i = j
    BY <1>4, <1>7, <1>8 DEF TimersInv, TasksInv
  <2>5. \A i, j \in Cancels' : tasks'[i].timer = tasks'[j].timer => i = j
    BY <1>4, <1>7 DEF TimersInv, TasksInv
  <2>6. \A i \in Adds', j \in Cancels' : tasks'[i].timer = tasks'[j].timer => i < j
    BY <1>4, <1>7, <1>8 DEF TimersInv, TasksInv
  <2> QED BY <1>2, <1>5, <2>1, <2>2, <2>3, <2>4, <2>5, <2>6 DEF TasksInv
<1>10. HeldInv'
  BY <1>2, <1>3, <1>4, <1>5, <1>7 DEF TimersInv, HeldInv, HasAdd
<1> QED BY <1>1, <1>2, <1>6, <1>9, <1>10 DEF TimersInv, AssertionsHold

\* A closure that cancels: its timer is not another's to cancel.
LEMMA TimersCancelElsewhere ==
  ASSUME TimersInv, NEW t \in Timers, CancelElsewhere(t), TypeOK'
  PROVE  TimersInv'
<1> DEFINE n == Len(tasks) + 1
<1>1. TypeOK /\ TypeOK' /\ t \in DOMAIN timer
      /\ timer[t].holder = "foreign" /\ timer[t].interval # 0
  BY DEF TimersInv, CancelElsewhere
<1>2. /\ timer' = [timer EXCEPT ![t].holder = "none"]
      /\ tasks' = Append(tasks, [op |-> "cancel", timer |-> t])
      /\ UNCHANGED <<timers_, pc, expiredAt, batch, current, failed>>
  BY DEF CancelElsewhere
<1>3. /\ DOMAIN timer' = DOMAIN timer
      /\ timer'[t].holder = "none"
      /\ \A u \in DOMAIN timer : /\ timer'[u].when = timer[u].when
                                 /\ timer'[u].interval = timer[u].interval
                                 /\ timer'[u].holder \in {timer[u].holder, "none"}
  BY <1>1, <1>2 DEF TypeOK, Timer
<1>4. /\ DOMAIN tasks' = DOMAIN tasks \cup {n}
      /\ n \notin DOMAIN tasks
      /\ \A i \in DOMAIN tasks : i \in Nat /\ i < n /\ tasks'[i] = tasks[i]
      /\ tasks'[n].timer = t
      /\ Adds' = Adds
      /\ Cancels' = Cancels \cup {n}
  BY <1>1, <1>2, TasksAppended
<1> HIDE DEF n
<1>5. \A u : HasEntry(u)' <=> HasEntry(u)
  BY <1>2 DEF HasEntry
<1>6. EntriesInv'
  BY <1>2, <1>3, <1>5 DEF TimersInv, EntriesInv
<1>7. Adds \subseteq DOMAIN tasks /\ Cancels \subseteq DOMAIN tasks
  BY DEF Adds, Cancels
<1>8. \A i \in Cancels : tasks[i].timer # t
  BY <1>1 DEF TimersInv, TasksInv
<1>9. TasksInv'
  <2>1. \A i \in DOMAIN tasks' : tasks'[i].timer \in DOMAIN timer'
    BY <1>1, <1>3, <1>4 DEF TimersInv, TasksInv
  <2>2. \A i \in Adds' : /\ timer'[tasks'[i].timer].holder # "loop"
                         /\ ~HasEntry(tasks'[i].timer)
                         /\ current # tasks'[i].timer
    <3> SUFFICES ASSUME NEW i \in Adds
                 PROVE  /\ timer'[tasks[i].timer].holder # "loop"
                        /\ ~HasEntry(tasks[i].timer)
                        /\ current # tasks[i].timer
      BY <1>4, <1>7
    <3>1. tasks[i].timer \in DOMAIN timer
      BY <1>7 DEF TimersInv, TasksInv
    <3> QED BY <1>3, <3>1 DEF TimersInv, TasksInv
  <2>3. \A i \in Cancels' : /\ timer'[tasks'[i].timer].holder = "none"
                            /\ timer'[tasks'[i].timer].interval # 0
    <3>1. \A i \in Cancels : tasks[i].timer \in DOMAIN timer
      BY <1>7 DEF TimersInv, TasksInv
    <3> QED BY <1>1, <1>3, <1>4, <1>7, <3>1 DEF TimersInv, TasksInv
  <2>4. \A i, j \in Adds' : tasks'[i].timer = tasks'[j].timer => i = j
    BY <1>4, <1>7 DEF TimersInv, TasksInv
  <2>5. \A i, j \in Cancels' : tasks'[i].timer = tasks'[j].timer => i = j
    BY <1>4, <1>7, <1>8 DEF TimersInv, TasksInv
  <2>6. \A i \in Adds', j \in Cancels' : tasks'[i].timer = tasks'[j].timer => i < j
    BY <1>4, <1>7 DEF TimersInv, TasksInv
  <2> QED BY <1>2, <1>5, <2>1, <2>2, <2>3, <2>4, <2>5, <2>6 DEF TasksInv
<1>10. HeldInv'
  BY <1>2, <1>3, <1>4, <1>5, <1>7 DEF TimersInv, HeldInv, HasAdd
<1> QED BY <1>1, <1>2, <1>6, <1>9, <1>10 DEF TimersInv, AssertionsHold
\* A timer that is erased leaves no entry behind.
LEMMA Erased ==
  ASSUME TypeOK, EntriesInv, NEW t \in DOMAIN timer, Erase(t),
         \A e \in batch : e[2] # t, current # t,
         UNCHANGED <<pc, expiredAt, batch, current>>
  PROVE  /\ EntriesInv'
         /\ DOMAIN timer' = DOMAIN timer \ {t}
         /\ \A u \in DOMAIN timer \ {t} : timer'[u] = timer[u]
         /\ \A u : HasEntry(u)' <=> HasEntry(u) /\ u # t
<1>1. /\ timers_' = timers_ \ {<<timer[t].when, t>>}
      /\ DOMAIN timer' = DOMAIN timer \ {t}
      /\ \A u \in DOMAIN timer \ {t} : timer'[u] = timer[u]
  BY DEF Erase, Delete
<1>2. \A e \in timers_ : e[2] = t => e = <<timer[t].when, t>>
  BY EntryType DEF TypeOK, EntriesInv
<1>3. <<timer[t].when, t>>[2] = t
  OBVIOUS
<1>4. \A u : HasEntry(u)' <=> HasEntry(u) /\ u # t
  <2>1. \A e \in timers_' \cup batch' : e \in timers_ \cup batch /\ e[2] # t
    BY <1>1, <1>2
  <2>2. \A e \in timers_ \cup batch : e[2] # t => e \in timers_' \cup batch'
    BY <1>1, <1>3
  <2> QED BY <2>1, <2>2 DEF HasEntry
<1>5. EntriesInv'
  <2>1. \A e \in timers_' \cup batch' : e \in timers_ \cup batch /\ e[2] # t
    BY <1>1, <1>2
  <2>2. \A e \in timers_' \cup batch' : e[2] \in DOMAIN timer' /\ timer'[e[2]].when = e[1]
    BY <1>1, <2>1 DEF EntriesInv
  <2>3. timers_' \cap batch' = {}
    BY <1>1 DEF EntriesInv
  <2> QED BY <1>1, <1>4, <2>2, <2>3 DEF EntriesInv
<1> QED BY <1>1, <1>4, <1>5

(***************************************************************************)
(* The timer the loop's own code cancels is in timers_: nothing waits for  *)
(* it, and handleRead() has not taken it.                                  *)
(***************************************************************************)
LEMMA TimersCancelOnLoop ==
  ASSUME LeaveExpired, TimersInv, NEW t \in Timers, CancelOnLoop(t), TypeOK'
  PROVE  TimersInv'
<1>1. /\ t \in DOMAIN timer /\ timer[t].holder = "loop"
      /\ current # t /\ \A e \in batch : e[2] # t
      /\ Erase(t)
      /\ UNCHANGED <<pc, expiredAt, batch, current, tasks, failed>>
  BY DEF CancelOnLoop, LeaveExpired, Unfinished
<1>2. TypeOK /\ EntriesInv
  BY DEF TimersInv
<1>3. /\ EntriesInv'
      /\ DOMAIN timer' = DOMAIN timer \ {t}
      /\ \A u \in DOMAIN timer \ {t} : timer'[u] = timer[u]
      /\ \A u : HasEntry(u)' <=> HasEntry(u) /\ u # t
  BY <1>1, <1>2, Erased
<1>4. TasksInv'
  <2>1. \A i \in DOMAIN tasks : tasks[i].timer # t
    BY <1>1, <1>2, NoTaskOfLoop DEF TimersInv
  <2>2. \A i \in Adds : ~HasEntry(tasks[i].timer)' /\ current' # tasks[i].timer
    BY <1>1, <1>3 DEF TimersInv, TasksInv
  <2> QED BY <1>1, <1>3, <2>1, <2>2, TasksKept DEF TimersInv, TasksInv
<1>5. HeldInv'
  BY <1>1, <1>3 DEF TimersInv, HeldInv, HasAdd, Adds
<1> QED BY <1>1, <1>3, <1>4, <1>5 DEF TimersInv, AssertionsHold

\* The queue without its first closure.
LEMMA TasksTail ==
  ASSUME TypeOK, tasks # <<>>, tasks' = Tail(tasks)
  PROVE  /\ 1 \in DOMAIN tasks /\ tasks[1] = Head(tasks)
         /\ DOMAIN tasks \subseteq Nat \ {0}
         /\ \A i \in DOMAIN tasks' : /\ i \in Nat \ {0} /\ i + 1 \in DOMAIN tasks
                                     /\ tasks'[i] = tasks[i + 1]
         /\ \A i \in DOMAIN tasks \ {1} : i - 1 \in DOMAIN tasks'
         /\ \A i \in Adds' : i \in DOMAIN tasks' /\ i + 1 \in Adds
         /\ \A i \in Adds \ {1} : i - 1 \in Adds'
         /\ \A i \in Cancels' : i \in DOMAIN tasks' /\ i + 1 \in Cancels
<1>1. tasks \in Seq(Task)
  BY DEF TypeOK
<1>2. /\ 1 \in DOMAIN tasks /\ tasks[1] = Head(tasks)
      /\ DOMAIN tasks \subseteq Nat \ {0}
      /\ \A i \in DOMAIN tasks' : /\ i \in Nat \ {0} /\ i + 1 \in DOMAIN tasks
                                  /\ tasks'[i] = tasks[i + 1]
      /\ \A i \in DOMAIN tasks \ {1} : i - 1 \in DOMAIN tasks'
  BY <1>1
<1>3. \A i \in Adds \ {1} : i - 1 \in Adds'
  <2> SUFFICES ASSUME NEW i \in DOMAIN tasks \ {1}, tasks[i].op = "add"
               PROVE  i - 1 \in DOMAIN tasks' /\ tasks'[i - 1].op = "add"
    BY DEF Adds
  <2>1. i - 1 \in DOMAIN tasks' /\ i \in Nat
    BY <1>2
  <2>2. tasks'[i - 1] = tasks[(i - 1) + 1] /\ (i - 1) + 1 = i
    BY <1>2, <2>1
  <2> QED BY <2>1, <2>2
<1> QED BY <1>2, <1>3 DEF Adds, Cancels

(***************************************************************************)
(* What the closures that are left ask of the timers, when the closure for *)
(* the timer t has been run.                                               *)
(***************************************************************************)
LEMMA TasksRun ==
  ASSUME TypeOK, TasksInv, tasks # <<>>, tasks' = Tail(tasks), NEW t,
         t = Head(tasks).timer, UNCHANGED current,
         \A u \in DOMAIN timer \ {t} : /\ u \in DOMAIN timer' /\ timer'[u] = timer[u]
                                       /\ HasEntry(u)' <=> HasEntry(u),
         \/ \A i \in DOMAIN tasks \ {1} : tasks[i].timer # t
         \/ /\ 1 \in Adds
            /\ t \in DOMAIN timer' /\ timer'[t] = timer[t]
  PROVE  TasksInv'
<1>1. /\ 1 \in DOMAIN tasks /\ tasks[1].timer = t
      /\ DOMAIN tasks \subseteq Nat \ {0}
      /\ \A i \in DOMAIN tasks' : /\ i \in Nat \ {0} /\ i + 1 \in DOMAIN tasks
                                  /\ tasks'[i] = tasks[i + 1]
      /\ \A i \in Adds' : i \in DOMAIN tasks' /\ i + 1 \in Adds
      /\ \A i \in Cancels' : i \in DOMAIN tasks' /\ i + 1 \in Cancels
  BY TasksTail
<1>2. \A i \in Nat \ {0} : i + 1 # 1
  OBVIOUS
<1>3. \A i \in DOMAIN tasks : tasks[i].timer \in DOMAIN timer
  BY DEF TasksInv
<1>4. \A i \in DOMAIN tasks' : LET u == tasks'[i].timer
                               IN u \in DOMAIN timer' /\ timer'[u] = timer[u]
  BY <1>1, <1>2, <1>3
<1>5. \A i \in Adds' : tasks'[i].timer # t
  BY <1>1, <1>2 DEF TasksInv
<1>6. \A i \in Adds' : /\ timer'[tasks'[i].timer].holder # "loop"
                       /\ ~HasEntry(tasks[i].timer)'
                       /\ current' # tasks'[i].timer
  <2> SUFFICES ASSUME NEW i \in Adds'
               PROVE  /\ timer'[tasks'[i].timer].holder # "loop"
                      /\ ~HasEntry(tasks[i].timer)'
                      /\ current' # tasks'[i].timer
    OBVIOUS
  <2>1. PICK u \in DOMAIN timer : u = tasks[i + 1].timer /\ u = tasks'[i].timer
    BY <1>1, <1>3
  <2>2. HasEntry(tasks[i].timer)' <=> HasEntry(u)'
    BY <2>1 DEF HasEntry
  <2>3. u # t /\ ~HasEntry(u) /\ timer[u].holder # "loop" /\ current # u
    BY <1>1, <1>5, <2>1 DEF TasksInv
  <2> QED BY <2>1, <2>2, <2>3
<1>7. \A i \in Cancels' : /\ timer'[tasks'[i].timer].holder = "none"
                          /\ timer'[tasks'[i].timer].interval # 0
  BY <1>1, <1>4 DEF TasksInv
<1>8. \A i, j \in Adds' : tasks'[i].timer = tasks'[j].timer => i = j
  <2> SUFFICES ASSUME NEW i \in Adds', NEW j \in Adds', tasks'[i].timer = tasks'[j].timer
               PROVE  i = j
    OBVIOUS
  <2>1. i + 1 = j + 1 /\ i \in Nat /\ j \in Nat
    BY <1>1 DEF TasksInv
  <2> QED BY <2>1
<1>9. \A i, j \in Cancels' : tasks'[i].timer = tasks'[j].timer => i = j
  <2> SUFFICES ASSUME NEW i \in Cancels', NEW j \in Cancels',
                      tasks'[i].timer = tasks'[j].timer
               PROVE  i = j
    OBVIOUS
  <2>1. i + 1 = j + 1 /\ i \in Nat /\ j \in Nat
    BY <1>1 DEF TasksInv
  <2> QED BY <2>1
<1>10. \A i \in Adds', j \in Cancels' : tasks'[i].timer = tasks'[j].timer => i < j
  <2> SUFFICES ASSUME NEW i \in Adds', NEW j \in Cancels',
                      tasks'[i].timer = tasks'[j].timer
               PROVE  i < j
    OBVIOUS
  <2>1. i + 1 < j + 1 /\ i \in Nat /\ j \in Nat
    BY <1>1 DEF TasksInv
  <2> QED BY <2>1
<1> QED BY <1>4, <1>6, <1>7, <1>8, <1>9, <1>10 DEF TasksInv
(***************************************************************************)
(* A closure that runs finds its timer: one to be added has no entry yet,  *)
(* one to be cancelled has been added before.                              *)
(***************************************************************************)
LEMMA TimersRunTask == TimersInv /\ RunTask => TimersInv'
<1> SUFFICES ASSUME TimersInv, RunTask
             PROVE  TimersInv'
  OBVIOUS
<1>1. /\ TypeOK /\ TypeOK' /\ EntriesInv /\ TasksInv /\ HeldInv /\ failed = "none"
      /\ pc = "idle" /\ tasks # <<>>
  BY TypeStep DEF TimersInv, Next, RunTask, AssertionsHold
<1>2. tasks' = Tail(tasks) =>
        /\ 1 \in DOMAIN tasks /\ tasks[1] = Head(tasks)
        /\ DOMAIN tasks \subseteq Nat \ {0}
        /\ \A i \in Adds \ {1} : i - 1 \in Adds' /\ tasks'[i - 1].timer = tasks[i].timer
  <2> SUFFICES ASSUME tasks' = Tail(tasks)
               PROVE  /\ 1 \in DOMAIN tasks /\ tasks[1] = Head(tasks)
                      /\ DOMAIN tasks \subseteq Nat \ {0}
                      /\ \A i \in Adds \ {1} : /\ i - 1 \in Adds'
                                               /\ tasks'[i - 1].timer = tasks[i].timer
    OBVIOUS
  <2>1. \A i \in Adds \ {1} : /\ i \in Nat /\ i - 1 \in Adds'
                              /\ tasks'[i - 1] = tasks[(i - 1) + 1]
    BY <1>1, TasksTail DEF Adds
  <2> QED BY <1>1, <2>1, TasksTail
<1>3. Head(tasks) = tasks[1] /\ 1 \in DOMAIN tasks /\ tasks[1] \in Task
  BY <1>1 DEF TypeOK
<1>4. PICK t \in DOMAIN timer : t = Head(tasks).timer
  BY <1>1, <1>3 DEF TasksInv
<1>5. t \in Timers /\ timer[t] \in Timer /\ batch = {} /\ current = nullptr /\ t # nullptr
  BY <1>1, TimerQueueAssumption DEF TypeOK
<1>6. CASE Head(tasks).op = "cancel"
  <2>1. /\ Erase(t)
        /\ tasks' = Tail(tasks)
        /\ UNCHANGED <<pc, expiredAt, batch, current, failed>>
    BY <1>4, <1>6 DEF RunTask
  <2>2. /\ EntriesInv'
        /\ DOMAIN timer' = DOMAIN timer \ {t}
        /\ \A u \in DOMAIN timer \ {t} : timer'[u] = timer[u]
        /\ \A u : HasEntry(u)' <=> HasEntry(u) /\ u # t
    BY <1>1, <1>5, <2>1, Erased
  <2>3. 1 \in Cancels /\ 1 \notin Adds
    BY <1>3, <1>6 DEF Adds, Cancels
  <2>4. \A i \in DOMAIN tasks \ {1} : tasks[i].timer # t
    <3> SUFFICES ASSUME NEW i \in DOMAIN tasks \ {1}, tasks[i].timer = t
                 PROVE  FALSE
      OBVIOUS
    <3>1. i \notin Cancels
      BY <1>1, <1>3, <1>4, <2>3 DEF TasksInv
    <3>2. i \in Adds
      BY <1>1, <3>1, TaskKinds
    <3>3. i < 1 /\ i \in Nat \ {0}
      BY <1>1, <1>2, <1>3, <1>4, <2>1, <2>3, <3>2 DEF TasksInv
    <3> QED BY <3>3
  <2>5. TasksInv'
    BY <1>1, <1>4, <2>1, <2>2, <2>4, TasksRun
  <2>6. HeldInv'
    <3> SUFFICES ASSUME NEW u \in DOMAIN timer \ {t}
                 PROVE  HasEntry(u)' \/ current' = u \/ HasAdd(u)'
      BY <2>2 DEF HeldInv
    <3>1. CASE HasEntry(u)
      BY <2>2, <3>1
    <3>2. CASE HasAdd(u)
      <4>1. PICK i \in Adds \ {1} : tasks[i].timer = u
        BY <2>3, <3>2 DEF HasAdd
      <4> QED BY <1>2, <2>1, <4>1 DEF HasAdd
    <3> QED BY <1>1, <2>1, <3>1, <3>2 DEF HeldInv
  <2> QED BY <1>1, <2>1, <2>2, <2>5, <2>6 DEF TimersInv, AssertionsHold
<1>7. CASE Head(tasks).op # "cancel"
  <2>1. 1 \in Adds
    BY <1>3, <1>7 DEF Adds, Task
  <2>2. ~HasEntry(t)
    BY <1>1, <1>3, <1>4, <2>1 DEF TasksInv
  <2> DEFINE e == <<timer[t].when, t>>
  <2>3. e[1] = timer[t].when /\ e[2] = t
    OBVIOUS
  <2>4. e \notin timers_ \cup batch
    BY <2>2, <2>3 DEF HasEntry
  <2>5. /\ timers_' = timers_ \cup {e}
        /\ tasks' = Tail(tasks)
        /\ UNCHANGED <<timer, pc, expiredAt, batch, current, failed>>
    BY <1>4, <1>7, <2>4 DEF RunTask, Insert
  <2>6. timers_' \cup batch' = (timers_ \cup batch) \cup {e}
    BY <2>5
  <2> HIDE DEF e
  <2>7. \A u : HasEntry(u)' <=> HasEntry(u) \/ u = t
    BY <2>3, <2>6, Zenon DEF HasEntry
  <2>8. EntriesInv'
    BY <1>1, <1>5, <2>3, <2>4, <2>5, <2>6 DEF EntriesInv
  <2>9. TasksInv'
    BY <1>1, <1>4, <2>1, <2>5, <2>7, TasksRun
  <2>10. HeldInv'
    <3> SUFFICES ASSUME NEW u \in DOMAIN timer
                 PROVE  HasEntry(u)' \/ current' = u \/ HasAdd(u)'
      BY <2>5 DEF HeldInv
    <3>1. CASE HasEntry(u) \/ u = t
      BY <2>7, <3>1
    <3>2. CASE HasAdd(u) /\ u # t
      <4>1. PICK i \in Adds \ {1} : tasks[i].timer = u
        BY <1>3, <1>4, <3>2 DEF HasAdd
      <4> QED BY <1>2, <2>5, <4>1 DEF HasAdd
    <3> QED BY <1>1, <2>5, <3>1, <3>2 DEF HeldInv
  <2> QED BY <1>1, <2>5, <2>8, <2>9, <2>10 DEF TimersInv, AssertionsHold
<1> QED BY <1>6, <1>7

LEMMA TimersStep ==
  ASSUME LeaveExpired
  PROVE  TimersInv /\ [Next]_vars => TimersInv'
<1> SUFFICES ASSUME TimersInv, [Next]_vars
             PROVE  TimersInv'
  OBVIOUS
<1>1. TypeOK'
  BY TypeStep DEF TimersInv
<1>2. CASE /\ UNCHANGED <<timer, timers_, expiredAt, batch, current, tasks, failed>>
           /\ pc' = "callback" => pc = "callback"
  <2>1. \A t : HasEntry(t)' <=> HasEntry(t)
    BY <1>2 DEF HasEntry
  <2>2. EntriesInv' /\ TasksInv' /\ HeldInv'
    BY <1>2, <2>1
       DEF TimersInv, EntriesInv, TasksInv, HeldInv, HasAdd, Adds, Cancels
  <2> QED BY <1>1, <1>2, <2>2 DEF TimersInv, AssertionsHold
<1>3. CASE Tick
  BY <1>2, <1>3 DEF Tick
<1>4. CASE PollReturns
  BY <1>2, <1>4 DEF PollReturns
<1>5. CASE EndHandleRead
  BY <1>2, <1>5 DEF EndHandleRead
<1>6. CASE UNCHANGED vars
  BY <1>2, <1>6 DEF vars
<1>7. CASE HandleRead \/ RunTimer \/ CallbackReturns \/ RunTask
  BY <1>7, TimersHandleRead, TimersRunTimer, TimersCallbackReturns, TimersRunTask
<1>8. CASE Add
  BY <1>1, <1>8, TimersAddOnLoop, TimersAddElsewhere DEF Add
<1>9. CASE Cancel
  BY <1>1, <1>9, TimersCancelOnLoop, TimersCancelElsewhere DEF Cancel
<1> QED BY <1>3, <1>4, <1>5, <1>6, <1>7, <1>8, <1>9 DEF Next, HandlerStep

LEMMA TimersInit == Init => TimersInv
<1> SUFFICES ASSUME Init
             PROVE  TimersInv
  OBVIOUS
<1>1. TypeOK
  BY TimerQueueAssumption DEF Init, TypeOK, Times, nullptr
<1>2. DOMAIN timer = {} /\ DOMAIN tasks = {}
  BY DEF Init
<1> QED BY <1>1, <1>2
        DEF Init, TimersInv, AssertionsHold, EntriesInv, TasksInv, HeldInv, Adds, Cancels

(***************************************************************************)
(* Where callbacks leave alone the timers that expired with them, no       *)
(* assertion of addTimer() and handleRead() fails and no deleted Timer is  *)
(* touched, in any order of adds, cancels and expirations on any threads.  *)
(***************************************************************************)
THEOREM AssertionsNeverFail ==
  ASSUME LeaveExpired
  PROVE  Spec => []AssertionsHold
<1>1. TimersInv => AssertionsHold
  BY DEF TimersInv
<1> QED BY <1>1, TimersInit, TimersStep, PTL DEF Spec
LEMMA AtMostOne ==
  ASSUME NEW S, \A x, y \in S : x = y
  PROVE  Cardinality(S) = IF S = {} THEN 0 ELSE 1
<1>1. CASE S = {}
  BY <1>1, FS_EmptySet
<1>2. CASE S # {}
  <2>1. PICK x \in S : S = {x}
    BY <1>2
  <2> QED BY <1>2, <2>1, FS_Singleton
<1> QED BY <1>1, <1>2

LEMMA TimersHeldOnce == TimersInv => EachTimerOnce
<1> SUFFICES ASSUME TimersInv, NEW t \in Timers
             PROVE  References(t) = IF t \in DOMAIN timer THEN 1 ELSE 0
  BY DEF TimersInv, EntriesInv, EachTimerOnce
<1> DEFINE Waiting == {e \in timers_ : e[2] = t}
           Taken == {e \in batch : e[2] = t}
           Queued == {i \in DOMAIN tasks : tasks[i].timer = t /\ tasks[i].op = "add"}
           Run == IF current = t THEN 1 ELSE 0
<1>1. TypeOK /\ EntriesInv /\ TasksInv /\ HeldInv
  BY DEF TimersInv
<1>2. \A x, y \in timers_ \cup batch : x[2] = t /\ y[2] = t => x = y
  <2> SUFFICES ASSUME NEW x \in timers_ \cup batch, NEW y \in timers_ \cup batch,
                      x[2] = t, y[2] = t
               PROVE  x = y
    OBVIOUS
  <2>1. x[1] = timer[t].when /\ y[1] = timer[t].when
    BY <1>1 DEF EntriesInv
  <2> QED BY <1>1, <2>1, EntryType DEF TypeOK
<1>3. \A i, j \in Queued : i = j
  BY <1>1 DEF TasksInv, Adds
<1>4. /\ Cardinality(Waiting) = IF Waiting = {} THEN 0 ELSE 1
      /\ Cardinality(Taken) = IF Taken = {} THEN 0 ELSE 1
      /\ Cardinality(Queued) = IF Queued = {} THEN 0 ELSE 1
  <2>1. /\ \A x, y \in Waiting : x = y
        /\ \A x, y \in Taken : x = y
    BY <1>2
  <2> HIDE DEF Waiting, Taken, Queued
  <2> QED BY <1>3, <2>1, AtMostOne
<1>5. References(t) = Cardinality(Waiting) + Cardinality(Taken) + Run + Cardinality(Queued)
  BY DEF References
<1>6. Waiting # {} \/ Taken # {} <=> HasEntry(t)
  BY DEF HasEntry
<1>7. Queued # {} <=> HasAdd(t)
  BY DEF HasAdd, Adds
<1>8. ~(Waiting # {} /\ Taken # {})
  BY <1>1, <1>2 DEF EntriesInv
<1>9. current = t => t \in DOMAIN timer /\ ~HasEntry(t)
  BY <1>1, TimerQueueAssumption DEF TypeOK, EntriesInv
<1>10. HasEntry(t) => t \in DOMAIN timer
  BY <1>1 DEF EntriesInv, HasEntry
<1>11. HasAdd(t) => t \in DOMAIN timer /\ ~HasEntry(t) /\ current # t
  BY <1>1 DEF TasksInv, HasAdd, Adds
<1>12. t \in DOMAIN timer => HasEntry(t) \/ current = t \/ HasAdd(t)
  BY <1>1 DEF HeldInv
<1> HIDE DEF Waiting, Taken, Queued
<1> QED BY <1>4, <1>5, <1>6, <1>7, <1>8, <1>9, <1>10, <1>11, <1>12

(***************************************************************************)
(* No Timer leaks, is deleted twice or runs twice for one expiration: a    *)
(* Timer is in timers_, or in what handleRead() has taken, or running, or  *)
(* in a closure that will add it, and in one of these only.                *)
(***************************************************************************)
THEOREM TimersInOnePlace ==
  ASSUME LeaveExpired
  PROVE  Spec => []EachTimerOnce
BY TimersInit, TimersStep, TimersHeldOnce, PTL DEF Spec
=============================================================================
