-------------------------- MODULE EventLoopProofs ---------------------------
(***************************************************************************)
(* Proofs about EventLoop.tla, for any set of foreign threads, any set of  *)
(* tasks and any bound on the calls of quit().                             *)
(***************************************************************************)
EXTENDS EventLoop, SequenceTheorems, TLAPS

(***************************************************************************)
(* Appending adds exactly the new element to the elements of a sequence.   *)
(***************************************************************************)
LEMMA ElementsAppend ==
  ASSUME NEW S, NEW s \in Seq(S), NEW e \in S
  PROVE  Elements(Append(s, e)) = Elements(s) \cup {e}
<1>1. /\ DOMAIN s = 1 .. Len(s)
      /\ Len(s) \in Nat
      /\ DOMAIN Append(s, e) = 1 .. Len(s) + 1
      /\ \A i \in 1 .. Len(s) : Append(s, e)[i] = s[i]
      /\ Append(s, e)[Len(s) + 1] = e
  BY AppendProperties, LenProperties
<1>2. 1 .. Len(s) + 1 = (1 .. Len(s)) \cup {Len(s) + 1}
  BY <1>1
<1>3. QED
  BY <1>1, <1>2, Zenon DEF Elements

-----------------------------------------------------------------------------
(***************************************************************************)
(* Types, and the pairing of loop()'s data with its program points, hold   *)
(* whatever the interleaving of the loop with its callers.                 *)
(***************************************************************************)
THEOREM TypeCorrect == Spec => []TypeOK
<1>1. Init => TypeOK
  <2> SUFFICES ASSUME Init PROVE TypeOK
    OBVIOUS
  <2>1. <<>> \in Seq(Tasks) /\ 0 \in 0 .. MaxQuits
    BY EventLoopAssumption, EmptySeq
  <2>2. thread \in [Threads -> {"outside", "wakeup"}]
    BY DEF Init
  <2>3. QED
    BY <2>1, <2>2 DEF Init, TypeOK, LoopPoints
<1>2. TypeOK /\ [Next]_vars => TypeOK'
  <2> SUFFICES ASSUME TypeOK, [Next]_vars
               PROVE  TypeOK'
    OBVIOUS
  <2> USE EventLoopAssumption DEF TypeOK
  <2>1. CASE ResetQuit
    BY <2>1 DEF ResetQuit, LoopPoints
  <2>2. CASE TestQuit
    BY <2>2 DEF TestQuit, LoopPoints
  <2>3. CASE HandleWakeup
    BY <2>3 DEF HandleWakeup, LoopPoints
  <2>4. CASE HandleIo
    BY <2>4 DEF HandleIo, LoopPoints
  <2>5. CASE CallReturns
    BY <2>5 DEF CallReturns, LoopPoints
  <2>6. CASE EndDispatch
    BY <2>6 DEF EndDispatch, LoopPoints
  <2>7. CASE SwapPending
    BY <2>7 DEF SwapPending, LoopPoints
  <2>8. CASE RunTask
    <3>1. Head(tasks) \in Tasks /\ Tail(tasks) \in Seq(Tasks)
      BY <2>8, HeadTailProperties DEF RunTask
    <3>2. Append(executed, Head(tasks)) \in Seq(Tasks)
      BY <3>1, AppendProperties
    <3>3. QED
      BY <2>8, <3>1, <3>2 DEF RunTask, LoopPoints
  <2>9. CASE EndPending
    BY <2>9 DEF EndPending, LoopPoints
  <2>10. CASE Poll
    <3>1. PICK ready \in SUBSET Channels : PollReturns(ready)
      BY <2>10 DEF Poll
    <3>2. QED
      BY <3>1 DEF PollReturns, LoopPoints
  <2>11. CASE StartLoop
    BY <2>11 DEF StartLoop, LoopPoints
  <2>12. CASE QuitOnLoop
    BY <2>12 DEF QuitOnLoop
  <2>13. ASSUME NEW t \in Tasks, QueueOnLoop(t)
         PROVE  TypeOK'
    <3>1. Append(pendingTasks_, t) \in Seq(Tasks)
      BY AppendProperties
    <3>2. QED
      BY <2>13, <3>1 DEF QueueOnLoop
  <2>14. ASSUME NEW th \in Threads, Wakeup(th)
         PROVE  TypeOK'
    BY <2>14 DEF Wakeup
  <2>15. ASSUME NEW th \in Threads, QuitElsewhere(th)
         PROVE  TypeOK'
    BY <2>15 DEF QuitElsewhere
  <2>16. ASSUME NEW th \in Threads, NEW t \in Tasks, QueueElsewhere(th, t)
         PROVE  TypeOK'
    <3>1. Append(pendingTasks_, t) \in Seq(Tasks)
      BY AppendProperties
    <3>2. QED
      BY <2>16, <3>1 DEF QueueElsewhere
  <2>17. CASE UNCHANGED vars
    BY <2>17 DEF vars
  <2>18. QED
    BY <2>1, <2>2, <2>3, <2>4, <2>5, <2>6, <2>7, <2>8, <2>9, <2>10, <2>11,
       <2>12, <2>13, <2>14, <2>15, <2>16, <2>17
       DEF Next, LoopStep, OwnerCall, ForeignStep
<1>3. QED
  BY <1>1, <1>2, PTL DEF Spec

-----------------------------------------------------------------------------
(***************************************************************************)
(* Why no wakeup is lost.  Outside the stretch from the return of          *)
(* epoll_wait() to the swap, a pending task that its owner did not queue   *)
(* early has a wakeup behind it; inside the stretch the swap will take it. *)
(* HandleWakeup, the one step that clears the eventfd, is in the stretch.  *)
(***************************************************************************)
WakeupInv ==
  /\ pc \notin {"dispatch", "callback", "swap"} /\ ~(Elements(pendingTasks_) \subseteq early)
       => WakeupComing
  /\ QuitNotSleptOn

\* WakeupInv holds in every state of EventLoop.
LEMMA WakeupInvInductive == Spec => []WakeupInv
<1>1. Init => WakeupInv
  BY DEF Init, WakeupInv, QuitNotSleptOn, Elements
<1>2. TypeOK /\ WakeupInv /\ [Next]_vars => WakeupInv'
  <2> SUFFICES ASSUME TypeOK, WakeupInv, [Next]_vars
               PROVE  WakeupInv'
    OBVIOUS
  <2> USE DEF WakeupInv, WakeupComing, QuitNotSleptOn
  <2>1. CASE ResetQuit
    BY <2>1 DEF ResetQuit
  <2>2. CASE TestQuit
    BY <2>2 DEF TestQuit
  <2>3. CASE HandleWakeup
    BY <2>3 DEF HandleWakeup
  <2>4. CASE HandleIo
    BY <2>4 DEF HandleIo
  <2>5. CASE CallReturns
    BY <2>5 DEF CallReturns
  <2>6. CASE EndDispatch
    BY <2>6 DEF EndDispatch
  <2>7. CASE SwapPending
    BY <2>7 DEF SwapPending, Elements
  <2>8. CASE RunTask
    BY <2>8 DEF RunTask
  <2>9. CASE EndPending
    BY <2>9 DEF EndPending
  <2>10. CASE Poll
    BY <2>10 DEF Poll, PollReturns
  <2>11. CASE StartLoop
    BY <2>11 DEF StartLoop
  <2>12. CASE QuitOnLoop
    BY <2>12 DEF QuitOnLoop, InUserCode
  <2>13. ASSUME NEW t \in Tasks, QueueOnLoop(t)
         PROVE  WakeupInv'
    <3>1. Elements(pendingTasks_') = Elements(pendingTasks_) \cup {t}
      BY <2>13, ElementsAppend DEF QueueOnLoop, TypeOK
    <3>2. CASE pc = "idle"
      BY <2>13, <3>1, <3>2 DEF QueueOnLoop
    <3>3. CASE pc = "callback"
      BY <2>13, <3>3 DEF QueueOnLoop
    <3>4. CASE pc = "task"
      BY <2>13, <3>4 DEF QueueOnLoop, TypeOK
    <3>5. QED
      BY <2>13, <3>2, <3>3, <3>4 DEF QueueOnLoop, InUserCode
  <2>14. ASSUME NEW th \in Threads, Wakeup(th)
         PROVE  WakeupInv'
    BY <2>14 DEF Wakeup
  <2>15. ASSUME NEW th \in Threads, QuitElsewhere(th)
         PROVE  WakeupInv'
    <3>1. thread'[th] = "wakeup"
      BY <2>15 DEF QuitElsewhere, TypeOK
    <3>2. QED
      BY <3>1
  <2>16. ASSUME NEW th \in Threads, NEW t \in Tasks, QueueElsewhere(th, t)
         PROVE  WakeupInv'
    <3>1. thread'[th] = "wakeup"
      BY <2>16 DEF QueueElsewhere, TypeOK
    <3>2. QED
      BY <3>1
  <2>17. CASE UNCHANGED vars
    BY <2>17 DEF vars
  <2>18. QED
    BY <2>1, <2>2, <2>3, <2>4, <2>5, <2>6, <2>7, <2>8, <2>9, <2>10, <2>11,
       <2>12, <2>13, <2>14, <2>15, <2>16, <2>17
       DEF Next, LoopStep, OwnerCall, ForeignStep
<1>3. QED
  BY <1>1, <1>2, TypeCorrect, PTL DEF Spec

(***************************************************************************)
(* queueInLoop() (EventLoop.cpp:94-112) leaves no task behind a sleeping   *)
(* loop, except those the owner queued before loop().                      *)
(***************************************************************************)
THEOREM NoLostWakeupHolds == Spec => []NoLostWakeup
<1>1. WakeupInv => NoLostWakeup
  BY DEF WakeupInv, NoLostWakeup
<1>2. QED
  BY <1>1, WakeupInvInductive, PTL

(***************************************************************************)
(* quit() (EventLoop.cpp:73-78) never leaves the loop asleep.              *)
(***************************************************************************)
THEOREM QuitNotSleptOnHolds == Spec => []QuitNotSleptOn
<1>1. WakeupInv => QuitNotSleptOn
  BY DEF WakeupInv
<1>2. QED
  BY <1>1, WakeupInvInductive, PTL

-----------------------------------------------------------------------------
(***************************************************************************)
(* The loop implements the abstract executor: the swap only moves tasks    *)
(* from one part of the line to the other, a push adds one at its end,     *)
(* RunTask takes one from its front.                                       *)
(***************************************************************************)
THEOREM ImplementsExecutor == Spec => RunsTasksInOrder
<1>1. Init => Executor!Init
  BY ConcatEmptySeq, EmptySeq DEF Init, Executor!Init
<1>2. TypeOK /\ [Next]_vars => [Executor!Next]_(Executor!vars)
  <2> SUFFICES ASSUME TypeOK, [Next]_vars
               PROVE  [Executor!Next]_(Executor!vars)
    OBVIOUS
  <2> USE DEF TypeOK
  <2>1. ASSUME UNCHANGED <<tasks, pendingTasks_, executed>>
        PROVE  UNCHANGED Executor!vars
    BY <2>1 DEF Executor!vars
  <2>2. CASE SwapPending
    <3>1. tasks = <<>>
      BY <2>2 DEF SwapPending
    <3>2. (tasks \o pendingTasks_)' = tasks \o pendingTasks_
      BY <2>2, <3>1, ConcatEmptySeq DEF SwapPending
    <3>3. QED
      BY <2>2, <3>2 DEF SwapPending, Executor!vars
  <2>3. CASE RunTask
    <3>1. /\ tasks \in Seq(Tasks) /\ pendingTasks_ \in Seq(Tasks)
          /\ tasks # <<>>
          /\ tasks' = Tail(tasks) /\ UNCHANGED pendingTasks_
          /\ executed' = Append(executed, Head(tasks))
      BY <2>3 DEF RunTask
    <3>2. tasks \o pendingTasks_ # <<>>
      BY <3>1, ConcatEqualIffEmpty
    <3>3. /\ Head(tasks \o pendingTasks_) = Head(tasks)
          /\ Tail(tasks \o pendingTasks_) = Tail(tasks) \o pendingTasks_
      BY <3>1
    <3>4. QED
      BY <3>1, <3>2, <3>3 DEF Executor!Next, Executor!Execute
  <2>4. ASSUME NEW t \in Tasks,
               pendingTasks_' = Append(pendingTasks_, t), UNCHANGED <<tasks, executed>>
        PROVE  Executor!Next
    <3>1. tasks \o Append(pendingTasks_, t) = Append(tasks \o pendingTasks_, t)
      OBVIOUS
    <3>2. QED
      BY <2>4, <3>1 DEF Executor!Next, Executor!Submit
  <2>5. CASE ResetQuit \/ TestQuit \/ HandleWakeup \/ HandleIo \/ CallReturns \/ EndDispatch
    BY <2>1, <2>5 DEF ResetQuit, TestQuit, HandleWakeup, HandleIo, CallReturns, EndDispatch
  <2>6. CASE EndPending \/ Poll \/ StartLoop \/ QuitOnLoop
    BY <2>1, <2>6 DEF EndPending, Poll, PollReturns, StartLoop, QuitOnLoop
  <2>7. ASSUME NEW th \in Threads, Wakeup(th) \/ QuitElsewhere(th)
        PROVE  UNCHANGED Executor!vars
    BY <2>1, <2>7 DEF Wakeup, QuitElsewhere
  <2>8. ASSUME NEW t \in Tasks, QueueOnLoop(t)
        PROVE  Executor!Next
    BY <2>4, <2>8 DEF QueueOnLoop
  <2>9. ASSUME NEW th \in Threads, NEW t \in Tasks, QueueElsewhere(th, t)
        PROVE  Executor!Next
    BY <2>4, <2>9 DEF QueueElsewhere
  <2>10. CASE UNCHANGED vars
    BY <2>1, <2>10 DEF vars
  <2>11. QED
    BY <2>2, <2>3, <2>5, <2>6, <2>7, <2>8, <2>9, <2>10
       DEF Next, LoopStep, OwnerCall, ForeignStep
<1>3. QED
  BY <1>1, <1>2, TypeCorrect, PTL DEF Spec, RunsTasksInOrder, Executor!Spec
-----------------------------------------------------------------------------
(***************************************************************************)
(* doPendingTasks() (EventLoop.cpp:147-159) runs the batch of its swap:    *)
(* only the swap, which is made while no task runs, puts tasks into it.    *)
(***************************************************************************)
THEOREM BatchesNeverGrow == Spec => BatchNeverGrows
<1> DEFINE Shrinks ==
      doingPendingTasks_ /\ tasks' # tasks => tasks # <<>> /\ tasks' = Tail(tasks)
<1>1. TypeOK /\ [Next]_vars => Shrinks
  <2> SUFFICES ASSUME TypeOK, [Next]_vars, doingPendingTasks_, tasks' # tasks
               PROVE  tasks # <<>> /\ tasks' = Tail(tasks)
    OBVIOUS
  <2>1. ~SwapPending
    BY DEF SwapPending, TypeOK
  <2>2. CASE RunTask
    BY <2>2 DEF RunTask
  <2>3. ~(ResetQuit \/ TestQuit \/ HandleWakeup \/ HandleIo \/ CallReturns \/ EndDispatch
            \/ EndPending)
    BY DEF ResetQuit, TestQuit, HandleWakeup, HandleIo, CallReturns, EndDispatch, EndPending
  <2>4. ~(Poll \/ OwnerCall)
    BY DEF Poll, PollReturns, OwnerCall, StartLoop, QuitOnLoop, QueueOnLoop
  <2>5. ~(\E th \in Threads : ForeignStep(th))
    BY DEF ForeignStep, Wakeup, QuitElsewhere, QueueElsewhere
  <2> QED BY <2>1, <2>2, <2>3, <2>4, <2>5 DEF Next, LoopStep, vars
<1>2. TypeOK /\ [Next]_vars => [Shrinks]_vars
  BY <1>1
<1> QED BY <1>2, TypeCorrect, PTL DEF Spec, BatchNeverGrows
=============================================================================
