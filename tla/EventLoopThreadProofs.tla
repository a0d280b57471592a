------------------------ MODULE EventLoopThreadProofs ------------------------
(***************************************************************************)
(* What EventLoopThread.tla promises, proved for any set of objects,       *)
(* whether or not pthread_create() may fail.  Handshake ties the progress  *)
(* of each thread to what the owner has done and needs no assumption on    *)
(* who quits; OnlyOwnerQuits adds that a thread leaves its loop for no     *)
(* other reason than the destructor's quit() or one of its own tasks.      *)
(***************************************************************************)
EXTENDS EventLoopThread, TLAPS

Starting == {"latch", "latchWait", "lock", "loopWait"}
Stopping == {"quit", "wakeup", "join"}
InLoop   == {"enter", "while", "poll", "work"}
Ending   == {"leave", "unlock", "end"}

Handshake ==
  /\ TypeOK
  /\ \A o \in Objects :
       /\ tid_[o] <=> thread[o] \notin {"none", "start"}
       /\ count_[o] = 0 <=> thread[o] \notin {"none", "start", "count"}
       /\ loop_[o] <=> thread[o] \in InLoop \cup {"leave"}
       /\ stage[o] = "constructed" =>
            thread[o] = "none" \/ (obj = o /\ owner \in Starting)
       /\ stage[o] = "returned" => thread[o] \in InLoop \cup Ending
  /\ owner \in {"latch", "latchWait"} => started_[obj]
  /\ owner \in Starting => stage[obj] = "constructed"
  /\ owner \in Stopping => stage[obj] = "returned"
  /\ failed # "tid"

\* The destructor of o is past its store of quit_.
Quit(o) == stage[o] = "destroyed" \/ (obj = o /\ owner \in {"wakeup", "join"})

OnlyOwnerQuits ==
  /\ \A o \in Objects :
       \/ selfQuit[o]
       \/ /\ quit_[o] => Quit(o)
          /\ thread[o] \in Ending => Quit(o)
          /\ stage[o] = "destroyed" => thread[o] \in {"none", "end"}
  /\ AssertionsHold

-----------------------------------------------------------------------------
(***************************************************************************)
(* Every step of the owner and of the threads keeps Handshake.             *)
(***************************************************************************)
LEMMA HandshakeStep == Handshake /\ [Next]_vars => Handshake'
<1> SUFFICES ASSUME Handshake, [Next]_vars
             PROVE  Handshake'
  OBVIOUS
<1> USE DEF Handshake, TypeOK, vars, threadVars, loopVars, OwnerGoes, ThreadGoes,
            Starting, Stopping, InLoop, Ending, OwnerPoints, ThreadPoints
<1>1. CASE WaitLatch
  BY <1>1 DEF WaitLatch, Abort
<1>2. CASE WaitLoop
  BY <1>2 DEF WaitLoop
<1>3. CASE QuitLoop
  <2>1. /\ UNCHANGED <<stage, obj, thread, threadVars, loop_, woken, selfQuit>>
        /\ quit_' = quit_ \/ quit_' = [quit_ EXCEPT ![obj] = TRUE]
        /\ \/ UNCHANGED owner /\ (failed' = "nullLoop" \/ failed' = "quit")
           \/ owner = "quit" /\ owner' = "wakeup" /\ UNCHANGED failed
    BY <1>3, Zenon DEF QuitLoop, Abort
  <2>2. QED
    BY <2>1
<1>4. CASE WakeupLoop
  <2>1. /\ UNCHANGED <<stage, obj, thread, threadVars, loop_, quit_, selfQuit>>
        /\ woken' = woken \/ woken' = [woken EXCEPT ![obj] = TRUE]
        /\ \/ UNCHANGED owner /\ failed' = "useAfterFree"
           \/ owner = "wakeup" /\ owner' = "join" /\ UNCHANGED failed
    BY <1>4, Zenon DEF WakeupLoop, Abort
  <2>2. QED
    BY <2>1
<1>5. CASE Join
  BY <1>5 DEF Join, Abort
<1>6. CASE SpuriousWakeup
  BY <1>6 DEF SpuriousWakeup
<1>7. ASSUME NEW o \in Objects, CreateThread(o)
    PROVE  Handshake'
  BY <1>7 DEF CreateThread
<1>8. ASSUME NEW o \in Objects, CreateFails(o)
    PROVE  Handshake'
  BY <1>8 DEF CreateFails
<1>9. ASSUME NEW o \in Objects, Destroy(o)
    PROVE  Handshake'
  BY <1>9 DEF Destroy
<1>10. ASSUME NEW o \in Objects, TellTid(o)
    PROVE  Handshake'
  BY <1>10 DEF TellTid
<1>11. ASSUME NEW o \in Objects, CountDown(o)
    PROVE  Handshake'
  BY <1>11 DEF CountDown, Signal
<1>12. ASSUME NEW o \in Objects, ConstructLoop(o)
    PROVE  Handshake'
  BY <1>12 DEF ConstructLoop
<1>13. ASSUME NEW o \in Objects, PublishLoop(o)
    PROVE  Handshake'
  BY <1>13 DEF PublishLoop, Signal
<1>14. ASSUME NEW o \in Objects, ResetQuit(o)
    PROVE  Handshake'
  BY <1>14 DEF ResetQuit
<1>15. ASSUME NEW o \in Objects, TestQuit(o)
    PROVE  Handshake'
  BY <1>15 DEF TestQuit
<1>16. ASSUME NEW o \in Objects, PollReturns(o)
    PROVE  Handshake'
  BY <1>16 DEF PollReturns
<1>17. ASSUME NEW o \in Objects, QuitSelf(o)
    PROVE  Handshake'
  <2>1. /\ UNCHANGED <<stage, owner, obj, thread, threadVars, loop_, woken>>
        /\ selfQuit' = [selfQuit EXCEPT ![o] = TRUE]
        /\ quit_' = quit_ \/ quit_' = [quit_ EXCEPT ![o] = TRUE]
        /\ failed' = failed \/ failed' = "quit"
    BY <1>17, Zenon DEF QuitSelf
  <2>2. QED
    BY <2>1
<1>18. ASSUME NEW o \in Objects, EndWork(o)
    PROVE  Handshake'
  BY <1>18 DEF EndWork
<1>19. ASSUME NEW o \in Objects, ClearLoop(o)
    PROVE  Handshake'
  BY <1>19 DEF ClearLoop
<1>20. ASSUME NEW o \in Objects, EndThread(o)
    PROVE  Handshake'
  BY <1>20 DEF EndThread
<1>21. CASE UNCHANGED vars
  BY <1>21
<1>22. QED
  BY <1>1, <1>2, <1>3, <1>4, <1>5, <1>6, <1>7, <1>8, <1>9, <1>10, <1>11, <1>12, <1>13, <1>14, <1>15, <1>16, <1>17, <1>18, <1>19, <1>20, <1>21 DEF Next, OwnerStep, OwnerCall, ThreadStep

(***************************************************************************)
(* Handshake holds in every state of EventLoopThread.                      *)
(***************************************************************************)
LEMMA HandshakeHolds == Spec => []Handshake
<1>1. Init => Handshake
  BY DEF Init, Handshake, TypeOK, Starting, Stopping, InLoop, Ending, OwnerPoints, ThreadPoints
<1>2. QED
  BY <1>1, HandshakeStep, PTL DEF Spec

(***************************************************************************)
(* Types of EventLoopThread, and started_ set exactly while the object has *)
(* a thread.                                                               *)
(***************************************************************************)
THEOREM TypeCorrect == Spec => []TypeOK
<1>1. Handshake => TypeOK
  BY DEF Handshake
<1>2. QED
  BY <1>1, HandshakeHolds, PTL

-----------------------------------------------------------------------------
(***************************************************************************)
(* Every step keeps OnlyOwnerQuits.                                        *)
(***************************************************************************)
LEMMA OnlyOwnerQuitsStep == Handshake /\ OnlyOwnerQuits /\ [Next]_vars => OnlyOwnerQuits'
<1> SUFFICES ASSUME Handshake, OnlyOwnerQuits, [Next]_vars
             PROVE  OnlyOwnerQuits'
  OBVIOUS
<1> USE DEF Handshake, OnlyOwnerQuits, Quit, AssertionsHold, TypeOK, vars, threadVars, loopVars,
            OwnerGoes, ThreadGoes, LoopExists,
            Starting, Stopping, InLoop, Ending, OwnerPoints, ThreadPoints
<1>1. CASE WaitLatch
  BY <1>1 DEF WaitLatch, Abort
<1>2. CASE WaitLoop
  BY <1>2 DEF WaitLoop
<1>3. CASE QuitLoop
  BY <1>3 DEF QuitLoop, Abort
<1>4. CASE WakeupLoop
  BY <1>4 DEF WakeupLoop, Abort
<1>5. CASE Join
  BY <1>5 DEF Join, Abort
<1>6. CASE SpuriousWakeup
  BY <1>6 DEF SpuriousWakeup
<1>7. ASSUME NEW o \in Objects, failed = "none", CreateThread(o)
    PROVE  OnlyOwnerQuits'
  BY <1>7 DEF CreateThread
<1>8. ASSUME NEW o \in Objects, failed = "none", CreateFails(o)
    PROVE  OnlyOwnerQuits'
  BY <1>8 DEF CreateFails
<1>9. ASSUME NEW o \in Objects, failed = "none", Destroy(o)
    PROVE  OnlyOwnerQuits'
  BY <1>9 DEF Destroy
<1>10. ASSUME NEW o \in Objects, TellTid(o)
    PROVE  OnlyOwnerQuits'
  BY <1>10 DEF TellTid
<1>11. ASSUME NEW o \in Objects, CountDown(o)
    PROVE  OnlyOwnerQuits'
  BY <1>11 DEF CountDown, Signal
<1>12. ASSUME NEW o \in Objects, ConstructLoop(o)
    PROVE  OnlyOwnerQuits'
  BY <1>12 DEF ConstructLoop
<1>13. ASSUME NEW o \in Objects, PublishLoop(o)
    PROVE  OnlyOwnerQuits'
  BY <1>13 DEF PublishLoop, Signal
<1>14. ASSUME NEW o \in Objects, ResetQuit(o)
    PROVE  OnlyOwnerQuits'
  BY <1>14 DEF ResetQuit
<1>15. ASSUME NEW o \in Objects, TestQuit(o)
    PROVE  OnlyOwnerQuits'
  BY <1>15 DEF TestQuit
<1>16. ASSUME NEW o \in Objects, PollReturns(o)
    PROVE  OnlyOwnerQuits'
  BY <1>16 DEF PollReturns
<1>17. ASSUME NEW o \in Objects, QuitSelf(o)
    PROVE  OnlyOwnerQuits'
  BY <1>17 DEF QuitSelf
<1>18. ASSUME NEW o \in Objects, EndWork(o)
    PROVE  OnlyOwnerQuits'
  BY <1>18 DEF EndWork
<1>19. ASSUME NEW o \in Objects, ClearLoop(o)
    PROVE  OnlyOwnerQuits'
  BY <1>19 DEF ClearLoop
<1>20. ASSUME NEW o \in Objects, EndThread(o)
    PROVE  OnlyOwnerQuits'
  BY <1>20 DEF EndThread
<1>21. CASE UNCHANGED vars
  BY <1>21
<1>22. QED
  BY <1>1, <1>2, <1>3, <1>4, <1>5, <1>6, <1>7, <1>8, <1>9, <1>10, <1>11, <1>12, <1>13, <1>14, <1>15, <1>16, <1>17, <1>18, <1>19, <1>20, <1>21 DEF Next, OwnerStep, OwnerCall, ThreadStep

(***************************************************************************)
(* OnlyOwnerQuits holds in every state of EventLoopThread.                 *)
(***************************************************************************)
LEMMA OnlyOwnerQuitsHolds == Spec => []OnlyOwnerQuits
<1>1. Init => OnlyOwnerQuits
  BY DEF Init, OnlyOwnerQuits, Quit, Ending, AssertionsHold
<1>2. QED
  BY <1>1, OnlyOwnerQuitsStep, HandshakeHolds, PTL DEF Spec

(***************************************************************************)
(* No assertion of start() and join() fails; those of quit() fail, and the *)
(* destructor calls quit() on NULL, only for a loop that quits itself.     *)
(***************************************************************************)
THEOREM AssertionsNeverFail == Spec => []AssertionsHold
<1>1. OnlyOwnerQuits => AssertionsHold
  BY DEF OnlyOwnerQuits, AssertionsHold
<1>2. QED
  BY <1>1, OnlyOwnerQuitsHolds, PTL

(***************************************************************************)
(* A loop that startLoop() has returned lives until it quits itself or the *)
(* destructor runs.                                                        *)
(***************************************************************************)
THEOREM ReturnedLoopsLive == Spec => []ReturnedLoopLives
<1>1. Handshake /\ OnlyOwnerQuits => ReturnedLoopLives
  BY DEF Handshake, OnlyOwnerQuits, Quit, ReturnedLoopLives, TypeOK, InLoop, Ending
<1>2. QED
  BY <1>1, HandshakeHolds, OnlyOwnerQuitsHolds, PTL

(***************************************************************************)
(* Nothing of a destroyed object runs on, unless its loop quit itself.     *)
(***************************************************************************)
THEOREM DestroyedAreQuiet == Spec => []DestroyedIsQuiet
<1>1. OnlyOwnerQuits => DestroyedIsQuiet
  BY DEF OnlyOwnerQuits, DestroyedIsQuiet
<1>2. QED
  BY <1>1, OnlyOwnerQuitsHolds, PTL
=============================================================================
