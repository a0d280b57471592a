--------------------------- MODULE EventLoopThread ---------------------------
(***************************************************************************)
(* src/EventLoopThread.cpp with src/base/Thread.cpp and CountDownLatch.cpp *)
(* under it: a program (the owner) has some EventLoopThread objects, asks  *)
(* each for a loop running in a thread of its own (startLoop()), and at    *)
(* last destroys it.  Owner and new thread meet twice, at latch_ (the      *)
(* thread has told its id) and at mutex_ and cond_ (the loop exists); the  *)
(* destructor reads loop_ without mutex_.                                  *)
(*                                                                         *)
(* The loop is EventLoop.tla reduced to what quit() and loop() say to each *)
(* other.  Critical sections are one step; pthread_cond_wait() may return  *)
(* for no reason.                                                          *)
(***************************************************************************)
EXTENDS Naturals

CONSTANTS Objects,   \* EventLoopThread objects
          MayFail    \* whether pthread_create() may fail

ASSUME EventLoopThreadAssumption == MayFail \in BOOLEAN

VARIABLES
  stage,     \* what the program has done with each object
  owner,     \* where the owner is
  obj,       \* the object it is busy with
  thread,    \* where the thread of each object is
  started_,  \* Thread::started_
  tid_,      \* whether Thread::tid_ is set
  count_,    \* of latch_
  loop_,     \* whether EventLoopThread::loop_ is not NULL
  quit_,     \* EventLoop::quit_
  woken,     \* the loop's eventfd is readable
  selfQuit,  \* history: a task of the loop has called quit()
  failed     \* why the process has aborted or may crash

threadVars == <<started_, tid_, count_>>
loopVars == <<loop_, quit_, woken, selfQuit>>
vars == <<stage, owner, obj, thread, threadVars, loopVars, failed>>

(***************************************************************************)
(* The owner: "free" in the program's own code; "latch" about to look at   *)
(* count_, "latchWait" asleep on it; "lock" and "loopWait" the same for    *)
(* loop_; "quit" the destructor has seen a loop_; "wakeup" quit_ is stored *)
(* and the eventfd not yet written; "join" in pthread_join().              *)
(***************************************************************************)
OwnerPoints == {"free", "latch", "latchWait", "lock", "loopWait", "quit", "wakeup", "join"}

(***************************************************************************)
(* A thread: "start" and "count" in runInThread(); "init" to "unlock" in   *)
(* threadFunc(), with "enter", "while", "poll" and "work" in loop(), and   *)
(* "unlock" between loop_ = NULL and the end of the loop and its guard.    *)
(***************************************************************************)
ThreadPoints == {"none", "start", "count", "init", "publish", "enter", "while",
                 "poll", "work", "leave", "unlock", "end"}

\* The EventLoop on the thread's stack exists.
LoopExists(o) == thread[o] \in ThreadPoints \ {"none", "start", "count", "end"}

(***************************************************************************)
(* Types; an object's thread exists exactly when started_ is set.          *)
(***************************************************************************)
TypeOK ==
  /\ stage \in [Objects -> {"constructed", "returned", "destroyed"}]
  /\ owner \in OwnerPoints
  /\ obj \in Objects
  /\ thread \in [Objects -> ThreadPoints]
  /\ started_ \in [Objects -> BOOLEAN]
  /\ tid_ \in [Objects -> BOOLEAN]
  /\ count_ \in [Objects -> 0 .. 1]
  /\ loop_ \in [Objects -> BOOLEAN]
  /\ quit_ \in [Objects -> BOOLEAN]
  /\ woken \in [Objects -> BOOLEAN]
  /\ selfQuit \in [Objects -> BOOLEAN]
  /\ failed \in {"none", "tid", "quit", "join", "nullLoop", "useAfterFree"}
  /\ \A o \in Objects : started_[o] <=> thread[o] # "none"

Init ==
  /\ stage = [o \in Objects |-> "constructed"]
  /\ owner = "free"
  /\ obj \in Objects
  /\ thread = [o \in Objects |-> "none"]
  /\ started_ = [o \in Objects |-> FALSE]
  /\ tid_ = [o \in Objects |-> FALSE]
  /\ count_ = [o \in Objects |-> 1]
  /\ loop_ = [o \in Objects |-> FALSE]
  /\ quit_ = [o \in Objects |-> FALSE]
  /\ woken = [o \in Objects |-> FALSE]
  /\ selfQuit = [o \in Objects |-> FALSE]
  /\ failed = "none"

Abort(why) == /\ failed' = why
              /\ UNCHANGED <<stage, owner, obj, thread, threadVars, loopVars>>

OwnerGoes(to) == owner' = to

ThreadGoes(o, to) == thread' = [thread EXCEPT ![o] = to]

-----------------------------------------------------------------------------
(* The owner: startLoop() and Thread::start().                             *)

CreateThread(o) ==
  /\ owner = "free"
  /\ stage[o] = "constructed"
  /\ obj' = o
  /\ started_' = [started_ EXCEPT ![o] = TRUE]
  /\ ThreadGoes(o, "start")
  /\ OwnerGoes("latch")
  /\ UNCHANGED <<stage, tid_, count_, loopVars, failed>>

\* pthread_create() fails: started_ is reset, start() returns, and startLoop()
\* goes on to wait for the loop.
CreateFails(o) ==
  /\ MayFail
  /\ owner = "free"
  /\ stage[o] = "constructed"
  /\ obj' = o
  /\ OwnerGoes("lock")
  /\ UNCHANGED <<stage, thread, threadVars, loopVars, failed>>

\* latch_.wait(), and assert(tid_ > 0) after it.
WaitLatch ==
  /\ owner = "latch"
  /\ IF count_[obj] = 0 /\ ~tid_[obj] THEN Abort("tid")
     ELSE /\ OwnerGoes(IF count_[obj] = 0 THEN "lock" ELSE "latchWait")
          /\ UNCHANGED <<stage, obj, thread, threadVars, loopVars, failed>>

\* Mutant of WaitLoop: the while is an if.
WaitLoopOnce ==
  /\ owner \in {"lock", "loopWait"}
  /\ IF owner = "loopWait" \/ loop_[obj]
     THEN OwnerGoes("free") /\ stage' = [stage EXCEPT ![obj] = "returned"]
     ELSE OwnerGoes("loopWait") /\ UNCHANGED stage
  /\ UNCHANGED <<obj, thread, threadVars, loopVars, failed>>

\* while(loop_ == NULL) cond_.wait(), and the return of startLoop().
WaitLoop ==
  /\ owner = "lock"
  /\ IF loop_[obj]
     THEN OwnerGoes("free") /\ stage' = [stage EXCEPT ![obj] = "returned"]
     ELSE OwnerGoes("loopWait") /\ UNCHANGED stage
  /\ UNCHANGED <<obj, thread, threadVars, loopVars, failed>>

\* pthread_cond_wait() returns without a signal.
SpuriousWakeup ==
  /\ owner \in {"latchWait", "loopWait"}
  /\ OwnerGoes(IF owner = "latchWait" THEN "latch" ELSE "lock")
  /\ UNCHANGED <<stage, obj, thread, threadVars, loopVars, failed>>

\* What a signal on a condition does to an owner asleep on it for object o.
Signal(o, asleep, awake) == OwnerGoes(IF obj = o /\ owner = asleep THEN awake ELSE owner)

-----------------------------------------------------------------------------
(* The owner: ~EventLoopThread().                                          *)

\* if(loop_ != NULL), read without mutex_; otherwise the object is gone now.
Destroy(o) ==
  /\ owner = "free"
  /\ stage[o] # "destroyed"
  /\ obj' = o
  /\ IF loop_[o] THEN OwnerGoes("quit") /\ UNCHANGED stage
     ELSE OwnerGoes("free") /\ stage' = [stage EXCEPT ![o] = "destroyed"]
  /\ UNCHANGED <<thread, threadVars, loopVars, failed>>

\* loop_->quit(), up to the store of quit_.
QuitLoop ==
  /\ owner = "quit"
  /\ IF ~loop_[obj] THEN Abort("nullLoop")
     ELSE IF quit_[obj] THEN Abort("quit")
     ELSE /\ quit_' = [quit_ EXCEPT ![obj] = TRUE]
          /\ OwnerGoes("wakeup")
          /\ UNCHANGED <<stage, obj, thread, threadVars, loop_, woken, selfQuit, failed>>

\* Mutant of WakeupLoop: the destructor ends without join().
WakeupLoopNoJoin ==
  /\ owner = "wakeup"
  /\ IF ~LoopExists(obj) THEN Abort("useAfterFree")
     ELSE /\ woken' = [woken EXCEPT ![obj] = TRUE]
          /\ OwnerGoes("free")
          /\ stage' = [stage EXCEPT ![obj] = "destroyed"]
          /\ UNCHANGED <<obj, thread, threadVars, loop_, quit_, selfQuit, failed>>

(***************************************************************************)
(* The rest of quit(), isInLoopThread() and wakeup(), reads the EventLoop, *)
(* which its thread may have left and destroyed on seeing quit_.           *)
(***************************************************************************)
WakeupLoop ==
  /\ owner = "wakeup"
  /\ IF ~LoopExists(obj) THEN Abort("useAfterFree")
     ELSE /\ woken' = [woken EXCEPT ![obj] = TRUE]
          /\ OwnerGoes("join")
          /\ UNCHANGED <<stage, obj, thread, threadVars, loop_, quit_, selfQuit, failed>>

\* thread_.join(), then the members are destroyed.
Join ==
  /\ owner = "join"
  /\ IF ~started_[obj] THEN Abort("join")
     ELSE /\ thread[obj] = "end"
          /\ OwnerGoes("free")
          /\ stage' = [stage EXCEPT ![obj] = "destroyed"]
          /\ UNCHANGED <<obj, thread, threadVars, loopVars, failed>>

-----------------------------------------------------------------------------
(* The thread of object o.                                                 *)

\* runInThread(): *tid_ = CurrentThread::tid() ...
TellTid(o) ==
  /\ thread[o] = "start"
  /\ tid_' = [tid_ EXCEPT ![o] = TRUE]
  /\ ThreadGoes(o, "count")
  /\ UNCHANGED <<stage, owner, obj, started_, count_, loopVars, failed>>

\* Mutant of CountDown: the last count wakes nobody.
CountDownSilently(o) ==
  /\ thread[o] = "count"
  /\ count_' = [count_ EXCEPT ![o] = @ - 1]
  /\ ThreadGoes(o, "init")
  /\ UNCHANGED <<stage, owner, obj, started_, tid_, loopVars, failed>>

\* Mutant of CountDown: the latch is opened before tid_ is stored.
CountDownFirst(o) ==
  /\ thread[o] \in {"start", "count"}
  /\ count_[o] = 1
  /\ count_' = [count_ EXCEPT ![o] = @ - 1]
  /\ Signal(o, "latchWait", "latch")
  /\ ThreadGoes(o, IF thread[o] = "start" THEN "start" ELSE "init")
  /\ UNCHANGED <<stage, obj, started_, tid_, loopVars, failed>>

\* ... latch_->countDown().
CountDown(o) ==
  /\ thread[o] = "count"
  /\ count_' = [count_ EXCEPT ![o] = @ - 1]
  /\ Signal(o, "latchWait", "latch")
  /\ ThreadGoes(o, "init")
  /\ UNCHANGED <<stage, obj, started_, tid_, loopVars, failed>>

\* threadFunc(): the EventLoop is constructed and callback_ has run.
ConstructLoop(o) ==
  /\ thread[o] = "init"
  /\ ThreadGoes(o, "publish")
  /\ UNCHANGED <<stage, owner, obj, threadVars, loopVars, failed>>

\* loop_ = &loop and cond_.notify(), under mutex_.
PublishLoop(o) ==
  /\ thread[o] = "publish"
  /\ loop_' = [loop_ EXCEPT ![o] = TRUE]
  /\ Signal(o, "loopWait", "lock")
  /\ ThreadGoes(o, "enter")
  /\ UNCHANGED <<stage, obj, threadVars, quit_, woken, selfQuit, failed>>

\* loop(): quit_ = false, whatever it was.
ResetQuit(o) ==
  /\ thread[o] = "enter"
  /\ quit_' = [quit_ EXCEPT ![o] = FALSE]
  /\ ThreadGoes(o, "while")
  /\ UNCHANGED <<stage, owner, obj, threadVars, loop_, woken, selfQuit, failed>>

TestQuit(o) ==
  /\ thread[o] = "while"
  /\ ThreadGoes(o, IF quit_[o] THEN "leave" ELSE "poll")
  /\ UNCHANGED <<stage, owner, obj, threadVars, loopVars, failed>>

\* epoll_wait() returns for the eventfd, which is read, or for another channel.
PollReturns(o) ==
  /\ thread[o] = "poll"
  /\ woken' = [woken EXCEPT ![o] = FALSE]
  /\ ThreadGoes(o, "work")
  /\ UNCHANGED <<stage, owner, obj, threadVars, loop_, quit_, selfQuit, failed>>

\* A handler or a task of the loop calls quit(), once.
QuitSelf(o) ==
  /\ ~selfQuit[o]
  /\ thread[o] = "work"
  /\ selfQuit' = [selfQuit EXCEPT ![o] = TRUE]
  /\ IF quit_[o] THEN failed' = "quit" /\ UNCHANGED quit_
                  ELSE quit_' = [quit_ EXCEPT ![o] = TRUE] /\ UNCHANGED failed
  /\ UNCHANGED <<stage, owner, obj, thread, threadVars, loop_, woken>>

EndWork(o) ==
  /\ thread[o] = "work"
  /\ ThreadGoes(o, "while")
  /\ UNCHANGED <<stage, owner, obj, threadVars, loopVars, failed>>

\* loop() has returned: loop_ = NULL, under mutex_ ...
ClearLoop(o) ==
  /\ thread[o] = "leave"
  /\ loop_' = [loop_ EXCEPT ![o] = FALSE]
  /\ ThreadGoes(o, "unlock")
  /\ UNCHANGED <<stage, owner, obj, threadVars, quit_, woken, selfQuit, failed>>

\* ... the guard unlocks mutex_, the EventLoop is destroyed, the thread ends.
EndThread(o) ==
  /\ thread[o] = "unlock"
  /\ ThreadGoes(o, "end")
  /\ UNCHANGED <<stage, owner, obj, threadVars, loopVars, failed>>

-----------------------------------------------------------------------------
OwnerStep == WaitLatch \/ WaitLoop \/ QuitLoop \/ WakeupLoop \/ Join

OwnerCall == \E o \in Objects : CreateThread(o) \/ CreateFails(o) \/ Destroy(o)

ThreadStep(o) ==
  \/ TellTid(o) \/ CountDown(o) \/ ConstructLoop(o) \/ PublishLoop(o)
  \/ ResetQuit(o) \/ TestQuit(o) \/ EndWork(o) \/ ClearLoop(o) \/ EndThread(o)

Next ==
  /\ failed = "none"
  /\ \/ OwnerStep \/ OwnerCall \/ SpuriousWakeup
     \/ \E o \in Objects : ThreadStep(o) \/ PollReturns(o) \/ QuitSelf(o)

(***************************************************************************)
(* Fairness: threads are scheduled, handlers return, epoll_wait() returns  *)
(* once the eventfd is readable.  Nobody has to start or destroy anything, *)
(* no other event has to come, no wakeup is spurious for certain.          *)
(***************************************************************************)
Fairness ==
  /\ WF_vars(failed = "none" /\ OwnerStep)
  /\ \A o \in Objects : /\ WF_vars(failed = "none" /\ ThreadStep(o))
                        /\ WF_vars(failed = "none" /\ woken[o] /\ PollReturns(o))

Spec == Init /\ [][Next]_vars

FairSpec == Spec /\ Fairness

-----------------------------------------------------------------------------
(* Properties.                                                             *)

(***************************************************************************)
(* assert(tid_ > 0) of Thread::start() and assert(started_) of join()      *)
(* hold; assert(!quit_) of quit() holds, and the destructor does not call  *)
(* quit() on NULL, unless a task of the same loop has called quit() too.   *)
(***************************************************************************)
AssertionsHold ==
  \/ failed \in {"none", "useAfterFree"}
  \/ failed \in {"quit", "nullLoop"} /\ selfQuit[obj]

(***************************************************************************)
(* The loop startLoop() has returned is there, published and on its way    *)
(* into loop() or in it, until it quits itself or the object's destructor  *)
(* runs.                                                                   *)
(***************************************************************************)
ReturnedLoopLives ==
  \A o \in Objects :
    stage[o] = "returned" /\ (obj # o \/ owner = "free") /\ ~selfQuit[o]
      => loop_[o] /\ thread[o] \in {"enter", "while", "poll", "work"}

(***************************************************************************)
(* When the destructor has returned, the object's thread is over: it no    *)
(* longer touches mutex_, loop_ or the EventLoop.  Of a loop that has quit *)
(* itself the destructor may see loop_ = NULL before the guard of mutex_   *)
(* is gone, and does not join.                                             *)
(***************************************************************************)
DestroyedIsQuiet ==
  \A o \in Objects :
    stage[o] = "destroyed" => thread[o] \in {"none", "end"} \/ selfQuit[o]

(***************************************************************************)
(* startLoop() returns once pthread_create() has succeeded, whichever of   *)
(* the two threads comes first to latch_ and to mutex_; except for a loop  *)
(* that has quit itself, whose loop_ may be NULL again before it is seen.  *)
(* The destructor returns if loop() had reset quit_ before it called       *)
(* quit(); before that the reset makes join() wait for ever.               *)
(***************************************************************************)
CallsReturn ==
  \A o \in Objects :
    /\ started_[o] ~> stage[o] # "constructed" \/ selfQuit[o]
    /\ obj = o /\ owner = "quit" /\ thread[o] \in {"while", "poll", "work"}
         ~> stage[o] = "destroyed" \/ failed # "none"
=============================================================================
