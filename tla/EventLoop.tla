----------------------------- MODULE EventLoop ------------------------------
(***************************************************************************)
(* src/EventLoop.cpp: one thread owns the loop and runs loop(); any other  *)
(* thread may hand it work with queueInLoop() (runInLoop() is the same     *)
(* call when made off the loop thread, and a plain function call on it)    *)
(* or stop it with quit().  The two meet in pendingTasks_, guarded by      *)
(* mutex_, in the atomic quit_, and in an eventfd that ends epoll_wait().  *)
(*                                                                         *)
(* A step is what happens between two points where another thread can see  *)
(* a difference: pushing a task (under mutex_) and writing the eventfd are *)
(* two steps of a foreign thread, and one step of the loop thread, which   *)
(* cannot be inside epoll_wait() at the same time.                         *)
(***************************************************************************)
EXTENDS Naturals, Sequences

CONSTANTS Threads,   \* threads other than the one that owns the loop
          Tasks,     \* closures, each handed to the loop at most once
          MaxQuits   \* bound: calls of quit() in one behaviour

ASSUME EventLoopAssumption == MaxQuits \in Nat

VARIABLES
  pc,                 \* where the loop thread is
  activeChannels_,    \* channels epoll_wait() reported and not yet handled
  wakeupReady,        \* the counter of wakeupFd_ is not zero
  pendingTasks_,      \* tasks queued for the loop
  tasks,              \* the local vector of doPendingTasks(), what is left of it
  doingPendingTasks_,
  quit_,
  thread,             \* what each foreign thread is in the middle of
  quits,              \* calls of quit() made so far
  aborted,            \* assert(!quit_) of quit() has failed
  early,              \* history: tasks the owner queued while not in loop()
  executed            \* history: tasks run by doPendingTasks(), in order

vars == <<pc, activeChannels_, wakeupReady, pendingTasks_, tasks,
          doingPendingTasks_, quit_, thread, quits, aborted, early, executed>>

(***************************************************************************)
(* "idle" the owner is outside loop(); "enter" looping_ is set and quit_   *)
(* is about to be reset; "while" the loop test; "poll" in epoll_wait();    *)
(* "dispatch" between two handlers; "callback" in the handler of some      *)
(* channel other than the wakeup one; "swap" about to take pendingTasks_;  *)
(* "run" between two tasks; "task" inside one.                             *)
(***************************************************************************)
LoopPoints == {"idle", "enter", "while", "poll", "dispatch", "callback",
               "swap", "run", "task"}

\* Channels the loop watches: its own eventfd, and any other descriptor.
Channels == {"wakeup", "io"}

Elements(s) == {s[i] : i \in DOMAIN s}

(***************************************************************************)
(* Types, and which point of loop() each piece of its state belongs to:    *)
(* doingPendingTasks_ holds exactly while a batch is run, the local vector *)
(* is empty outside a batch, the channel list outside the dispatch.        *)
(***************************************************************************)
TypeOK ==
  /\ pc \in LoopPoints
  /\ activeChannels_ \in SUBSET Channels
  /\ wakeupReady \in BOOLEAN
  /\ pendingTasks_ \in Seq(Tasks)
  /\ tasks \in Seq(Tasks)
  /\ doingPendingTasks_ \in BOOLEAN
  /\ quit_ \in BOOLEAN
  /\ thread \in [Threads -> {"outside", "wakeup"}]
  /\ quits \in 0 .. MaxQuits
  /\ aborted \in BOOLEAN
  /\ early \in SUBSET Tasks
  /\ executed \in Seq(Tasks)
  /\ doingPendingTasks_ <=> pc \in {"run", "task"}
  /\ tasks # <<>> => pc \in {"run", "task"}
  /\ activeChannels_ # {} => pc \in {"dispatch", "callback"}

Init ==
  /\ pc = "idle"
  /\ activeChannels_ = {}
  /\ wakeupReady = FALSE
  /\ pendingTasks_ = <<>>
  /\ tasks = <<>>
  /\ doingPendingTasks_ = FALSE
  /\ quit_ = FALSE
  /\ thread = [t \in Threads |-> "outside"]
  /\ quits = 0
  /\ aborted = FALSE
  /\ early = {}
  /\ executed = <<>>

-----------------------------------------------------------------------------
(* The loop thread.                                                        *)

\* loop() is called: looping_ = true ...
StartLoop ==
  /\ pc = "idle"
  /\ pc' = "enter"
  /\ UNCHANGED <<activeChannels_, wakeupReady, pendingTasks_, tasks,
                 doingPendingTasks_, quit_, thread, quits, aborted, early, executed>>

\* ... quit_ = false, whatever it was.
ResetQuit ==
  /\ pc = "enter"
  /\ quit_' = FALSE
  /\ pc' = "while"
  /\ UNCHANGED <<activeChannels_, wakeupReady, pendingTasks_, tasks,
                 doingPendingTasks_, thread, quits, aborted, early, executed>>

\* while(!quit_), and the return from loop().
TestQuit ==
  /\ pc = "while"
  /\ pc' = IF quit_ THEN "idle" ELSE "poll"
  /\ UNCHANGED <<activeChannels_, wakeupReady, pendingTasks_, tasks,
                 doingPendingTasks_, quit_, thread, quits, aborted, early, executed>>

(***************************************************************************)
(* epoll_wait() with no timeout returns some of the ready channels (at     *)
(* most events_.size() of them, so perhaps not all), or none on EINTR.     *)
(***************************************************************************)
PollReturns(ready) ==
  /\ pc = "poll"
  /\ "wakeup" \in ready => wakeupReady
  /\ activeChannels_' = ready
  /\ pc' = "dispatch"
  /\ UNCHANGED <<wakeupReady, pendingTasks_, tasks, doingPendingTasks_, quit_,
                 thread, quits, aborted, early, executed>>

\* EventLoop::handleRead(): read() of the eventfd sets its counter to zero.
HandleWakeup ==
  /\ pc = "dispatch"
  /\ "wakeup" \in activeChannels_
  /\ activeChannels_' = activeChannels_ \ {"wakeup"}
  /\ wakeupReady' = FALSE
  /\ UNCHANGED <<pc, pendingTasks_, tasks, doingPendingTasks_, quit_, thread,
                 quits, aborted, early, executed>>

\* The handler of another channel starts: code of the program runs.
HandleIo ==
  /\ pc = "dispatch"
  /\ "io" \in activeChannels_
  /\ activeChannels_' = activeChannels_ \ {"io"}
  /\ pc' = "callback"
  /\ UNCHANGED <<wakeupReady, pendingTasks_, tasks, doingPendingTasks_, quit_,
                 thread, quits, aborted, early, executed>>

\* A handler returns to loop(), or a task to doPendingTasks().
CallReturns ==
  /\ pc \in {"callback", "task"}
  /\ pc' = IF pc = "callback" THEN "dispatch" ELSE "run"
  /\ UNCHANGED <<activeChannels_, wakeupReady, pendingTasks_, tasks,
                 doingPendingTasks_, quit_, thread, quits, aborted, early, executed>>

EndDispatch ==
  /\ pc = "dispatch"
  /\ activeChannels_ = {}
  /\ pc' = "swap"
  /\ UNCHANGED <<activeChannels_, wakeupReady, pendingTasks_, tasks,
                 doingPendingTasks_, quit_, thread, quits, aborted, early, executed>>

\* Mutant of SwapPending: the vector is copied, not swapped.
SwapPendingCopies ==
  /\ pc = "swap"
  /\ tasks' = pendingTasks_
  /\ doingPendingTasks_' = TRUE
  /\ pc' = "run"
  /\ UNCHANGED <<activeChannels_, wakeupReady, pendingTasks_, quit_, thread,
                 quits, aborted, early, executed>>

(***************************************************************************)
(* doPendingTasks(): the swap, under mutex_, then doingPendingTasks_ =     *)
(* true.  Only the loop thread reads the flag, so nobody sees it between.  *)
(***************************************************************************)
SwapPending ==
  /\ pc = "swap"
  /\ tasks' = pendingTasks_
  /\ pendingTasks_' = <<>>
  /\ doingPendingTasks_' = TRUE
  /\ pc' = "run"
  /\ UNCHANGED <<activeChannels_, wakeupReady, quit_, thread, quits, aborted,
                 early, executed>>

RunTask ==
  /\ pc = "run"
  /\ tasks # <<>>
  /\ executed' = Append(executed, Head(tasks))
  /\ tasks' = Tail(tasks)
  /\ pc' = "task"
  /\ UNCHANGED <<activeChannels_, wakeupReady, pendingTasks_,
                 doingPendingTasks_, quit_, thread, quits, aborted, early>>

EndPending ==
  /\ pc = "run"
  /\ tasks = <<>>
  /\ doingPendingTasks_' = FALSE
  /\ pc' = "while"
  /\ UNCHANGED <<activeChannels_, wakeupReady, pendingTasks_, tasks, quit_,
                 thread, quits, aborted, early, executed>>

-----------------------------------------------------------------------------
(* Calls of the public interface.                                          *)

\* The loop thread runs code that may call the loop: before loop(), in a
\* handler, in a task.
InUserCode == pc \in {"idle", "callback", "task"}

\* A closure is created for one call.
Fresh(t) == t \notin Elements(executed) \cup Elements(tasks) \cup Elements(pendingTasks_)

\* Mutant of QueueOnLoop: "|| doingPendingTasks_" is missing.
QueueOnLoopNoWakeup(t) ==
  /\ InUserCode
  /\ Fresh(t)
  /\ pendingTasks_' = Append(pendingTasks_, t)
  /\ early' = IF pc = "idle" THEN early \cup {t} ELSE early
  /\ UNCHANGED <<pc, activeChannels_, wakeupReady, tasks, doingPendingTasks_,
                 quit_, thread, quits, aborted, executed>>

\* Mutant of QueueOnLoop: a task queued by a task joins the running batch.
QueueOnLoopJoinsBatch(t) ==
  /\ InUserCode
  /\ Fresh(t)
  /\ IF doingPendingTasks_
     THEN tasks' = Append(tasks, t) /\ UNCHANGED pendingTasks_
     ELSE pendingTasks_' = Append(pendingTasks_, t) /\ UNCHANGED tasks
  /\ early' = IF pc = "idle" THEN early \cup {t} ELSE early
  /\ UNCHANGED <<pc, activeChannels_, wakeupReady, doingPendingTasks_, quit_,
                 thread, quits, aborted, executed>>

\* queueInLoop() on the loop thread: no wakeup unless a task is running.
QueueOnLoop(t) ==
  /\ InUserCode
  /\ Fresh(t)
  /\ pendingTasks_' = Append(pendingTasks_, t)
  /\ wakeupReady' = (wakeupReady \/ doingPendingTasks_)
  /\ early' = IF pc = "idle" THEN early \cup {t} ELSE early
  /\ UNCHANGED <<pc, activeChannels_, tasks, doingPendingTasks_, quit_, thread,
                 quits, aborted, executed>>

\* Mutant of QueueElsewhere: no wakeup() after the push.
QueueElsewhereNoWakeup(th, t) ==
  /\ thread[th] = "outside"
  /\ Fresh(t)
  /\ pendingTasks_' = Append(pendingTasks_, t)
  /\ UNCHANGED <<pc, activeChannels_, wakeupReady, tasks, doingPendingTasks_,
                 quit_, thread, quits, aborted, early, executed>>

\* queueInLoop() or runInLoop() on another thread: the push, under mutex_ ...
QueueElsewhere(th, t) ==
  /\ thread[th] = "outside"
  /\ Fresh(t)
  /\ pendingTasks_' = Append(pendingTasks_, t)
  /\ thread' = [thread EXCEPT ![th] = "wakeup"]
  /\ UNCHANGED <<pc, activeChannels_, wakeupReady, tasks, doingPendingTasks_,
                 quit_, quits, aborted, early, executed>>

\* ... then wakeup(): write() to the eventfd; the last step of quit() too.
Wakeup(th) ==
  /\ thread[th] = "wakeup"
  /\ wakeupReady' = TRUE
  /\ thread' = [thread EXCEPT ![th] = "outside"]
  /\ UNCHANGED <<pc, activeChannels_, pendingTasks_, tasks, doingPendingTasks_,
                 quit_, quits, aborted, early, executed>>

\* quit() on the loop thread; the assertion aborts when quit_ is already set.
QuitOnLoop ==
  /\ InUserCode
  /\ quits < MaxQuits
  /\ quits' = quits + 1
  /\ aborted' = quit_
  /\ quit_' = TRUE
  /\ UNCHANGED <<pc, activeChannels_, wakeupReady, pendingTasks_, tasks,
                 doingPendingTasks_, thread, early, executed>>

\* Mutant of QuitElsewhere: no wakeup() after the store.
QuitElsewhereNoWakeup(th) ==
  /\ thread[th] = "outside"
  /\ quits < MaxQuits
  /\ quits' = quits + 1
  /\ aborted' = quit_
  /\ quit_' = TRUE
  /\ UNCHANGED <<pc, activeChannels_, wakeupReady, pendingTasks_, tasks,
                 doingPendingTasks_, thread, early, executed>>

\* quit() on another thread: the store, then Wakeup.
QuitElsewhere(th) ==
  /\ thread[th] = "outside"
  /\ quits < MaxQuits
  /\ quits' = quits + 1
  /\ aborted' = quit_
  /\ quit_' = TRUE
  /\ thread' = [thread EXCEPT ![th] = "wakeup"]
  /\ UNCHANGED <<pc, activeChannels_, wakeupReady, pendingTasks_, tasks,
                 doingPendingTasks_, early, executed>>

-----------------------------------------------------------------------------
\* What the loop thread does on its own, once in loop(), without waiting.
LoopStep == \/ ResetQuit \/ TestQuit \/ HandleWakeup \/ HandleIo \/ CallReturns
            \/ EndDispatch \/ SwapPending \/ RunTask \/ EndPending

Poll == \E ready \in SUBSET Channels : PollReturns(ready)

OwnerCall == StartLoop \/ QuitOnLoop \/ \E t \in Tasks : QueueOnLoop(t)

ForeignStep(th) == Wakeup(th) \/ QuitElsewhere(th) \/ \E t \in Tasks : QueueElsewhere(th, t)

\* abort() ends the process: no step follows it.
Next == /\ ~aborted
        /\ LoopStep \/ Poll \/ OwnerCall \/ \E th \in Threads : ForeignStep(th)

(***************************************************************************)
(* Fairness: the scheduler runs the loop thread and a thread about to      *)
(* write the eventfd; epoll_wait() returns once the eventfd is readable;   *)
(* handlers and tasks return.  Nothing makes other channels ready, and     *)
(* nobody has to call the loop.                                            *)
(***************************************************************************)
Fairness == /\ WF_vars(~aborted /\ LoopStep)
            /\ WF_vars(~aborted /\ wakeupReady /\ Poll)
            /\ \A th \in Threads : WF_vars(~aborted /\ Wakeup(th))

Spec == Init /\ [][Next]_vars

FairSpec == Spec /\ Fairness

-----------------------------------------------------------------------------
(* Properties.                                                             *)

\* Somebody has written, or is about to write, the eventfd.
WakeupComing == wakeupReady \/ \E th \in Threads : thread[th] = "wakeup"

(***************************************************************************)
(* queueInLoop() never leaves a task behind a sleeping loop: when the loop *)
(* waits in epoll_wait() and a task is pending, the eventfd is readable or *)
(* a thread is about to write it.  The exception is a task its own thread  *)
(* queued before calling loop(): queueInLoop() does not write the eventfd  *)
(* then, and nothing else ends the first wait.                             *)
(***************************************************************************)
NoLostWakeup ==
  pc = "poll" /\ ~(Elements(pendingTasks_) \subseteq early) => WakeupComing

(***************************************************************************)
(* quit() never leaves the loop asleep: loop() waits with quit_ set only   *)
(* while the eventfd is readable or about to be written.                   *)
(***************************************************************************)
QuitNotSleptOn == pc = "poll" /\ quit_ => WakeupComing

(***************************************************************************)
(* doPendingTasks() runs what was pending at its swap and nothing else: a  *)
(* task queued by a task waits for the next iteration, so tasks that       *)
(* requeue themselves cannot keep the loop away from its descriptors.      *)
(***************************************************************************)
BatchNeverGrows ==
  [][doingPendingTasks_ /\ tasks' # tasks => tasks # <<>> /\ tasks' = Tail(tasks)]_vars

(***************************************************************************)
(* Tasks are run in the order in which mutex_ let them in, each once: the  *)
(* line of the abstract executor is the current batch and then             *)
(* pendingTasks_.                                                          *)
(***************************************************************************)
Executor == INSTANCE TaskExecutor WITH waiting <- tasks \o pendingTasks_

RunsTasksInOrder == Executor!Spec

(***************************************************************************)
(* A task queued while loop() runs, or by another thread, is run unless    *)
(* loop() returns or the process aborts.                                   *)
(***************************************************************************)
TaskEventuallyRuns ==
  \A t \in Tasks :
    pc # "idle" /\ t \in Elements(pendingTasks_) \ early
      ~> t \in Elements(executed) \/ pc = "idle" \/ aborted

(***************************************************************************)
(* quit() ends loop() when it comes after loop() has reset quit_; before   *)
(* that, ResetQuit forgets it.                                             *)
(***************************************************************************)
QuitEventuallyStops ==
  quit_ /\ pc \notin {"idle", "enter"} ~> pc = "idle" \/ aborted
=============================================================================
