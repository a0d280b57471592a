----------------------------- MODULE TimerQueue -----------------------------
(***************************************************************************)
(* src/TimerQueue.cpp and src/Timer.h: the timers of one loop.  timers_ is *)
(* a set of (instant, pointer) entries, earliest first; one timerfd is     *)
(* armed for its first entry, and handleRead() runs every entry that is    *)
(* due.  The set is touched on the loop thread only: addTimer() and        *)
(* cancelTimer() called on another thread queue a closure (EventLoop.tla). *)
(*                                                                         *)
(* Timers are heap objects known by their address, and a deleted timer's   *)
(* address may be that of the next new one: `timer' is the heap, a         *)
(* function whose domain is the addresses in use.  The clock stops at      *)
(* MaxTime, an instant that stands for itself and all later ones.          *)
(***************************************************************************)
EXTENDS Naturals, Sequences, FiniteSets

CONSTANTS Timers,          \* addresses a Timer may be allocated at
          MaxTime,         \* bound: the last instant told apart
          Intervals,       \* periods of repeating timers
          MaxTasks,        \* bound: closures waiting for the loop
          CancelsExpired   \* whether a timer's callback may cancel a timer
                           \* handleRead() has taken and not finished with

nullptr == 0

ASSUME TimerQueueAssumption ==
  /\ Timers \subseteq Nat \ {nullptr}
  /\ MaxTime \in Nat
  /\ Intervals \subseteq Nat \ {0}
  /\ MaxTasks \in Nat
  /\ CancelsExpired \in BOOLEAN

VARIABLES
  now,        \* the monotonic clock
  timer,      \* the heap: the Timer at each address in use
  timers_,    \* the set of entries
  armed,      \* when timerfd_ expires
  pc,         \* where the loop thread is
  expiredAt,  \* the local `now' of handleRead()
  batch,      \* the vector of getExpired(), what is left of it
  current,    \* the timer whose callback runs
  tasks,      \* closures queued by other threads
  failed      \* why the process has aborted or may crash

vars == <<now, timer, timers_, armed, pc, expiredAt, batch, current, tasks, failed>>

Times == 0 .. MaxTime

\* An instant that never comes: the timerfd is disarmed.
Disarmed == MaxTime + 1

Entry == Times \X Timers

\* interval 0 is a one-shot timer; holder is who still may cancel the timer.
Timer == [when : Times, interval : Intervals \cup {0},
          holder : {"loop", "foreign", "none"}]

Task == [op : {"add", "cancel"}, timer : Timers]

(***************************************************************************)
(* "idle" outside the timer channel's handler (in epoll_wait(), or in any  *)
(* other code of the loop thread); "dispatch" epoll_wait() has reported    *)
(* timerfd_ and its handler has not started; "expired" in the loop of      *)
(* handleRead(), between two timers; "callback" in a timer's callback.     *)
(***************************************************************************)
TypeOK ==
  /\ now \in Times
  /\ DOMAIN timer \subseteq Timers
  /\ \A t \in DOMAIN timer : timer[t] \in Timer
  /\ timers_ \subseteq Entry
  /\ armed \in Times \cup {Disarmed}
  /\ pc \in {"idle", "dispatch", "expired", "callback"}
  /\ expiredAt \in Times
  /\ batch \subseteq Entry
  /\ current \in Timers \cup {nullptr}
  /\ tasks \in Seq(Task) /\ Len(tasks) <= MaxTasks
  /\ failed \in {"none", "inserted", "expired", "useAfterFree"}
  /\ batch # {} => pc \in {"expired", "callback"}
  /\ current # nullptr <=> pc = "callback"

Init ==
  /\ now = 0
  /\ timer = [t \in {} |-> 0]
  /\ timers_ = {}
  /\ armed = Disarmed
  /\ pc = "idle"
  /\ expiredAt = 0
  /\ batch = {}
  /\ current = nullptr
  /\ tasks = <<>>
  /\ failed = "none"

-----------------------------------------------------------------------------
(* The clock, the set of entries, the timerfd, the heap.                   *)

After(t, d) == IF t + d > MaxTime THEN MaxTime ELSE t + d

\* durationFromNow(): one instant at least, for settime(0) would disarm.
Expiry(when) == IF when > now THEN when ELSE After(now, 1)

\* The order of std::set<pair<Timestamp, Timer*>>.
Before(e, f) == e[1] < f[1] \/ (e[1] = f[1] /\ e[2] <= f[2])

First(entries) == CHOOSE e \in entries : \A f \in entries : Before(e, f)

\* The entries getExpired() takes.
Due == {e \in timers_ : e[1] <= now}

New(t, when, interval, holder) ==
  [u \in DOMAIN timer \cup {t} |->
     IF u = t THEN [when |-> when, interval |-> interval, holder |-> holder]
     ELSE timer[u]]

Delete(t) == [u \in DOMAIN timer \ {t} |-> timer[u]]

Abort(why) == /\ failed' = why
              /\ UNCHANGED <<now, timer, timers_, armed, pc, expiredAt, batch,
                             current, tasks>>

Tick == /\ now < MaxTime
        /\ now' = now + 1
        /\ UNCHANGED <<timer, timers_, armed, pc, expiredAt, batch, current,
                       tasks, failed>>

-----------------------------------------------------------------------------
(* handleRead().                                                           *)

PollReturns ==
  /\ pc = "idle"
  /\ armed <= now
  /\ pc' = "dispatch"
  /\ UNCHANGED <<now, timer, timers_, armed, expiredAt, batch, current, tasks, failed>>

(***************************************************************************)
(* timerfdRead() takes the expiration, or fails with EAGAIN when a handler *)
(* before this one armed the timerfd anew; then getExpired().              *)
(***************************************************************************)
HandleRead ==
  /\ pc = "dispatch"
  /\ armed' = IF armed <= now THEN Disarmed ELSE armed
  /\ expiredAt' = now
  /\ batch' = Due
  /\ timers_' = timers_ \ Due
  /\ pc' = "expired"
  /\ UNCHANGED <<now, timer, current, tasks, failed>>

\* The next entry: assert(timer->expired(now)), then run() enters the callback.
RunTimer ==
  /\ pc = "expired"
  /\ batch # {}
  /\ LET e == First(batch)
         t == e[2]
     IN IF t \notin DOMAIN timer THEN Abort("useAfterFree")
        ELSE IF timer[t].when > expiredAt THEN Abort("expired")
        ELSE /\ batch' = batch \ {e}
             /\ current' = t
             /\ timer' = IF timer[t].interval = 0
                         THEN [timer EXCEPT ![t].holder = "none"]
                         ELSE timer
             /\ pc' = "callback"
             /\ UNCHANGED <<now, timers_, armed, expiredAt, tasks, failed>>

Finish(newTimer, newTimers) ==
  /\ timer' = newTimer
  /\ timers_' = newTimers
  /\ current' = nullptr
  /\ pc' = "expired"
  /\ UNCHANGED <<now, armed, expiredAt, batch, tasks, failed>>

\* Mutant of Finished: `else delete timer' is missing.
FinishedLeaks(t) == timer

\* A timer that is not to run again is deleted.
Finished(t) == Delete(t)

\* The callback returns: restart() and insert, or delete.
CallbackReturns ==
  /\ pc = "callback"
  /\ IF current \notin DOMAIN timer THEN Abort("useAfterFree")
     ELSE LET next == After(timer[current].when, timer[current].interval)
          IN IF timer[current].interval # 0
             THEN Finish([timer EXCEPT ![current].when = next],
                         timers_ \cup {<<next, current>>})
             ELSE Finish(Finished(current), timers_)

\* Mutant of Rearmed: the timerfd is left as it is.
RearmedNot == armed

\* The timerfd at the end of handleRead(): set for the first entry.
Rearmed == IF timers_ # {} THEN Expiry(First(timers_)[1]) ELSE armed

EndHandleRead ==
  /\ pc = "expired"
  /\ batch = {}
  /\ armed' = Rearmed
  /\ pc' = "idle"
  /\ UNCHANGED <<now, timer, timers_, expiredAt, batch, current, tasks, failed>>

-----------------------------------------------------------------------------
(* addTimer() and cancelTimer().                                           *)

\* runAt() and runAfter() give any instant, runEvery() one interval from now.
Chosen(when, interval) == interval = 0 \/ when = After(now, interval)

\* Mutant of Insert: the timerfd is armed for the first timer only.
InsertArmsOnce(t, when) ==
  /\ timers_' = timers_ \cup {<<when, t>>}
  /\ armed' = IF timers_ = {} THEN Expiry(when) ELSE armed

\* The closure of addTimer(), once assert(ret.second) has passed.
Insert(t, when) ==
  /\ timers_' = timers_ \cup {<<when, t>>}
  /\ armed' = IF First(timers_') = <<when, t>> THEN Expiry(when) ELSE armed

AddOnLoop(t, when, interval) ==
  /\ pc # "expired"
  /\ t \notin DOMAIN timer
  /\ Chosen(when, interval)
  /\ IF <<when, t>> \in timers_ THEN Abort("inserted")
     ELSE /\ timer' = New(t, when, interval, "loop")
          /\ Insert(t, when)
          /\ UNCHANGED <<now, pc, expiredAt, batch, current, tasks, failed>>

\* On another thread: the Timer is allocated there, the closure queued.
AddElsewhere(t, when, interval) ==
  /\ Len(tasks) < MaxTasks
  /\ t \notin DOMAIN timer
  /\ Chosen(when, interval)
  /\ timer' = New(t, when, interval, "foreign")
  /\ tasks' = Append(tasks, [op |-> "add", timer |-> t])
  /\ UNCHANGED <<now, timers_, armed, pc, expiredAt, batch, current, failed>>

\* Mutant of Erase: the timer is deleted and its entry stays.
EraseNothing(t) ==
  /\ timer' = Delete(t)
  /\ UNCHANGED timers_

\* The closure of cancelTimer(); the timerfd stays armed as it was.
Erase(t) ==
  /\ timers_' = timers_ \ {<<timer[t].when, t>>}
  /\ timer' = Delete(t)

\* handleRead() has taken t and will look at it again.
Unfinished(t) == t = current \/ \E e \in batch : e[2] = t

(***************************************************************************)
(* The program cancels a timer it added, at most once, and a one-shot      *)
(* timer only before its callback starts: the pointer dangles afterwards.  *)
(***************************************************************************)
CancelOnLoop(t) ==
  /\ pc # "expired"
  /\ t \in DOMAIN timer
  /\ timer[t].holder = "loop"
  /\ Unfinished(t) => CancelsExpired
  /\ Erase(t)
  /\ UNCHANGED <<now, armed, pc, expiredAt, batch, current, tasks, failed>>

\* Another thread cannot know when a one-shot timer starts, so it cancels
\* only repeating ones.
CancelElsewhere(t) ==
  /\ Len(tasks) < MaxTasks
  /\ t \in DOMAIN timer
  /\ timer[t].holder = "foreign"
  /\ timer[t].interval # 0
  /\ timer' = [timer EXCEPT ![t].holder = "none"]
  /\ tasks' = Append(tasks, [op |-> "cancel", timer |-> t])
  /\ UNCHANGED <<now, timers_, armed, pc, expiredAt, batch, current, failed>>

\* doPendingTasks() runs a closure: no handler is active.
RunTask ==
  /\ pc = "idle"
  /\ tasks # <<>>
  /\ LET t == Head(tasks).timer
     IN IF t \notin DOMAIN timer THEN Abort("useAfterFree")
        ELSE IF Head(tasks).op = "cancel"
        THEN /\ Erase(t)
             /\ tasks' = Tail(tasks)
             /\ UNCHANGED <<now, armed, pc, expiredAt, batch, current, failed>>
        ELSE IF <<timer[t].when, t>> \in timers_ THEN Abort("inserted")
        ELSE /\ Insert(t, timer[t].when)
             /\ tasks' = Tail(tasks)
             /\ UNCHANGED <<now, timer, pc, expiredAt, batch, current, failed>>

-----------------------------------------------------------------------------
HandlerStep == HandleRead \/ RunTimer \/ CallbackReturns \/ EndHandleRead

Add == \E t \in Timers, when \in Times, interval \in Intervals \cup {0} :
         AddOnLoop(t, when, interval) \/ AddElsewhere(t, when, interval)

Cancel == \E t \in Timers : CancelOnLoop(t) \/ CancelElsewhere(t)

Next == /\ failed = "none"
        /\ Tick \/ PollReturns \/ HandlerStep \/ Add \/ Cancel \/ RunTask

(***************************************************************************)
(* Fairness: time passes; epoll_wait() reports a readable timerfd; the     *)
(* loop thread is scheduled and callbacks return; a queued closure is run  *)
(* although other iterations come first (TaskEventuallyRuns of EventLoop). *)
(***************************************************************************)
Fairness == /\ WF_vars(failed = "none" /\ Tick)
            /\ WF_vars(failed = "none" /\ PollReturns)
            /\ WF_vars(failed = "none" /\ HandlerStep)
            /\ SF_vars(failed = "none" /\ RunTask)

Spec == Init /\ [][Next]_vars

FairSpec == Spec /\ Fairness

-----------------------------------------------------------------------------
(* Properties.                                                             *)

(***************************************************************************)
(* Whatever the order of adds, cancels and expirations, no assertion of    *)
(* addTimer() and handleRead() fails and no deleted Timer is touched, as   *)
(* long as callbacks leave alone the timers that expired with them (a      *)
(* callback that cancels one, CancelsExpired, deletes a Timer that         *)
(* handleRead() goes on to run, or to find not expired at a reused address *)
(* where assert(timer->expired(now)) fails).                               *)
(***************************************************************************)
AssertionsHold == failed = "none"

(***************************************************************************)
(* No timer is slept through: outside the handler the timerfd is armed for *)
(* the first entry or earlier, up to the one-instant minimum.              *)
(***************************************************************************)
TimerfdCoversFirst ==
  pc \in {"idle", "dispatch"} /\ timers_ # {} => armed <= Expiry(First(timers_)[1])

\* The places that refer to the timer at t.
References(t) ==
  Cardinality({e \in timers_ : e[2] = t}) + Cardinality({e \in batch : e[2] = t})
    + (IF current = t THEN 1 ELSE 0)
    + Cardinality({i \in DOMAIN tasks : tasks[i].timer = t /\ tasks[i].op = "add"})

(***************************************************************************)
(* Every Timer that exists is referred to from exactly one place, and a    *)
(* deleted one from none: no leak, no double delete, no timer run twice    *)
(* for one expiration.  Its entry carries the Timer's own instant, without *)
(* which cancelTimer() would not find it.                                  *)
(***************************************************************************)
EachTimerOnce ==
  /\ TypeOK
  /\ \A t \in Timers : References(t) = IF t \in DOMAIN timer THEN 1 ELSE 0
  /\ \A e \in timers_ \cup batch : timer[e[2]].when = e[1]

(***************************************************************************)
(* Every timer added, on whatever thread, is run or cancelled.             *)
(***************************************************************************)
TimerEventuallyRuns ==
  \A t \in Timers : t \in DOMAIN timer ~> current = t \/ t \notin DOMAIN timer
=============================================================================
