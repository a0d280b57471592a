---------------------------- MODULE TaskExecutor ----------------------------
(***************************************************************************)
(* What an event loop promises to those who hand it tasks: every task it   *)
(* accepts joins the end of one line, and tasks are run from the front of  *)
(* that line, one at a time, none twice and none skipped.  EventLoop.tla   *)
(* is shown to implement this specification.                               *)
(***************************************************************************)
EXTENDS Sequences

CONSTANT Tasks      \* the closures handed to the loop, each an instance of its own

VARIABLES waiting,  \* accepted and not yet run, oldest first
          executed  \* already run, oldest first

vars == <<waiting, executed>>

Init == waiting = <<>> /\ executed = <<>>

Submit(t) == /\ waiting' = Append(waiting, t)
             /\ UNCHANGED executed

Execute == /\ waiting # <<>>
           /\ executed' = Append(executed, Head(waiting))
           /\ waiting' = Tail(waiting)

Next == Execute \/ \E t \in Tasks : Submit(t)

Spec == Init /\ [][Next]_vars
=============================================================================
