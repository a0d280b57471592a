----------------------------- MODULE TcpServer ------------------------------
(***************************************************************************)
(* src/TcpServer.{h,cpp}: any thread starts the server, the base loop      *)
(* makes and starts baseServer_, a TcpServerSingle.  Then startInLoop()    *)
(* makes a Thread for every further loop and waits for its pointer in      *)
(* eventLoops_, but does not start it: with numThreads_ > 1 the base loop  *)
(* waits for ever, runInThread() is never called, and eventLoops_ holds    *)
(* nullptr only.                                                           *)
(***************************************************************************)
EXTENDS TcpServerSingle, FiniteSets

CONSTANTS Callers,   \* threads, other than the base loop's, that call start()
          Counts     \* arguments of setNumThread()

ASSUME TcpServerAssumption == Counts \subseteq Nat \ {0}

VARIABLES
  started_, numThreads_,
  exchanged,   \* callers of start() between the exchange and runInLoop()
  queued,      \* closures of startInLoop() the base loop has to run
  phase        \* of the TcpServer object

serverVars == <<started_, numThreads_, exchanged, queued, phase>>

(***************************************************************************)
(* "built"; "waiting" in startInLoop(), for a loop that does not come;     *)
(* "serving"; "destroyed"; and two ends: "aborted" by the assertion of     *)
(* setNumThread(), "dangling" when start() goes on in a destroyed object.  *)
(***************************************************************************)
ServerTypeOK ==
  /\ started_ \in BOOLEAN
  /\ numThreads_ \in Counts \cup {1}
  /\ exchanged \subseteq Callers
  /\ queued \in Nat
  /\ phase \in {"built", "waiting", "serving", "destroyed", "aborted", "dangling"}
  /\ listening <=> phase \in {"waiting", "serving"}

InitServer ==
  /\ Init
  /\ started_ = FALSE
  /\ numThreads_ = 1
  /\ exchanged = {}
  /\ queued = 0
  /\ phase = "built"

\* On the base loop's thread, before the server is started.
SetNumThread(n) ==
  /\ phase = "built" /\ pc = "idle"
  /\ IF started_ THEN phase' = "aborted" /\ UNCHANGED numThreads_
                 ELSE numThreads_' = n /\ UNCHANGED phase
  /\ UNCHANGED <<vars, started_, exchanged, queued>>

\* Mutant of firstCall: started_ is tested, and set when the closure is queued.
firstCallRaced == ~started_ \/ exchanged # {}

\* started_.exchange(true) returned false.
firstCall == ~started_

\* start() on another thread: the exchange ...
BeginStart(t) ==
  /\ phase # "destroyed" /\ t \notin exchanged
  /\ firstCall
  /\ started_' = TRUE
  /\ exchanged' = exchanged \cup {t}
  /\ UNCHANGED <<vars, numThreads_, queued, phase>>

\* ... and runInLoop(), which reads baseLoop_.
QueueStart(t) ==
  /\ t \in exchanged
  /\ exchanged' = exchanged \ {t}
  /\ IF phase = "destroyed" THEN phase' = "dangling" /\ UNCHANGED queued
                            ELSE queued' = queued + 1 /\ UNCHANGED phase
  /\ UNCHANGED <<vars, started_, numThreads_>>

\* Mutant of startInLoop: baseServer_ is made and not started.
startInLoopMakes == phase' = "serving" /\ UNCHANGED vars

\* A second call would destroy a listening baseServer_, and abort.
startInLoop ==
  IF phase = "built"
  THEN Start /\ phase' = (IF numThreads_ > 1 THEN "waiting" ELSE "serving")
  ELSE phase' = (IF phase = "destroyed" THEN "dangling" ELSE "aborted") /\ UNCHANGED vars

\* doPendingTasks(): no other closure can be queued before the server listens.
RunStart ==
  /\ pc = "idle" /\ phase # "waiting"
  /\ queued > 0
  /\ queued' = queued - 1
  /\ startInLoop
  /\ UNCHANGED <<started_, numThreads_, exchanged>>

\* start() on the base loop's thread runs startInLoop() at once.
StartHere ==
  /\ pc = "idle" /\ phase = "built"
  /\ firstCall
  /\ started_' = TRUE
  /\ startInLoop
  /\ UNCHANGED <<numThreads_, exchanged, queued>>

\* ~TcpServer(): eventLoops_ and threads_ are empty, and baseServer_ may be.
DestroyServer ==
  /\ pc = "idle"
  /\ \/ phase = "built" /\ phase' = "destroyed" /\ UNCHANGED vars
     \/ phase = "serving" /\ Destroy /\ UNCHANGED phase
  /\ UNCHANGED <<started_, numThreads_, exchanged, queued>>

\* What baseServer_ does when the base loop is not stuck in startInLoop().
Serve ==
  /\ phase = "serving"
  /\ Poll \/ Handler \/ EndDispatch \/ RunTask \/ Program
  /\ UNCHANGED serverVars

Peers == PeerConnects /\ UNCHANGED serverVars

Running == failed = "none" /\ phase \notin {"aborted", "dangling"}

Starting == RunStart \/ \E t \in Callers : QueueStart(t)

NextServer ==
  /\ Running
  /\ \/ \E n \in Counts : SetNumThread(n)
     \/ \E t \in Callers : BeginStart(t)
     \/ Starting \/ StartHere \/ DestroyServer \/ Serve \/ Peers

\* The callers of start() are scheduled, and the base loop runs its closures.
SpecServer == /\ InitServer /\ [][NextServer]_<<vars, serverVars>>
              /\ WF_<<vars, serverVars>>(Running /\ Starting)

-----------------------------------------------------------------------------
(* Properties, with those of TcpServerSingle.                              *)

(***************************************************************************)
(* However many threads call start() at once, startInLoop() runs once: a   *)
(* second run would replace, and so destroy, a baseServer_ that listens.   *)
(***************************************************************************)
StartsOnce ==
  /\ ServerTypeOK
  /\ Cardinality(exchanged) + queued
       <= IF phase \in {"built", "destroyed", "aborted", "dangling"} THEN 1 ELSE 0

(***************************************************************************)
(* A server that was started, by whichever thread, comes to listen, unless *)
(* it is destroyed first or setNumThread() comes late.                     *)
(***************************************************************************)
StartedListens == started_ ~> listening \/ phase \in {"destroyed", "aborted", "dangling"}
=============================================================================
