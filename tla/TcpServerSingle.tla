--------------------------- MODULE TcpServerSingle ---------------------------
(***************************************************************************)
(* src/TcpServerSingle.cpp and src/Accept.cpp: a listening socket and the  *)
(* connections accepted from it, all on one loop.  What TcpConnection.tla  *)
(* shows for one connection alone is reduced here to its state, its place  *)
(* in the epoll set and its references; the subject is what several        *)
(* connections and the acceptor do to each other within one round of       *)
(* Epoll::poll(), Channel::handleEvent() and doPendingTasks().             *)
(*                                                                         *)
(* Connections are heap objects known by their address, used again after a *)
(* deletion: `conn' is the heap.  A connection is deleted when its last    *)
(* TcpConnectionPtr goes.                                                  *)
(***************************************************************************)
EXTENDS Naturals, Sequences

CONSTANTS Conns,        \* addresses a TcpConnection may be allocated at
          Accept,       \* the acceptor's channel
          NoConn,
          MaxPeers,     \* bound: peers waiting to be accepted
          MaxTasks      \* bound: closures waiting for the loop

ASSUME TcpServerSingleAssumption ==
  /\ Accept \notin Conns /\ NoConn \notin Conns \cup {Accept}
  /\ MaxPeers \in Nat
  /\ MaxTasks \in Nat

VARIABLES
  listening,     \* start() was called: acceptChannel_ is in the epoll set
  peers,         \* peers in the backlog of the listening socket
  conn,          \* the heap: the TcpConnection at each address in use
  connections_,  \* the server's set
  held,          \* connections the program keeps a TcpConnectionPtr to
  active,        \* activeChannels_, what is left of it
  pc,            \* where the loop thread is
  current,       \* the connection in whose callback the program is
  tasks,         \* forceCloseInLoop() closures, by the connection they hold
  failed         \* the assertion that failed, or "none"

vars == <<listening, peers, conn, connections_, held, active, pc, current, tasks, failed>>

Elements(s) == {s[i] : i \in DOMAIN s}

\* good: accept4() gave a descriptor and not -1.
Connection == [state : {"kConnected", "kDisconnecting", "kDisconnected"},
               polling : BOOLEAN, good : BOOLEAN,
               revents_ : SUBSET {"IN", "HUP"}]

\* Failures of the destructors of a server and what it owns.
DestructorFailures == {"destructor", "remove", "updateChannel"}

(***************************************************************************)
(* "idle" between two rounds, or in a task; "dispatch" between two         *)
(* channels of activeChannels_; "callback" in a callback of the program,   *)
(* which a connection's handler, newConnection() or a task has called.     *)
(***************************************************************************)
TypeOK ==
  /\ listening \in BOOLEAN
  /\ peers \in 0 .. MaxPeers
  /\ DOMAIN conn \subseteq Conns
  /\ \A c \in DOMAIN conn : conn[c] \in Connection
  /\ connections_ \subseteq DOMAIN conn
  /\ held \subseteq DOMAIN conn
  /\ active \subseteq Conns \cup {Accept}
  /\ pc \in {"idle", "dispatch", "callback"}
  /\ current \in DOMAIN conn \cup {NoConn}
  /\ tasks \in Seq(DOMAIN conn)
  /\ failed \in {"none", "handleClose", "handleRead", "closeConnection",
                 "useAfterFree"} \cup DestructorFailures
  /\ current # NoConn <=> pc = "callback"
  /\ active # {} => pc # "idle"

Init ==
  /\ listening = FALSE
  /\ peers = 0
  /\ conn = [c \in {} |-> 0]
  /\ connections_ = {}
  /\ held = {}
  /\ active = {}
  /\ pc = "idle"
  /\ current = NoConn
  /\ tasks = <<>>
  /\ failed = "none"

Abort(why) == /\ failed' = why
              /\ UNCHANGED <<listening, peers, conn, connections_, held, active,
                             pc, current, tasks>>

\* A heap without the connections nobody refers to any more.
Released(heap) ==
  [c \in DOMAIN heap \cap (connections_' \cup held' \cup Elements(tasks') \cup {current'})
     |-> heap[c]]

-----------------------------------------------------------------------------
(* The acceptor.                                                           *)

\* start(): listen() and enableRead().
Start ==
  /\ ~listening
  /\ pc = "idle"
  /\ listening' = TRUE
  /\ UNCHANGED <<peers, conn, connections_, held, active, pc, current, tasks, failed>>

PeerConnects ==
  /\ listening
  /\ peers < MaxPeers
  /\ peers' = peers + 1
  /\ UNCHANGED <<listening, conn, connections_, held, active, pc, current, tasks, failed>>

(***************************************************************************)
(* newConnection(): the connection, whatever its descriptor, goes into     *)
(* connections_, connectEstablished() puts its channel into the epoll set  *)
(* (polling is set even when epoll_ctl() refuses the descriptor), and the  *)
(* program is told.                                                        *)
(***************************************************************************)
NewConnection(c, good) ==
  /\ conn' = [d \in DOMAIN conn \cup {c} |->
                IF d = c THEN [state |-> "kConnected", polling |-> TRUE,
                               good |-> good, revents_ |-> {}]
                ELSE conn[d]]
  /\ connections_' = connections_ \cup {c}
  /\ current' = c
  /\ pc' = "callback"

\* Acceptor::handleRead() after a successful accept4() ...
HandleAccept(c) ==
  /\ pc = "dispatch"
  /\ Accept \in active
  /\ c \notin DOMAIN conn
  /\ peers > 0
  /\ peers' = peers - 1
  /\ NewConnection(c, TRUE)
  /\ active' = active \ {Accept}
  /\ UNCHANGED <<listening, held, tasks, failed>>

\* ... and after a failed one, which is logged and not returned from.
HandleAcceptFails(c) ==
  /\ pc = "dispatch"
  /\ Accept \in active
  /\ c \notin DOMAIN conn
  /\ NewConnection(c, FALSE)
  /\ active' = active \ {Accept}
  /\ UNCHANGED <<listening, peers, held, tasks, failed>>

-----------------------------------------------------------------------------
(* A round of the loop.                                                    *)

\* epoll_wait() reports of any connection in its set what the peer has done.
Reported(c) == conn[c].polling /\ conn[c].good

(***************************************************************************)
(* events says what is reported of which channels; the acceptor's is left  *)
(* out when no address is free (bound).                                    *)
(***************************************************************************)
PollReturns(channels, events) ==
  /\ pc = "idle"
  /\ channels # {}
  /\ Accept \in channels => listening /\ peers > 0 /\ Conns # DOMAIN conn
  /\ \A c \in channels \ {Accept} : Reported(c)
  /\ active' = channels
  /\ conn' = [c \in DOMAIN conn |->
                [conn[c] EXCEPT !.revents_ = IF c \in channels THEN events[c] ELSE @]]
  /\ pc' = "dispatch"
  /\ UNCHANGED <<listening, peers, connections_, held, current, tasks, failed>>

\* Mutant of HandleClose: the channel stays in the epoll set.
HandleCloseNoRemove(c) ==
  /\ conn' = [conn EXCEPT ![c].state = "kDisconnected"]
  /\ connections_' = connections_ \ {c}
  /\ current' = c
  /\ pc' = "callback"

\* handleClose(): removeChannel(), closeConnection(), the program is told.
HandleClose(c) ==
  /\ conn' = [conn EXCEPT ![c].state = "kDisconnected", ![c].polling = FALSE]
  /\ connections_' = connections_ \ {c}
  /\ current' = c
  /\ pc' = "callback"

(***************************************************************************)
(* Channel::handleEvent() of a connection, gone or not: HUP without IN     *)
(* closes it; of IN handleRead() makes "data" for the message callback,    *)
(* the "end" of the stream, which closes, or an "error", which is logged.  *)
(* closeConnection() asserts that the connection is in the set.            *)
(***************************************************************************)
HandleEvent(c, got) ==
  /\ pc = "dispatch"
  /\ c \in active \ {Accept}
  /\ IF c \notin DOMAIN conn THEN Abort("useAfterFree")
     ELSE LET readable == "IN" \in conn[c].revents_
              closes   == IF readable THEN got = "end" ELSE "HUP" \in conn[c].revents_
          IN IF conn[c].state = "kDisconnected"
             THEN Abort(IF readable THEN "handleRead" ELSE "handleClose")
             ELSE IF closes /\ c \notin connections_ THEN Abort("closeConnection")
             ELSE /\ active' = active \ {c}
                  /\ CASE closes -> HandleClose(c)
                       [] ~closes /\ readable /\ got = "data" ->
                            current' = c /\ pc' = "callback"
                              /\ UNCHANGED <<conn, connections_>>
                       [] OTHER -> UNCHANGED <<conn, connections_, current, pc>>
                  /\ UNCHANGED <<listening, peers, held, tasks, failed>>

EndDispatch ==
  /\ pc = "dispatch"
  /\ active = {}
  /\ pc' = "idle"
  /\ UNCHANGED <<listening, peers, conn, connections_, held, active, current, tasks, failed>>

\* forceCloseInLoop(); the closure's TcpConnectionPtr goes with it.
RunTask ==
  /\ pc = "idle"
  /\ tasks # <<>>
  /\ LET c == Head(tasks)
     IN IF conn[c].state = "kDisconnected"
        THEN /\ tasks' = Tail(tasks)
             /\ UNCHANGED <<connections_, held, current, pc>>
             /\ conn' = Released(conn)
             /\ UNCHANGED <<listening, peers, active, failed>>
        ELSE IF c \notin connections_ THEN Abort("closeConnection")
        ELSE /\ HandleClose(c)
             /\ tasks' = Tail(tasks)
             /\ UNCHANGED <<listening, peers, held, active, failed>>

-----------------------------------------------------------------------------
(* The program, on the loop thread.                                        *)

\* The program may call what it holds, and the connection it is told about.
Known == held \cup (DOMAIN conn \cap {current})

InUserCode == pc \in {"idle", "callback"}

\* It keeps the TcpConnectionPtr its callback is given.
Hold ==
  /\ pc = "callback"
  /\ current \notin held
  /\ held' = held \cup {current}
  /\ UNCHANGED <<listening, peers, conn, connections_, active, pc, current, tasks, failed>>

Drop(c) ==
  /\ InUserCode
  /\ c \in held
  /\ held' = held \ {c}
  /\ UNCHANGED <<listening, peers, connections_, active, pc, current, tasks, failed>>
  /\ conn' = Released(conn)

\* Mutant of ForceClose: the connection is closed at once.
ForceCloseAtOnce(c) ==
  /\ InUserCode
  /\ c \in Known
  /\ conn[c].state # "kDisconnected"
  /\ Len(tasks) < MaxTasks
  /\ connections_' = connections_ \ {c}
  /\ UNCHANGED <<listening, peers, held, active, pc, current, tasks, failed>>
  /\ conn' = Released([conn EXCEPT ![c].state = "kDisconnected", ![c].polling = FALSE])

\* forceClose() changes the state and queues the rest.
ForceClose(c) ==
  /\ InUserCode
  /\ c \in Known
  /\ conn[c].state # "kDisconnected"
  /\ Len(tasks) < MaxTasks
  /\ conn' = [conn EXCEPT ![c].state = "kDisconnecting"]
  /\ tasks' = Append(tasks, c)
  /\ UNCHANGED <<listening, peers, connections_, held, active, pc, current, failed>>

\* The callback returns, and with it the handler that holds the connection.
CallbackReturns ==
  /\ pc = "callback"
  /\ pc' = "dispatch"
  /\ current' = NoConn
  /\ UNCHANGED <<listening, peers, connections_, held, active, tasks, failed>>
  /\ conn' = Released(conn)

(***************************************************************************)
(* ~TcpServerSingle(): connections_ goes first, and with it every open     *)
(* connection nobody else holds; then ~Acceptor() takes its channel out of *)
(* the epoll set by disableAll(), or fails to when it was never in, and    *)
(* calls remove(), which asserts that it is still there.                   *)
(***************************************************************************)
Destroy ==
  /\ pc = "idle"
  /\ Abort(IF \E c \in connections_ \ (held \cup Elements(tasks)) :
                conn[c].state # "kDisconnected"
           THEN "destructor"
           ELSE IF listening THEN "remove" ELSE "updateChannel")

-----------------------------------------------------------------------------
Poll ==
  \E channels \in SUBSET (DOMAIN conn \cup {Accept}) :
    \E events \in [channels -> {{"IN"}, {"HUP"}, {"IN", "HUP"}}] :
      PollReturns(channels, events)

Handler ==
  \E c \in Conns :
    \/ HandleAccept(c) \/ HandleAcceptFails(c)
    \/ \E got \in {"data", "end", "error"} : HandleEvent(c, got)

Program == Hold \/ CallbackReturns \/ \E c \in Conns : Drop(c) \/ ForceClose(c)

Next ==
  /\ failed = "none"
  /\ Start \/ PeerConnects \/ Poll \/ Handler \/ EndDispatch \/ RunTask \/ Program \/ Destroy

Spec == Init /\ [][Next]_vars

-----------------------------------------------------------------------------
(* Properties.                                                             *)

(***************************************************************************)
(* The server's set, the epoll set and the states of the connections say   *)
(* the same: connections_ holds exactly the connections that are not       *)
(* disconnected, and exactly those are polled.                             *)
(***************************************************************************)
ServerKnowsOpen ==
  /\ TypeOK
  /\ connections_ = {c \in DOMAIN conn : conn[c].state # "kDisconnected"}
  /\ connections_ = {c \in DOMAIN conn : conn[c].polling}

(***************************************************************************)
(* A channel in activeChannels_ stays that of an open connection until its *)
(* turn comes, whatever the program closes or lets go of in the callback   *)
(* of another one, and no connection accepted at a freed address takes its *)
(* place.  So no event reaches a deleted connection, and as long as the    *)
(* server is there no assertion of handleRead(), handleClose() and         *)
(* closeConnection() fails.                                                *)
(***************************************************************************)
ReportedStayOpen ==
  /\ \A c \in active \ {Accept} :
       c \in connections_ /\ conn[c].good /\ conn[c].revents_ # {}
  /\ failed \in {"none"} \cup DestructorFailures
=============================================================================
