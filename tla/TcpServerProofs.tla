-------------------------- MODULE TcpServerProofs ---------------------------
(***************************************************************************)
(* Proofs about TcpServerSingle.tla and TcpServer.tla, for any number of   *)
(* connections, peers, closures and callers of start(): the server knows   *)
(* its open connections, an event reported of one finds it open, and the   *)
(* server a TcpServer makes is started once and behaves as one of its own. *)
(***************************************************************************)
EXTENDS TcpServer, FiniteSetTheorems, SequenceTheorems, TLAPS

-----------------------------------------------------------------------------
(* TcpServerSingle: type correctness.                                      *)

LEMMA ConnectionFields ==
  \A r \in Connection : /\ r.state \in {"kConnected", "kDisconnecting", "kDisconnected"}
                        /\ r.polling \in BOOLEAN /\ r.good \in BOOLEAN
                        /\ r.revents_ \in SUBSET {"IN", "HUP"}
BY DEF Connection

\* The closures of a queue hold what its type says.
LEMMA ElementsOf ==
  ASSUME NEW S, NEW s \in Seq(S)
  PROVE  Elements(s) \subseteq S /\ s \in Seq(Elements(s))
BY DEF Elements

(***************************************************************************)
(* Letting go of references: what the server, the program, the closures    *)
(* and the handler still refer to stays, as it was.                        *)
(***************************************************************************)
LEMMA ReleasedKeeps ==
  ASSUME NEW heap, \A c \in DOMAIN heap : heap[c] \in Connection,
         connections_' \subseteq DOMAIN heap, held' \subseteq DOMAIN heap,
         tasks' \in Seq(DOMAIN heap), current' \in DOMAIN heap \cup {NoConn},
         conn' = Released(heap)
  PROVE  /\ DOMAIN conn' \subseteq DOMAIN heap
         /\ \A c \in DOMAIN conn' : conn'[c] = heap[c] /\ conn'[c] \in Connection
         /\ connections_' \subseteq DOMAIN conn'
         /\ held' \subseteq DOMAIN conn'
         /\ tasks' \in Seq(DOMAIN conn')
         /\ current' \in DOMAIN conn' \cup {NoConn}
<1>1. Elements(tasks') \subseteq DOMAIN heap /\ tasks' \in Seq(Elements(tasks'))
  BY ElementsOf
<1>2. DOMAIN conn' =
        DOMAIN heap \cap (connections_' \cup held' \cup Elements(tasks') \cup {current'})
  BY DEF Released
<1>3. \A c \in DOMAIN conn' : conn'[c] = heap[c]
  BY DEF Released
<1>4. Elements(tasks') \subseteq DOMAIN conn'
  BY <1>1, <1>2
<1>5. tasks' \in Seq(DOMAIN conn')
  BY <1>1, <1>4
<1> QED BY <1>2, <1>3, <1>5

\* The handlers that change one connection leave the heap typed.
LEMMA HandleCloseType ==
  ASSUME TypeOK, NEW c \in DOMAIN conn, HandleClose(c)
  PROVE  /\ DOMAIN conn' = DOMAIN conn
         /\ \A d \in DOMAIN conn' : conn'[d] \in Connection
         /\ \A d \in DOMAIN conn \ {c} : conn'[d] = conn[d]
         /\ conn'[c].state = "kDisconnected" /\ ~conn'[c].polling
         /\ connections_' = connections_ \ {c}
         /\ current' = c /\ pc' = "callback"
<1> DEFINE r == [conn[c] EXCEPT !.state = "kDisconnected", !.polling = FALSE]
<1>1. /\ conn' = [conn EXCEPT ![c] = r]
      /\ connections_' = connections_ \ {c}
      /\ current' = c /\ pc' = "callback"
  BY DEF HandleClose
<1>2. conn[c] \in Connection
  BY DEF TypeOK
<1>3. r \in Connection /\ r.state = "kDisconnected" /\ ~r.polling
  BY <1>2 DEF Connection
<1> HIDE DEF r
<1> QED BY <1>1, <1>3 DEF TypeOK

LEMMA NewConnectionType ==
  ASSUME TypeOK, NEW c \in Conns, c \notin DOMAIN conn, NEW good \in BOOLEAN,
         NewConnection(c, good)
  PROVE  /\ DOMAIN conn' = DOMAIN conn \cup {c}
         /\ \A d \in DOMAIN conn' : conn'[d] \in Connection
         /\ \A d \in DOMAIN conn : conn'[d] = conn[d]
         /\ conn'[c].state = "kConnected" /\ conn'[c].polling
         /\ connections_' = connections_ \cup {c}
         /\ current' = c /\ pc' = "callback"
BY DEF NewConnection, TypeOK, Connection
LEMMA TypeStep == TypeOK /\ [Next]_vars => TypeOK'
<1> SUFFICES ASSUME TypeOK, [Next]_vars
             PROVE  TypeOK'
  OBVIOUS
<1> USE TcpServerSingleAssumption DEF TypeOK, DestructorFailures
<1>1. CASE Start
  BY <1>1 DEF Start
<1>2. CASE PeerConnects
  BY <1>2 DEF PeerConnects
<1>3. ASSUME NEW channels \in SUBSET (DOMAIN conn \cup {Accept}),
             NEW events \in [channels -> {{"IN"}, {"HUP"}, {"IN", "HUP"}}],
             PollReturns(channels, events)
      PROVE  TypeOK'
  <2>1. DOMAIN conn' = DOMAIN conn
    BY <1>3 DEF PollReturns
  <2>2. \A c \in DOMAIN conn' : conn'[c] \in Connection
    <3> SUFFICES ASSUME NEW c \in DOMAIN conn
                 PROVE  conn'[c] \in Connection
      BY <2>1
    <3>1. conn[c] \in Connection
      OBVIOUS
    <3>2. conn'[c] = [conn[c] EXCEPT !.revents_ = IF c \in channels THEN events[c] ELSE @]
      BY <1>3 DEF PollReturns
    <3>3. (IF c \in channels THEN events[c] ELSE conn[c].revents_) \in SUBSET {"IN", "HUP"}
      <4>1. CASE c \in channels
        <5>1. events[c] \in {{"IN"}, {"HUP"}, {"IN", "HUP"}}
          BY <4>1
        <5> QED BY <4>1, <5>1
      <4>2. CASE c \notin channels
        BY <3>1, <4>2, ConnectionFields
      <4> QED BY <4>1, <4>2
    <3> QED BY <3>1, <3>2, <3>3 DEF Connection
  <2> QED BY <1>3, <2>1, <2>2 DEF PollReturns
<1>4. ASSUME NEW c \in Conns, HandleAccept(c)
      PROVE  TypeOK'
  <2>1. /\ DOMAIN conn' = DOMAIN conn \cup {c}
        /\ \A d \in DOMAIN conn' : conn'[d] \in Connection
        /\ connections_' = connections_ \cup {c}
        /\ current' = c /\ pc' = "callback"
    BY <1>4, NewConnectionType DEF HandleAccept
  <2> QED BY <1>4, <2>1 DEF HandleAccept
<1>5. ASSUME NEW c \in Conns, HandleAcceptFails(c)
      PROVE  TypeOK'
  <2>1. /\ DOMAIN conn' = DOMAIN conn \cup {c}
        /\ \A d \in DOMAIN conn' : conn'[d] \in Connection
        /\ connections_' = connections_ \cup {c}
        /\ current' = c /\ pc' = "callback"
    BY <1>5, NewConnectionType DEF HandleAcceptFails
  <2> QED BY <1>5, <2>1 DEF HandleAcceptFails
<1>6. ASSUME NEW c \in Conns, NEW got \in {"data", "end", "error"}, HandleEvent(c, got)
      PROVE  TypeOK'
  <2>1. CASE failed' \in {"useAfterFree", "handleRead", "handleClose", "closeConnection"}
             /\ UNCHANGED <<listening, peers, conn, connections_, held, active, pc,
                            current, tasks>>
    BY <2>1
  <2>2. CASE /\ c \in DOMAIN conn
             /\ active' = active \ {c}
             /\ HandleClose(c)
             /\ UNCHANGED <<listening, peers, held, tasks, failed>>
    BY <2>2, HandleCloseType
  <2>3. CASE /\ c \in DOMAIN conn
             /\ active' = active \ {c}
             /\ current' = c /\ pc' = "callback"
             /\ UNCHANGED <<listening, peers, conn, connections_, held, tasks, failed>>
    BY <2>3
  <2>4. CASE /\ active' = active \ {c}
             /\ UNCHANGED <<listening, peers, conn, connections_, held, current, pc,
                            tasks, failed>>
    BY <2>4
  <2> QED BY <1>6, <2>1, <2>2, <2>3, <2>4 DEF HandleEvent, Abort
<1>7. CASE EndDispatch
  BY <1>7 DEF EndDispatch
<1>8. CASE RunTask
  <2>1. /\ pc = "idle" /\ tasks # <<>>
        /\ Head(tasks) \in DOMAIN conn
        /\ Tail(tasks) \in Seq(DOMAIN conn)
    BY <1>8 DEF RunTask
  <2>2. CASE failed' = "closeConnection"
             /\ UNCHANGED <<listening, peers, conn, connections_, held, active, pc,
                            current, tasks>>
    BY <2>2
  <2>3. CASE /\ tasks' = Tail(tasks)
             /\ UNCHANGED <<connections_, held, current, pc>>
             /\ conn' = Released(conn)
             /\ UNCHANGED <<listening, peers, active, failed>>
    BY <2>1, <2>3, ReleasedKeeps
  <2>4. CASE /\ HandleClose(Head(tasks))
             /\ tasks' = Tail(tasks)
             /\ UNCHANGED <<listening, peers, held, active, failed>>
    BY <2>1, <2>4, HandleCloseType
  <2> QED BY <1>8, <2>2, <2>3, <2>4 DEF RunTask, Abort
<1>9. CASE Hold
  BY <1>9 DEF Hold
<1>10. CASE CallbackReturns
  BY <1>10, ReleasedKeeps DEF CallbackReturns
<1>11. ASSUME NEW c \in Conns, Drop(c)
       PROVE  TypeOK'
  BY <1>11, ReleasedKeeps DEF Drop
<1>12. ASSUME NEW c \in Conns, ForceClose(c)
       PROVE  TypeOK'
  <2>1. c \in DOMAIN conn
    BY <1>12 DEF ForceClose, Known
  <2>2. tasks' \in Seq(DOMAIN conn)
    BY <1>12, <2>1 DEF ForceClose
  <2>3. /\ DOMAIN conn' = DOMAIN conn
        /\ \A d \in DOMAIN conn' : conn'[d] \in Connection
    BY <1>12, <2>1 DEF ForceClose, Connection
  <2> QED BY <1>12, <2>2, <2>3 DEF ForceClose
<1>13. CASE Destroy
  BY <1>13 DEF Destroy, Abort
<1>14. CASE UNCHANGED vars
  BY <1>14 DEF vars
<1> QED
  BY <1>1, <1>2, <1>3, <1>4, <1>5, <1>6, <1>7, <1>8, <1>9, <1>10, <1>11, <1>12, <1>13,
     <1>14 DEF Next, Poll, Handler, Program
-----------------------------------------------------------------------------
(* TcpServerSingle: the inductive invariant.                               *)

Open == {c \in DOMAIN conn : conn[c].state # "kDisconnected"}
Polled == {c \in DOMAIN conn : conn[c].polling}

(***************************************************************************)
(* ServerKnowsOpen and ReportedStayOpen need each other: the handlers find *)
(* the connections they are called for open because only their own turn,   *)
(* or a task, which runs in no round, closes them.                         *)
(***************************************************************************)
ServerInv == ServerKnowsOpen /\ ReportedStayOpen

\* What stays true of the connections, when open ones stay as they were.
LEMMA OpenKept ==
  ASSUME ServerInv, DOMAIN conn' \subseteq DOMAIN conn,
         \A c \in DOMAIN conn' : conn'[c] = conn[c],
         connections_ \subseteq DOMAIN conn', UNCHANGED connections_
  PROVE  /\ connections_' = Open' /\ connections_' = Polled'
         /\ active' \subseteq active => \A c \in active' \ {Accept} :
              c \in connections_' /\ conn'[c].good /\ conn'[c].revents_ # {}
<1>1. connections_ = Open /\ connections_ = Polled
  BY DEF ServerInv, ServerKnowsOpen, Open, Polled
<1>2. connections_' = Open' /\ connections_' = Polled'
  BY <1>1 DEF Open, Polled
<1> QED BY <1>2 DEF ServerInv, ReportedStayOpen

\* A connection that is accepted.
LEMMA OpenAccepted ==
  ASSUME ServerInv, NEW c \in Conns, c \notin DOMAIN conn, NEW good \in BOOLEAN,
         NewConnection(c, good), active' \subseteq active
  PROVE  /\ connections_' = Open' /\ connections_' = Polled'
         /\ \A d \in active' \ {Accept} :
              d \in connections_' /\ conn'[d].good /\ conn'[d].revents_ # {}
<1>1. connections_ = Open /\ connections_ = Polled /\ TypeOK
  BY DEF ServerInv, ServerKnowsOpen, Open, Polled
<1>2. /\ DOMAIN conn' = DOMAIN conn \cup {c}
      /\ \A d \in DOMAIN conn : conn'[d] = conn[d]
      /\ conn'[c].state = "kConnected" /\ conn'[c].polling
      /\ connections_' = connections_ \cup {c}
  BY <1>1, NewConnectionType
<1>3. connections_' = Open' /\ connections_' = Polled'
  BY <1>1, <1>2 DEF Open, Polled
<1>4. \A d \in active' \ {Accept} : /\ d \in connections_ /\ d \in DOMAIN conn
                                    /\ conn[d].good /\ conn[d].revents_ # {}
  BY <1>1 DEF ServerInv, ReportedStayOpen, TypeOK
<1> QED BY <1>2, <1>3, <1>4

\* A connection that is closed, in its own turn or by a task.
LEMMA OpenClosed ==
  ASSUME ServerInv, NEW c \in DOMAIN conn, HandleClose(c),
         active' \subseteq active \ {c}
  PROVE  /\ connections_' = Open' /\ connections_' = Polled'
         /\ \A d \in active' \ {Accept} :
              d \in connections_' /\ conn'[d].good /\ conn'[d].revents_ # {}
<1>1. connections_ = Open /\ connections_ = Polled /\ TypeOK
  BY DEF ServerInv, ServerKnowsOpen, Open, Polled
<1>2. /\ DOMAIN conn' = DOMAIN conn
      /\ \A d \in DOMAIN conn \ {c} : conn'[d] = conn[d]
      /\ conn'[c].state = "kDisconnected" /\ ~conn'[c].polling
      /\ connections_' = connections_ \ {c}
  BY <1>1, HandleCloseType
<1>3. connections_' = Open' /\ connections_' = Polled'
  BY <1>1, <1>2 DEF Open, Polled
<1>4. \A d \in active' \ {Accept} : /\ d \in connections_ /\ d \in DOMAIN conn \ {c}
                                    /\ conn[d].good /\ conn[d].revents_ # {}
  BY <1>1 DEF ServerInv, ReportedStayOpen, TypeOK
<1> QED BY <1>2, <1>3, <1>4

LEMMA ServerStep == ServerInv /\ [Next]_vars => ServerInv'
<1> SUFFICES ASSUME ServerInv, [Next]_vars
             PROVE  ServerInv'
  OBVIOUS
<1>1. TypeOK /\ TypeOK'
  BY TypeStep DEF ServerInv, ServerKnowsOpen
<1>2. connections_ = Open /\ connections_ = Polled
  BY DEF ServerInv, ServerKnowsOpen, Open, Polled
<1> SUFFICES /\ connections_' = Open' /\ connections_' = Polled'
             /\ \A c \in active' \ {Accept} :
                  c \in connections_' /\ conn'[c].good /\ conn'[c].revents_ # {}
             /\ failed' \in {"none"} \cup DestructorFailures
  BY <1>1 DEF ServerInv, ServerKnowsOpen, ReportedStayOpen, Open, Polled
<1>3. failed \in {"none"} \cup DestructorFailures
  BY DEF ServerInv, ReportedStayOpen
<1>4. CASE /\ UNCHANGED <<conn, connections_>>
           /\ active' \subseteq active
           /\ failed' \in {failed} \cup DestructorFailures
  <2>1. connections_ \subseteq DOMAIN conn
    BY <1>1 DEF TypeOK
  <2>2. /\ DOMAIN conn' \subseteq DOMAIN conn
        /\ \A c \in DOMAIN conn' : conn'[c] = conn[c]
        /\ connections_ \subseteq DOMAIN conn'
    BY <1>4, <2>1
  <2> QED BY <1>3, <1>4, <2>2, OpenKept
<1>5. CASE Start \/ PeerConnects \/ EndDispatch \/ Hold \/ Destroy \/ UNCHANGED vars
  BY <1>4, <1>5
     DEF Start, PeerConnects, EndDispatch, Hold, Destroy, Abort, DestructorFailures, vars
<1>6. ASSUME NEW channels \in SUBSET (DOMAIN conn \cup {Accept}),
             NEW events \in [channels -> {{"IN"}, {"HUP"}, {"IN", "HUP"}}],
             PollReturns(channels, events)
      PROVE  /\ connections_' = Open' /\ connections_' = Polled'
             /\ \A c \in active' \ {Accept} :
                  c \in connections_' /\ conn'[c].good /\ conn'[c].revents_ # {}
             /\ failed' \in {"none"} \cup DestructorFailures
  <2>1. /\ \A c \in channels \ {Accept} : Reported(c)
        /\ active' = channels
        /\ DOMAIN conn' = DOMAIN conn
        /\ UNCHANGED <<connections_, failed>>
    BY <1>6 DEF PollReturns
  <2>2. \A c \in DOMAIN conn :
          /\ conn'[c].state = conn[c].state
          /\ conn'[c].polling = conn[c].polling
          /\ conn'[c].good = conn[c].good
          /\ c \in channels => conn'[c].revents_ = events[c]
    <3> SUFFICES ASSUME NEW c \in DOMAIN conn
                 PROVE  /\ conn'[c].state = conn[c].state
                        /\ conn'[c].polling = conn[c].polling
                        /\ conn'[c].good = conn[c].good
                        /\ c \in channels => conn'[c].revents_ = events[c]
      OBVIOUS
    <3>1. conn[c] \in Connection
      BY <1>1 DEF TypeOK
    <3>2. conn'[c] = [conn[c] EXCEPT !.revents_ = IF c \in channels THEN events[c] ELSE @]
      BY <1>6 DEF PollReturns
    <3> QED BY <3>1, <3>2 DEF Connection
  <2>3. connections_' = Open' /\ connections_' = Polled'
    BY <1>2, <2>1, <2>2 DEF Open, Polled
  <2>4. \A c \in channels : events[c] # {}
    OBVIOUS
  <2>5. \A c \in active' \ {Accept} :
          c \in connections_' /\ conn'[c].good /\ conn'[c].revents_ # {}
    BY <1>2, <2>1, <2>2, <2>4 DEF Reported, Polled
  <2> QED BY <1>3, <2>1, <2>3, <2>5
<1>7. ASSUME NEW c \in Conns, HandleAccept(c) \/ HandleAcceptFails(c)
      PROVE  /\ connections_' = Open' /\ connections_' = Polled'
             /\ \A d \in active' \ {Accept} :
                  d \in connections_' /\ conn'[d].good /\ conn'[d].revents_ # {}
             /\ failed' \in {"none"} \cup DestructorFailures
  <2>1. /\ c \notin DOMAIN conn
        /\ active' \subseteq active
        /\ NewConnection(c, TRUE) \/ NewConnection(c, FALSE)
        /\ failed' = failed
    BY <1>7 DEF HandleAccept, HandleAcceptFails
  <2> QED BY <1>3, <2>1, OpenAccepted
<1>8. ASSUME NEW c \in Conns, NEW got \in {"data", "end", "error"}, HandleEvent(c, got)
      PROVE  /\ connections_' = Open' /\ connections_' = Polled'
             /\ \A d \in active' \ {Accept} :
                  d \in connections_' /\ conn'[d].good /\ conn'[d].revents_ # {}
             /\ failed' \in {"none"} \cup DestructorFailures
  <2>1. /\ c \in active \ {Accept} /\ c \in connections_ /\ c \in DOMAIN conn
        /\ conn[c].state # "kDisconnected"
    BY <1>1, <1>2, <1>8 DEF HandleEvent, ServerInv, ReportedStayOpen, TypeOK, Open
  <2>2. /\ active' = active \ {c}
        /\ failed' = failed
        /\ HandleClose(c) \/ UNCHANGED <<conn, connections_>>
    BY <1>8, <2>1 DEF HandleEvent
  <2> QED BY <1>3, <1>4, <2>1, <2>2, OpenClosed
<1>9. CASE RunTask
  <2>1. /\ Head(tasks) \in DOMAIN conn
        /\ pc = "idle" /\ active = {}
    BY <1>1, <1>9 DEF RunTask, TypeOK
  <2>2. CASE conn[Head(tasks)].state = "kDisconnected"
    <3>1. /\ tasks' = Tail(tasks)
          /\ UNCHANGED <<connections_, held, current, active, failed>>
          /\ conn' = Released(conn)
      BY <1>9, <2>2 DEF RunTask
    <3>2. /\ DOMAIN conn' \subseteq DOMAIN conn
          /\ \A c \in DOMAIN conn' : conn'[c] = conn[c]
          /\ connections_ \subseteq DOMAIN conn'
      <4>1. Tail(tasks) \in Seq(DOMAIN conn)
        BY <1>1, <1>9 DEF RunTask, TypeOK
      <4> QED BY <1>1, <3>1, <4>1, ReleasedKeeps DEF TypeOK
    <3> QED BY <1>3, <3>1, <3>2, OpenKept
  <2>3. CASE conn[Head(tasks)].state # "kDisconnected"
    <3>1. Head(tasks) \in connections_
      BY <1>2, <2>1, <2>3 DEF Open
    <3>2. HandleClose(Head(tasks)) /\ UNCHANGED <<active, failed>>
      BY <1>9, <2>3, <3>1 DEF RunTask
    <3> QED BY <1>3, <2>1, <3>2, OpenClosed
  <2> QED BY <2>2, <2>3
<1>10. CASE CallbackReturns
  <2>1. /\ UNCHANGED <<connections_, held, active, tasks, failed>>
        /\ current' = NoConn
        /\ conn' = Released(conn)
    BY <1>10 DEF CallbackReturns
  <2>2. /\ DOMAIN conn' \subseteq DOMAIN conn
        /\ \A c \in DOMAIN conn' : conn'[c] = conn[c]
        /\ connections_ \subseteq DOMAIN conn'
    BY <1>1, <2>1, ReleasedKeeps DEF TypeOK
  <2> QED BY <1>3, <2>1, <2>2, OpenKept
<1>11. ASSUME NEW c \in Conns, Drop(c)
       PROVE  /\ connections_' = Open' /\ connections_' = Polled'
              /\ \A d \in active' \ {Accept} :
                   d \in connections_' /\ conn'[d].good /\ conn'[d].revents_ # {}
              /\ failed' \in {"none"} \cup DestructorFailures
  <2>1. /\ UNCHANGED <<connections_, active, tasks, current, failed>>
        /\ held' \subseteq held
        /\ conn' = Released(conn)
    BY <1>11 DEF Drop
  <2>2. /\ DOMAIN conn' \subseteq DOMAIN conn
        /\ \A d \in DOMAIN conn' : conn'[d] = conn[d]
        /\ connections_ \subseteq DOMAIN conn'
    BY <1>1, <2>1, ReleasedKeeps DEF TypeOK
  <2> QED BY <1>3, <2>1, <2>2, OpenKept
<1>12. ASSUME NEW c \in Conns, ForceClose(c)
       PROVE  /\ connections_' = Open' /\ connections_' = Polled'
              /\ \A d \in active' \ {Accept} :
                   d \in connections_' /\ conn'[d].good /\ conn'[d].revents_ # {}
              /\ failed' \in {"none"} \cup DestructorFailures
  <2>1. /\ c \in DOMAIN conn /\ conn[c] \in Connection
        /\ conn[c].state # "kDisconnected"
        /\ conn' = [conn EXCEPT ![c].state = "kDisconnecting"]
        /\ UNCHANGED <<connections_, active, failed>>
    BY <1>1, <1>12 DEF ForceClose, Known, TypeOK
  <2>2. /\ DOMAIN conn' = DOMAIN conn
        /\ \A d \in DOMAIN conn :
             /\ conn'[d].state # "kDisconnected" <=> conn[d].state # "kDisconnected"
             /\ conn'[d].polling = conn[d].polling
             /\ conn'[d].good = conn[d].good
             /\ conn'[d].revents_ = conn[d].revents_
    BY <2>1 DEF Connection
  <2>3. connections_' = Open' /\ connections_' = Polled'
    BY <1>2, <2>1, <2>2 DEF Open, Polled
  <2>4. \A d \in active \ {Accept} : /\ d \in connections_ /\ d \in DOMAIN conn
                                     /\ conn[d].good /\ conn[d].revents_ # {}
    BY <1>1 DEF ServerInv, ReportedStayOpen, TypeOK
  <2> QED BY <1>3, <2>1, <2>2, <2>3, <2>4
<1> QED
  BY <1>5, <1>6, <1>7, <1>8, <1>9, <1>10, <1>11, <1>12 DEF Next, Poll, Handler, Program

LEMMA ServerInit == Init => ServerInv
<1> SUFFICES ASSUME Init
             PROVE  ServerInv
  OBVIOUS
<1>1. DOMAIN conn = {} /\ tasks \in Seq(DOMAIN conn)
  BY DEF Init
<1>2. peers \in 0 .. MaxPeers
  BY TcpServerSingleAssumption DEF Init
<1>3. /\ listening = FALSE /\ pc = "idle" /\ current = NoConn /\ failed = "none"
      /\ connections_ = {} /\ held = {} /\ active = {}
  BY DEF Init
<1>4. TypeOK
  BY <1>1, <1>2, <1>3 DEF TypeOK
<1> QED BY <1>1, <1>3, <1>4 DEF ServerInv, ServerKnowsOpen, ReportedStayOpen

(***************************************************************************)
(* In any order of accepts, events, tasks and calls of the program, the    *)
(* server's set, the epoll set and the connections' states say the same.   *)
(***************************************************************************)
THEOREM ServerAlwaysKnowsOpen == Spec => []ServerKnowsOpen
<1>1. ServerInv => ServerKnowsOpen
  BY DEF ServerInv
<1> QED BY <1>1, ServerInit, ServerStep, PTL DEF Spec

(***************************************************************************)
(* An event reported of a connection finds it open, and no assertion of    *)
(* the handlers fails, whatever the callbacks before it in the round do.   *)
(***************************************************************************)
THEOREM ReportedAlwaysOpen == Spec => []ReportedStayOpen
<1>1. ServerInv => ReportedStayOpen
  BY DEF ServerInv
<1> QED BY <1>1, ServerInit, ServerStep, PTL DEF Spec
-----------------------------------------------------------------------------
(* TcpServer.                                                              *)

allVars == <<vars, serverVars>>

(***************************************************************************)
(* The server that a TcpServer makes, starts and destroys makes no step    *)
(* that a TcpServerSingle of the program's own could not make.             *)
(***************************************************************************)
LEMMA ServerIsSingle == NextServer => [Next]_vars
<1> SUFFICES ASSUME NextServer
             PROVE  [Next]_vars
  OBVIOUS
<1>1. failed = "none"
  BY DEF NextServer, Running
<1>2. CASE Start \/ PeerConnects \/ Poll \/ Handler \/ EndDispatch \/ RunTask \/ Program
           \/ Destroy
  BY <1>1, <1>2 DEF Next
<1>3. CASE UNCHANGED vars
  BY <1>3
<1>4. CASE \E n \in Counts : SetNumThread(n)
  BY <1>3, <1>4 DEF SetNumThread
<1>5. CASE \E t \in Callers : BeginStart(t)
  BY <1>3, <1>5 DEF BeginStart
<1>6. CASE Starting
  BY <1>2, <1>3, <1>6 DEF Starting, RunStart, QueueStart, startInLoop
<1>7. CASE StartHere
  BY <1>2, <1>3, <1>7 DEF StartHere, startInLoop
<1>8. CASE DestroyServer
  BY <1>2, <1>3, <1>8 DEF DestroyServer
<1>9. CASE Serve \/ Peers
  BY <1>2, <1>9 DEF Serve, Peers
<1> QED BY <1>4, <1>5, <1>6, <1>7, <1>8, <1>9 DEF NextServer

(***************************************************************************)
(* TcpServer implements TcpServerSingle, so that what is proved of the one *)
(* holds of the server the other makes.                                    *)
(***************************************************************************)
THEOREM ServerImplementsSingle == SpecServer => Spec
<1>1. InitServer => Init
  BY DEF InitServer
<1>2. [NextServer]_allVars => [Next]_vars
  BY ServerIsSingle DEF allVars
<1> QED BY <1>1, <1>2, PTL DEF SpecServer, Spec, allVars

(***************************************************************************)
(* One call of start() at most has got past the exchange: it is on its way *)
(* to runInLoop(), or waits in a closure, or has been run.                 *)
(***************************************************************************)
StartInv ==
  /\ ServerTypeOK
  /\ \A t, u \in exchanged : t = u
  /\ queued \in {0, 1}
  /\ exchanged # {} => queued = 0
  /\ ~started_ \/ phase \in {"waiting", "serving"} => exchanged = {} /\ queued = 0
  /\ phase \in {"waiting", "serving"} => started_

\* Only start() makes the server listen.
LEMMA ListeningKept ==
  PeerConnects \/ Poll \/ Handler \/ EndDispatch \/ RunTask \/ Program \/ Destroy
    => UNCHANGED listening
<1>1. PeerConnects \/ EndDispatch \/ RunTask \/ Destroy => UNCHANGED listening
  BY DEF PeerConnects, EndDispatch, RunTask, Destroy, Abort
<1>2. Poll => UNCHANGED listening
  BY DEF Poll, PollReturns
<1>3. Handler => UNCHANGED listening
  BY DEF Handler, HandleAccept, HandleAcceptFails, HandleEvent, Abort
<1>4. Program => UNCHANGED listening
  BY DEF Program, Hold, CallbackReturns, Drop, ForceClose
<1> QED BY <1>1, <1>2, <1>3, <1>4

LEMMA StartStep == StartInv /\ [NextServer]_allVars => StartInv'
<1> SUFFICES ASSUME StartInv, [NextServer]_allVars
             PROVE  StartInv'
  OBVIOUS
<1> USE DEF StartInv, ServerTypeOK, serverVars
<1>1. CASE UNCHANGED <<listening, serverVars>>
  BY <1>1
<1>2. ASSUME NEW n \in Counts, SetNumThread(n)
      PROVE  StartInv'
  BY <1>2 DEF SetNumThread, vars
<1>3. ASSUME NEW t \in Callers, BeginStart(t)
      PROVE  StartInv'
  BY <1>3 DEF BeginStart, firstCall, vars
<1>4. ASSUME NEW t \in Callers, QueueStart(t)
      PROVE  StartInv'
  <2>1. t \in exchanged /\ exchanged' = {} /\ queued = 0 /\ started_
    BY <1>4 DEF QueueStart
  <2>2. phase \notin {"waiting", "serving"}
    BY <2>1
  <2> QED BY <1>4, <2>1, <2>2 DEF QueueStart, vars
<1>5. CASE RunStart
  <2>1. queued = 1 /\ exchanged = {} /\ started_ /\ phase \notin {"waiting", "serving"}
    BY <1>5 DEF RunStart
  <2>2. queued' = 0 /\ UNCHANGED <<started_, numThreads_, exchanged>> /\ startInLoop
    BY <1>5, <2>1 DEF RunStart
  <2> QED BY <2>1, <2>2 DEF startInLoop, Start, vars
<1>6. CASE StartHere
  BY <1>6 DEF StartHere, firstCall, startInLoop, Start, vars
<1>7. CASE DestroyServer
  BY <1>7, ListeningKept DEF DestroyServer, vars
<1>8. CASE Serve
  BY <1>1, <1>8, ListeningKept DEF Serve
<1>9. CASE Peers
  BY <1>1, <1>9, ListeningKept DEF Peers
<1>10. CASE UNCHANGED allVars
  BY <1>1, <1>10 DEF allVars, vars
<1> QED
  BY <1>2, <1>3, <1>4, <1>5, <1>6, <1>7, <1>8, <1>9, <1>10 DEF NextServer, Starting

LEMMA OneStart == StartInv => StartsOnce
<1> SUFFICES ASSUME StartInv
             PROVE  Cardinality(exchanged) + queued
                      <= IF phase \in {"built", "destroyed", "aborted", "dangling"}
                         THEN 1 ELSE 0
  BY DEF StartInv, StartsOnce
<1>1. CASE exchanged = {}
  BY <1>1, FS_EmptySet DEF StartInv, ServerTypeOK
<1>2. CASE exchanged # {}
  <2>1. PICK t \in exchanged : exchanged = {t}
    BY <1>2 DEF StartInv
  <2>2. Cardinality(exchanged) = 1
    BY <2>1, FS_Singleton
  <2> QED BY <1>2, <2>2 DEF StartInv, ServerTypeOK
<1> QED BY <1>1, <1>2

(***************************************************************************)
(* However many threads call start(), startInLoop() runs once at most on a *)
(* TcpServer that is there: the exchange lets one call pass.               *)
(***************************************************************************)
THEOREM StartedOnce == SpecServer => []StartsOnce
<1>1. InitServer => StartInv
  <2> SUFFICES ASSUME InitServer
               PROVE  StartInv
    OBVIOUS
  <2>1. listening = FALSE
    BY DEF InitServer, Init
  <2>2. /\ started_ = FALSE /\ numThreads_ = 1 /\ exchanged = {} /\ queued = 0
        /\ phase = "built"
    BY DEF InitServer
  <2> QED BY <2>1, <2>2 DEF StartInv, ServerTypeOK
<1> QED BY <1>1, StartStep, OneStart, PTL DEF SpecServer, allVars
\* So the server a TcpServer makes knows its open connections, and hears of no other.
COROLLARY MadeServerKnowsOpen == SpecServer => [](ServerKnowsOpen /\ ReportedStayOpen)
BY ServerImplementsSingle, ServerAlwaysKnowsOpen, ReportedAlwaysOpen, PTL
=============================================================================
