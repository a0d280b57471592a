----------------------------- MODULE Connector ------------------------------
(***************************************************************************)
(* src/Connector.{h,cpp}: a socket is connected, its channel waits for it  *)
(* to become writable, and the program is told of the outcome; then the    *)
(* socket is the program's TcpConnection's.  All on the loop thread.       *)
(*                                                                         *)
(* Channel's events_ and polling are those of channel_.  start() does not  *)
(* set started_, so a build with assertions ends in handleWrite(); both    *)
(* builds are initial states.                                              *)
(***************************************************************************)
EXTENDS Channel

VARIABLES
  release,        \* built with NDEBUG
  newConnectionCallback_, errorCallback_,   \* set, or null
  pc,             \* where the Connector is
  sock,           \* the socket, as the kernel sees it
  soError,        \* an error waits in SO_ERROR
  err,            \* errno, as handleWrite() goes by it
  atOnce,         \* history: connect() did not return EINPROGRESS
  connected_,
  registered,     \* whose channel the epoll set has for the socket
  connection,     \* the TcpConnection made of the socket
  closes,         \* calls of close() for the socket
  told,           \* history: what the program was told, and sock and soError then
  failed

program == <<release, newConnectionCallback_, errorCallback_>>
vars == <<program, pc, sock, soError, err, atOnce, connected_, registered, connection,
          closes, told, failed, channelVars>>

TypeOK ==
  /\ ChannelTypeOK
  /\ {release, newConnectionCallback_, errorCallback_, soError, err, atOnce, connected_}
       \subseteq BOOLEAN
  /\ pc \in {"new", "waiting", "handleWrite", "asked", "callback", "done", "destroyed"}
  /\ sock \in {"fresh", "connecting", "connected", "refused", "reset"}
  /\ registered \in {"none", "channel_", "connection"}
  /\ connection \in {"none", "open", "gone"}
  /\ closes \in 0 .. 2
  /\ told \in {<<>>} \cup {"connection", "error"}
                \X {"fresh", "connecting", "connected", "refused", "reset"} \X BOOLEAN
  /\ failed \in {"none", "started_", "useAfterFree"}

Init ==
  /\ ChannelInit
  /\ release \in BOOLEAN
  /\ newConnectionCallback_ \in BOOLEAN /\ errorCallback_ \in BOOLEAN
  /\ pc = "new" /\ sock = "fresh" /\ soError = FALSE /\ err = FALSE /\ atOnce = FALSE
  /\ connected_ = FALSE /\ registered = "none" /\ connection = "none"
  /\ closes = 0 /\ told = <<>> /\ failed = "none"

-----------------------------------------------------------------------------
\* Mutant of Watch: nobody waits for the socket.
WatchNot == UNCHANGED <<channelVars, registered>>

Watch == EnableWrite /\ registered' = "channel_"

\* start(), when connect() sets out ...
Start ==
  /\ pc = "new"
  /\ pc' = "waiting"
  /\ sock' = "connecting"
  /\ Watch
  /\ UNCHANGED <<program, soError, err, atOnce, connected_, connection, closes, told, failed>>

\* ... and when it succeeds or fails at once: SO_ERROR knows nothing of that.
StartAtOnce ==
  /\ pc = "new"
  /\ pc' = "handleWrite"
  /\ sock' \in {"connected", "fresh"}
  /\ atOnce' = TRUE
  /\ UNCHANGED <<program, soError, err, connected_, registered, connection, closes,
                 told, failed, channelVars>>

\* The peer, or the network.
Answer ==
  /\ \/ sock = "connecting" /\ sock' \in {"connected", "refused"}
     \/ sock = "connected" /\ sock' = "reset"
  /\ soError' = (sock' # "connected")
  /\ UNCHANGED <<program, pc, err, atOnce, connected_, registered, connection, closes,
                 told, failed, channelVars>>

\* epoll_wait() reports channel_: OUT, with HUP and ERR after a failure.
Writable ==
  /\ pc = "waiting"
  /\ isWriting /\ sock \in {"connected", "refused", "reset"}
  /\ pc' = "handleWrite"
  /\ UNCHANGED <<program, sock, soError, err, atOnce, connected_, registered,
                 connection, closes, told, failed, channelVars>>

\* Mutant of removeChannel: it is left to the TcpConnection.
removeChannelNot == UNCHANGED channelVars

\* EventLoop::removeChannel(): one that was never added is added, for HUP and ERR.
removeChannel == events_' = {} /\ polling' = ~polling

\* Mutant of Failed: a socket that is still there passes for a connected one.
FailedUnread == FALSE

\* getsockopt() and errno.
Failed == soError

(***************************************************************************)
(* handleWrite() up to the test of errno: SO_ERROR is read, and cleared.   *)
(* What becomes of the socket from then on is not seen here.               *)
(***************************************************************************)
HandleWrite ==
  /\ pc = "handleWrite"
  /\ IF ~release
     THEN /\ failed' = "started_"
          /\ UNCHANGED <<pc, soError, err, registered, channelVars>>
     ELSE /\ removeChannel
          /\ registered' = IF polling' THEN "channel_" ELSE "none"
          /\ err' = Failed
          /\ soError' = FALSE
          /\ pc' = "asked"
          /\ UNCHANGED failed
  /\ UNCHANGED <<program, sock, atOnce, connected_, connection, closes, told>>

\* The call of a callback, and how things stand then.
Tell(what) == /\ told' = <<what, sock, soError>>
              /\ pc' = "callback"

(***************************************************************************)
(* The callback makes a TcpConnection of the socket, which adds it to the  *)
(* epoll set; that fails when channel_ is still there.                     *)
(***************************************************************************)
Hand ==
  /\ connected_' = TRUE
  /\ connection' = "open"
  /\ registered' = IF polling THEN "channel_" ELSE "connection"

(***************************************************************************)
(* handleWrite() from the test of errno on: the one callback or the other, *)
(* or none.                                                                *)
(***************************************************************************)
Report ==
  /\ pc = "asked"
  /\ \/ err /\ errorCallback_ /\ Tell("error") /\ UNCHANGED <<connected_, connection, registered>>
     \/ ~err /\ newConnectionCallback_ /\ Tell("connection") /\ Hand
     \/ /\ ~(IF err THEN errorCallback_ ELSE newConnectionCallback_)
        /\ pc' = "done"
        /\ UNCHANGED <<told, connected_, connection, registered>>
  /\ UNCHANGED <<program, sock, soError, err, atOnce, closes, failed, channelVars>>

CallbackReturns ==
  /\ pc = "callback"
  /\ pc' = "done"
  /\ UNCHANGED <<program, sock, soError, err, atOnce, connected_, registered,
                 connection, closes, told, failed, channelVars>>

-----------------------------------------------------------------------------
\* close() takes the socket out of the epoll set.
Close == closes' = closes + 1 /\ registered' = "none"

\* ~Connector(), between two rounds of the loop.
Destroy ==
  /\ pc \in {"new", "waiting", "done"}
  /\ pc' = "destroyed"
  /\ IF connected_ THEN UNCHANGED <<closes, registered>> ELSE Close
  /\ UNCHANGED <<program, sock, soError, err, atOnce, connected_, connection, told,
                 failed, channelVars>>

\* The connection is closed by its own means and deleted.
ConnectionGone ==
  /\ connection = "open" /\ pc # "callback"
  /\ connection' = "gone"
  /\ Close
  /\ UNCHANGED <<program, pc, sock, soError, err, atOnce, connected_, told, failed, channelVars>>

\* HUP of a socket still registered for the channel of a Connector that is gone.
StaleReport ==
  /\ pc = "destroyed" /\ registered = "channel_" /\ sock \in {"fresh", "reset"}
  /\ failed' = "useAfterFree"
  /\ UNCHANGED <<program, pc, sock, soError, err, atOnce, connected_, registered,
                 connection, closes, told, channelVars>>

Loop    == Writable \/ HandleWrite \/ Report \/ CallbackReturns
Program == Start \/ StartAtOnce \/ Destroy \/ ConnectionGone

Next == /\ failed = "none"
        /\ Answer \/ Loop \/ Program \/ StaleReport

Spec == Init /\ [][Next]_vars

\* The connection is answered, or times out, and the loop runs.
FairSpec == /\ Spec
            /\ WF_vars(failed = "none" /\ sock = "connecting" /\ Answer)
            /\ WF_vars(failed = "none" /\ Loop)

-----------------------------------------------------------------------------
(* Properties.  A connect() that returns at once is their exception: its   *)
(* outcome is not in SO_ERROR, and channel_, never added, is added by      *)
(* removeChannel(), keeps the TcpConnection out of the epoll set, and is   *)
(* reported when the Connector is gone.                                    *)

(***************************************************************************)
(* The socket has one owner at a time: it is closed once, by ~Connector()  *)
(* or by the TcpConnection, when its owner goes and not before; an open    *)
(* connection hears from epoll; and no event finds a destroyed Connector.  *)
(***************************************************************************)
SocketHandedOver ==
  /\ TypeOK
  /\ closes = (IF connection = "gone" \/ (pc = "destroyed" /\ connection = "none")
               THEN 1 ELSE 0)
  /\ ~atOnce => /\ connection = "open" => registered = "connection"
                /\ failed # "useAfterFree"

(***************************************************************************)
(* The program is told of an error only when the attempt was refused or    *)
(* reset; and of a connection only when it was made: when it was reset     *)
(* since SO_ERROR was read, the error is there for the TcpConnection.      *)
(***************************************************************************)
ToldTheOutcome ==
  told # <<>> /\ ~atOnce =>
    IF told[1] = "connection"
    THEN told[2] = "connected" \/ (told[2] = "reset" /\ told[3])
    ELSE told[2] \in {"refused", "reset"}

(***************************************************************************)
(* In a build without assertions, with both callbacks set, the program is  *)
(* told of the outcome of every attempt, unless it destroys the Connector. *)
(***************************************************************************)
ConnectReported ==
  pc = "waiting" /\ release /\ newConnectionCallback_ /\ errorCallback_
    ~> told # <<>> \/ pc = "destroyed"
=============================================================================
