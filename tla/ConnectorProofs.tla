-------------------------- MODULE ConnectorProofs ---------------------------
(***************************************************************************)
(* Proofs about Connector.tla, for any number of steps of the program, the *)
(* loop, the peer and the kernel.                                          *)
(***************************************************************************)
EXTENDS Connector, TLAPS

\* The socket, when it is ready or has failed.
Answered == {"connected", "refused", "reset"}

(***************************************************************************)
(* Before the outcome is told the Connector owns the socket, and nothing   *)
(* was made of it.  A connect() that set out is watched by channel_ until  *)
(* handleWrite() takes it out of the epoll set, before the TcpConnection   *)
(* puts the socket in.  Until then SO_ERROR, which only handleWrite()      *)
(* reads, tells a socket that failed from one that is connected.           *)
(***************************************************************************)
BeforeOutcome ==
  /\ pc \in {"new", "waiting", "handleWrite", "asked"} =>
       ~connected_ /\ connection = "none" /\ told = <<>>
  /\ pc = "new" => ~atOnce /\ ~polling /\ registered = "none" /\ sock = "fresh"
  /\ pc = "waiting" => ~atOnce /\ sock # "fresh"
  /\ pc = "handleWrite" /\ ~atOnce => sock \in Answered
  /\ pc \in {"waiting", "handleWrite"} /\ ~atOnce => polling /\ registered = "channel_"
  /\ pc \in {"new", "waiting", "handleWrite"} /\ ~atOnce =>
       (soError <=> sock \in {"refused", "reset"})

(***************************************************************************)
(* Between the question and the report: an error that was read is the      *)
(* socket's for good; without one the socket is connected, or was reset    *)
(* since and has its error in SO_ERROR.                                    *)
(***************************************************************************)
AfterQuestion ==
  pc = "asked" /\ ~atOnce =>
    /\ ~polling /\ registered = "none"
    /\ err => sock \in {"refused", "reset"}
    /\ ~err => sock = "connected" \/ (sock = "reset" /\ soError)

(***************************************************************************)
(* The inductive invariant: after the outcome connected_ says whether      *)
(* there was a TcpConnection, and no event comes to channel_ any more.     *)
(***************************************************************************)
ConnectorInv ==
  /\ SocketHandedOver
  /\ ToldTheOutcome
  /\ BeforeOutcome
  /\ AfterQuestion
  /\ connected_ <=> connection # "none"
  /\ pc \in {"callback", "done", "destroyed"} /\ ~atOnce => registered # "channel_"

\* A Connector that was just made.
LEMMA ConnectorStart == Init => ConnectorInv
<1> SUFFICES ASSUME Init PROVE ConnectorInv
  OBVIOUS
<1> USE DEF Init, ChannelInit
<1>1. TypeOK
  <2>1. ChannelTypeOK
    BY DEF ChannelTypeOK, EventMasks
  <2>2. {release, newConnectionCallback_, errorCallback_, soError, err, atOnce, connected_}
          \subseteq BOOLEAN
    BY Zenon
  <2> QED BY <2>1, <2>2 DEF TypeOK
<1>2. SocketHandedOver /\ ToldTheOutcome
  BY <1>1 DEF SocketHandedOver, ToldTheOutcome
<1>3. BeforeOutcome
  <2>1. soError = FALSE /\ sock \notin {"refused", "reset"}
    OBVIOUS
  <2> QED BY <2>1 DEF BeforeOutcome, Answered
<1>4. AfterQuestion
  BY DEF AfterQuestion
<1> QED BY <1>1, <1>2, <1>3, <1>4 DEF ConnectorInv

\* Every step keeps the invariant.
LEMMA ConnectorStep == ConnectorInv /\ [Next]_vars => ConnectorInv'
<1> SUFFICES ASSUME ConnectorInv, [Next]_vars PROVE ConnectorInv'
  OBVIOUS
<1> USE DEF ConnectorInv, SocketHandedOver, ToldTheOutcome, BeforeOutcome,
            AfterQuestion, TypeOK, ChannelTypeOK, EventMasks, Answered, program, channelVars
<1>1. ASSUME failed = "none", Start PROVE ConnectorInv'
  <2>1. polling' = TRUE /\ events_' \in EventMasks /\ registered' = "channel_"
    BY <1>1 DEF Start, Watch, EnableWrite, Update
  <2> QED BY <1>1, <2>1 DEF Start
<1>2. ASSUME failed = "none", StartAtOnce PROVE ConnectorInv'
  BY <1>2 DEF StartAtOnce
<1>3. ASSUME failed = "none", Answer PROVE ConnectorInv'
  <2>1. /\ \/ sock = "connecting" /\ sock' \in {"connected", "refused"}
           \/ sock = "connected" /\ sock' = "reset"
        /\ soError' \in BOOLEAN /\ (soError' <=> sock' # "connected")
        /\ UNCHANGED <<program, pc, err, atOnce, connected_, registered, connection, closes,
                       told, failed, channelVars>>
    BY <1>3 DEF Answer
  <2>2. SocketHandedOver' /\ ToldTheOutcome'
    BY <2>1
  <2>3. BeforeOutcome'
    BY <2>1
  <2>4. AfterQuestion'
    BY <2>1
  <2> QED BY <2>1, <2>2, <2>3, <2>4
<1>4. ASSUME failed = "none", Writable PROVE ConnectorInv'
  BY <1>4 DEF Writable, isWriting
<1>5. ASSUME failed = "none", HandleWrite PROVE ConnectorInv'
  <2>1. CASE ~release
    BY <1>5, <2>1 DEF HandleWrite
  <2>2. CASE release
    <3>1. /\ pc' = "asked" /\ (err' <=> soError) /\ soError' = FALSE /\ err' \in BOOLEAN
          /\ ~atOnce => polling' = FALSE /\ registered' = "none"
          /\ registered' \in {"none", "channel_"}
          /\ events_' = {} /\ polling' \in BOOLEAN
          /\ UNCHANGED <<program, sock, atOnce, connected_, connection, closes, told, failed>>
      BY <1>5, <2>2 DEF HandleWrite, removeChannel, Failed
    <3>2. AfterQuestion'
      BY <1>5, <3>1 DEF HandleWrite
    <3>3. TypeOK'
      BY <3>1
    <3> QED BY <1>5, <3>1, <3>2, <3>3 DEF HandleWrite
  <2> QED BY <2>1, <2>2
<1>6. ASSUME failed = "none", Report PROVE ConnectorInv'
  <2>1. CASE err /\ errorCallback_
    <3>1. /\ pc' = "callback" /\ told' = <<"error", sock, soError>>
          /\ UNCHANGED <<program, sock, soError, err, atOnce, connected_, connection,
                         registered, closes, failed, channelVars>>
      BY <1>6, <2>1 DEF Report, Tell
    <3>2. told'[1] = "error" /\ told'[2] = sock
      BY <3>1
    <3>3. ToldTheOutcome'
      BY <1>6, <2>1, <3>1, <3>2 DEF Report
    <3>4. TypeOK'
      BY <3>1
    <3> QED BY <1>6, <3>1, <3>3, <3>4 DEF Report
  <2>2. CASE ~err /\ newConnectionCallback_
    <3>1. /\ pc' = "callback" /\ told' = <<"connection", sock, soError>>
          /\ connected_' = TRUE /\ connection' = "open"
          /\ registered' = IF polling THEN "channel_" ELSE "connection"
          /\ UNCHANGED <<program, sock, soError, err, atOnce, closes, failed, channelVars>>
      BY <1>6, <2>2 DEF Report, Tell, Hand
    <3>2. told'[1] = "connection" /\ told'[2] = sock /\ told'[3] = soError
      BY <3>1
    <3>3. ToldTheOutcome'
      BY <1>6, <2>2, <3>1, <3>2 DEF Report
    <3>4. TypeOK'
      BY <3>1
    <3> QED BY <1>6, <3>1, <3>3, <3>4 DEF Report
  <2>3. CASE ~(IF err THEN errorCallback_ ELSE newConnectionCallback_)
    <3>1. /\ pc' = "done"
          /\ UNCHANGED <<program, sock, soError, err, atOnce, connected_, connection,
                         registered, closes, told, failed, channelVars>>
      BY <1>6, <2>3 DEF Report
    <3> QED BY <1>6, <3>1 DEF Report
  <2> QED BY <1>6, <2>1, <2>2, <2>3 DEF Report
<1>7. ASSUME failed = "none", CallbackReturns PROVE ConnectorInv'
  BY <1>7 DEF CallbackReturns
<1>8. ASSUME failed = "none", Destroy PROVE ConnectorInv'
  <2>1. CASE connected_
    BY <1>8, <2>1 DEF Destroy
  <2>2. CASE ~connected_
    <3>1. closes = 0 /\ closes' = 1
      BY <1>8, <2>2 DEF Destroy, Close
    <3> QED BY <1>8, <2>2, <3>1 DEF Destroy, Close
  <2> QED BY <2>1, <2>2
<1>9. ASSUME failed = "none", ConnectionGone PROVE ConnectorInv'
  BY <1>9 DEF ConnectionGone, Close
<1>10. ASSUME failed = "none", StaleReport PROVE ConnectorInv'
  BY <1>10 DEF StaleReport
<1>11. CASE UNCHANGED vars
  BY <1>11 DEF vars
<1> QED
  BY <1>1, <1>2, <1>3, <1>4, <1>5, <1>6, <1>7, <1>8, <1>9, <1>10, <1>11 DEF Next, Loop, Program

(***************************************************************************)
(* Whatever the order of the peer's answer, the outcome, ~Connector() and  *)
(* the end of the TcpConnection: the socket is closed once and not before  *)
(* its owner is gone; and unless connect() returned at once, an open       *)
(* connection hears from epoll and no event finds a destroyed Connector.   *)
(***************************************************************************)
THEOREM SocketAlwaysHandedOver == Spec => []SocketHandedOver
<1>1. ConnectorInv => SocketHandedOver
  BY DEF ConnectorInv
<1> QED BY <1>1, ConnectorStart, ConnectorStep, PTL DEF Spec

(***************************************************************************)
(* Unless connect() returned at once, handleWrite() reports an error only  *)
(* of a socket that failed, and a connection only of one that is connected *)
(* or was reset after SO_ERROR was read; the error of that reset is still  *)
(* there when the callback makes the TcpConnection.                        *)
(***************************************************************************)
THEOREM OutcomeAlwaysTold == Spec => []ToldTheOutcome
<1>1. ConnectorInv => ToldTheOutcome
  BY DEF ConnectorInv
<1> QED BY <1>1, ConnectorStart, ConnectorStep, PTL DEF Spec
=============================================================================
