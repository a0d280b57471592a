------------------------------ MODULE Channel -------------------------------
(***************************************************************************)
(* src/Channel.{h,cpp} with src/Epoll.cpp: which events of a descriptor    *)
(* the program wants (events_), and whether the descriptor is in the epoll *)
(* set (polling).  Every change of events_ goes through                    *)
(* Epoll::updateChannel(), which adds, modifies or deletes the descriptor. *)
(* A component that owns a channel EXTENDS or INSTANCEs this module; only  *)
(* the loop thread calls these operations.                                 *)
(***************************************************************************)
EXTENDS Naturals

VARIABLES events_, polling

channelVars == <<events_, polling>>

\* EPOLLIN, EPOLLPRI and EPOLLOUT.
EventMasks == SUBSET {"IN", "PRI", "OUT"}

ChannelTypeOK == events_ \in EventMasks /\ polling \in BOOLEAN

ChannelInit == events_ = {} /\ polling = FALSE

\* updateChannel() asserts that a channel it adds wants some event.
UpdateAborts(ev) == ~polling /\ ev = {}

\* EPOLL_CTL_ADD, _MOD or _DEL.
Update(ev) ==
  /\ events_' = ev
  /\ polling' = (ev # {})

isReading == "IN" \in events_
isWriting == "OUT" \in events_

EnableRead   == Update(events_ \cup {"IN", "PRI"})
EnableWrite  == Update(events_ \cup {"OUT"})
DisableRead  == Update(events_ \ {"IN"})
DisableWrite == Update(events_ \ {"OUT"})
DisableAll   == Update({})
=============================================================================
