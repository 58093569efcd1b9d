--------------------------------- MODULE Peer ---------------------------------
(***************************************************************************)
(* A libevent peer: the callbacks around one bufferevent, with automatic   *)
(* reconnection, a heartbeat and a deferred close.                         *)
(*                                                                         *)
(* Source: use/c/use-libevent_2.1.8/src/common/peer.c.  Everything runs on *)
(* the thread of one event base, one callback at a time; what the user's   *)
(* callbacks may do (close, set the heartbeat, the reconnection) happens   *)
(* while pc names the callback.  The event base, its timers and the        *)
(* bufferevent are libevent's, modelled by how peer.c uses them.           *)
(***************************************************************************)
EXTENDS Integers

CONSTANTS
  MaxInterval  \* bound: the reconnection intervals the user sets

NoEv == 0
Evs == 1 .. 3        \* names for timer events
NoEvent == "none"

VARIABLES
  pc,          \* "idle" in the event base's loop, or the running callback
  what,        \* the event eventcb was called with
  alive,       \* the peer has not been freed
  conn,        \* its bufferevent: "none" (fd -1), "connecting" or "connected"
  auto_reconn, \* PEER_AUTO_RECONNECT
  interval,    \* events.reconn.interval
  wait_close,  \* PEER_WAIT_CLOSE
  reconn_ev,   \* events.reconn.ev
  timers,      \* reconnection events pending in the event base
  hb,          \* events.hearbeat.ev is set (and pending: it is persistent)
  \* history
  failed,      \* making a timer or connecting has failed since the last connection
  closed_in    \* callbacks in which the user has called peerClose

history == <<failed, closed_in>>
vars == <<pc, what, alive, conn, auto_reconn, interval, wait_close, reconn_ev, timers, hb, history>>

\* peerConnectTo: the connection is being made; peerConnectIn: it is there
Init ==
  /\ pc = "idle" /\ what = NoEvent /\ alive = TRUE
  /\ conn \in {"connecting", "connected"}
  /\ auto_reconn = FALSE /\ interval = 0 /\ wait_close = FALSE
  /\ reconn_ev = NoEv /\ timers = {} /\ hb = FALSE
  /\ failed = FALSE /\ closed_in = {}

-----------------------------------------------------------------------------
(* what the user may call *)

InCallback == pc \in {"read_cb", "write_cb", "event_cb", "hb_cb"}

peerClose ==
  /\ InCallback
  /\ wait_close' = TRUE
  /\ closed_in' = closed_in \cup {pc}
  /\ UNCHANGED <<pc, what, alive, conn, auto_reconn, interval, reconn_ev, timers, hb, failed>>

\* called after peerConnectTo and in callbacks, not while the peer waits to
\* be reconnected
peerSetReconn(interval_sec) ==
  /\ alive /\ conn # "none"
  /\ auto_reconn' = (interval_sec > 0)
  /\ interval' = interval_sec
  /\ IF interval_sec > 0 THEN UNCHANGED <<reconn_ev, timers>>
                         ELSE reconn_ev' = NoEv /\ timers' = timers \ {reconn_ev}
  /\ UNCHANGED <<pc, what, alive, conn, wait_close, hb, history>>

\* on success the old event is replaced; if the new one cannot be made the
\* old one is gone all the same
peerSetHeartbeat(on) ==
  /\ alive /\ InCallback
  /\ hb' \in {on, FALSE}
  /\ UNCHANGED <<pc, what, alive, conn, auto_reconn, interval, wait_close, reconn_ev, timers, history>>

\* Mutant of Released: the reconnection event is not freed with the peer
KeptTimer ==
  /\ alive' = FALSE /\ conn' = "none"
  /\ hb' = FALSE
  /\ auto_reconn' = FALSE /\ interval' = 0 /\ reconn_ev' = NoEv /\ UNCHANGED timers
  /\ UNCHANGED <<wait_close, history>>

\* the body of peerFree: close callback, heartbeat and reconnection removed,
\* bufferevent freed
Released ==
  /\ alive' = FALSE /\ conn' = "none"
  /\ hb' = FALSE
  /\ auto_reconn' = FALSE /\ interval' = 0 /\ reconn_ev' = NoEv /\ timers' = timers \ {reconn_ev}
  /\ UNCHANGED <<wait_close, history>>

\* from a timer of the user's, as the stress client does
peerFree ==
  /\ alive /\ pc = "idle"
  /\ Released
  /\ UNCHANGED <<pc, what>>

-----------------------------------------------------------------------------
(* the callbacks *)

\* Mutant of peerStartReconn: no timer while an event is set, spent or not
ReconnOnlyOnce ==
  \/ /\ reconn_ev = NoEv
     /\ \E e \in Evs : reconn_ev' = e /\ timers' = timers \cup {e}
     /\ UNCHANGED failed
  \/ reconn_ev # NoEv /\ UNCHANGED <<reconn_ev, timers, failed>>

\* close the descriptor, start a timer; the old event is overwritten.  If
\* event_new or event_add fails there is none
peerStartReconn ==
  \/ \E e \in Evs \ (timers \cup {reconn_ev}) :
       reconn_ev' = e /\ timers' = timers \cup {e} /\ UNCHANGED failed
  \/ failed' = TRUE /\ UNCHANGED <<reconn_ev, timers>>

readcb ==
  /\ pc = "idle" /\ conn = "connected" /\ pc' = "read_cb"
  /\ UNCHANGED <<what, alive, conn, auto_reconn, interval, wait_close, reconn_ev, timers, hb, history>>

writecb ==
  /\ pc = "idle" /\ conn = "connected" /\ pc' = "write_cb"
  /\ UNCHANGED <<what, alive, conn, auto_reconn, interval, wait_close, reconn_ev, timers, hb, history>>

heartbeatcb ==
  /\ pc = "idle" /\ hb /\ pc' = "hb_cb"
  /\ UNCHANGED <<what, alive, conn, auto_reconn, interval, wait_close, reconn_ev, timers, hb, history>>

\* the end of readcb, writecb and heartbeatcb
CallbackReturns ==
  /\ pc \in {"read_cb", "write_cb", "hb_cb"} /\ pc' = "idle"
  /\ IF wait_close
       THEN Released
       ELSE UNCHANGED <<alive, conn, auto_reconn, interval, wait_close, reconn_ev, timers, hb, history>>
  /\ UNCHANGED what

\* eventcb with BEV_EVENT_CONNECTED, peerStopReconn included
eventcb_connected ==
  /\ pc = "idle" /\ conn = "connecting" /\ conn' = "connected"
  /\ pc' = "event_cb" /\ what' = "connected"
  /\ reconn_ev' = NoEv /\ timers' = timers \ {reconn_ev}
  /\ failed' = FALSE
  /\ UNCHANGED <<alive, auto_reconn, interval, wait_close, hb, closed_in>>

\* eventcb with BEV_EVENT_EOF or BEV_EVENT_ERROR
eventcb_error ==
  /\ pc = "idle" /\ conn \in {"connecting", "connected"}
  /\ pc' = "event_cb" /\ what' = "error"
  /\ UNCHANGED <<alive, conn, auto_reconn, interval, wait_close, reconn_ev, timers, hb, history>>

\* the end of eventcb, after func_event
EventReturns ==
  /\ pc = "event_cb" /\ pc' = "idle" /\ what' = NoEvent
  /\ \/ /\ what = "connected"
        /\ UNCHANGED <<alive, conn, auto_reconn, interval, wait_close, reconn_ev, timers, hb, history>>
     \/ /\ what = "error" /\ auto_reconn
        /\ conn' = "none"
        /\ peerStartReconn
        /\ UNCHANGED <<alive, auto_reconn, interval, wait_close, hb, closed_in>>
     \/ /\ what = "error" /\ ~auto_reconn
        /\ Released

\* the timer fires once; the result of bufferevent_socket_connect is ignored
reconncb(e) ==
  /\ pc = "idle" /\ e \in timers
  /\ timers' = timers \ {e}
  /\ \/ conn' = "connecting" /\ UNCHANGED failed
     \/ conn' = "none" /\ failed' = TRUE
  /\ UNCHANGED <<pc, what, alive, auto_reconn, interval, wait_close, reconn_ev, hb, closed_in>>

Next ==
  \/ peerClose \/ peerFree
  \/ \E interval_sec \in 0 .. MaxInterval : peerSetReconn(interval_sec)
  \/ \E on \in BOOLEAN : peerSetHeartbeat(on)
  \/ readcb \/ writecb \/ heartbeatcb \/ CallbackReturns
  \/ eventcb_connected \/ eventcb_error \/ EventReturns
  \/ \E e \in Evs : reconncb(e)

Spec == Init /\ [][Next]_vars

\* A callback returns, and the event base runs a timer that is due although
\* other events keep coming: it takes them in the order they are due.
FairSpec ==
  /\ Spec
  /\ SF_vars(\E e \in Evs : reconncb(e))
  /\ WF_vars(CallbackReturns \/ EventReturns)

-----------------------------------------------------------------------------
\* A pending reconnection timer is always the one the peer remembers, though
\* peerStartReconn overwrites the field: only that one can be freed with it.
OwnedTimer == timers \subseteq {reconn_ev}

\* A freed peer leaves nothing behind that would call back into it.
FreedStops == ~alive => timers = {} /\ ~hb /\ pc = "idle" /\ conn = "none"

\* A peer that lost its connection tries again, unless it is freed or a
\* libevent call has failed.
Reconnects == alive /\ conn = "none" ~> conn = "connecting" \/ ~alive \/ failed

\* A peer asked to close is freed when the callback it was asked in returns
\* (peer.h: "set close flag, it will not free immediately, wait for the event
\* processing is completed"), except in the event callback, after which
\* eventcb does not look at the flag.
ClosedAfterEvent == alive /\ wait_close /\ pc = "idle" => closed_in = {"event_cb"}

====
