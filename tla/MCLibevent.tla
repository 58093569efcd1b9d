----------------------------- MODULE MCLibevent -----------------------------
(***************************************************************************)
(* The libevent programs: the server that spreads connections over its IO  *)
(* threads (with calls that fail), the same server checking idle timeouts  *)
(* as time passes, and the peer that reconnects.  A behaviour runs one of  *)
(* them while the others rest in their initial states.                     *)
(***************************************************************************)
EXTENDS BaseServer

CONSTANTS IdleConns, IdleIn, IdleOut, IdleMaxTime, MaxInterval

VARIABLES
  part,   \* the part that runs
  i_mpc, i_cur, i_mtx, i_waiting, i_p_io_thread, i_io_threads, i_tpc, i_io_thread_idx, i_where,
  i_tunnel, i_armed, i_peers, i_next_check, i_last_read, i_last_write, i_now, i_given, i_failed,
  pc, what, alive, conn, auto_reconn, interval, wait_close, reconn_ev, timers, hb, p_failed, closed_in

idleVars == <<i_mpc, i_cur, i_mtx, i_waiting, i_p_io_thread, i_io_threads, i_tpc, i_io_thread_idx,
              i_where, i_tunnel, i_armed, i_peers, i_next_check, i_last_read, i_last_write, i_now,
              i_given, i_failed>>
peerVars == <<pc, what, alive, conn, auto_reconn, interval, wait_close, reconn_ev, timers, hb,
              p_failed, closed_in>>

\* One IO thread and a clock.
Timed == INSTANCE BaseServer WITH
  N <- 1, Conns <- IdleConns, InTimeout <- IdleIn, OutTimeout <- IdleOut, MaxTime <- IdleMaxTime,
  MayFail <- FALSE,
  mpc <- i_mpc, cur <- i_cur, mtx <- i_mtx, waiting <- i_waiting, p_io_thread <- i_p_io_thread,
  io_threads <- i_io_threads, tpc <- i_tpc, io_thread_idx <- i_io_thread_idx, where <- i_where,
  tunnel <- i_tunnel, armed <- i_armed, peers <- i_peers, next_check <- i_next_check,
  last_read <- i_last_read, last_write <- i_last_write, now <- i_now, given <- i_given,
  failed <- i_failed

Client == INSTANCE Peer WITH failed <- p_failed

LibeventInit == /\ part \in {"server", "idle", "peer"} /\ Init /\ Timed!Init /\ Client!Init
                /\ part # "peer" => conn = "connecting"   \* one state to rest in

LibeventNext == /\ \/ part = "server" /\ Next /\ UNCHANGED <<idleVars, peerVars>>
                   \/ part = "idle" /\ Timed!Next /\ UNCHANGED <<vars, peerVars>>
                   \/ part = "peer" /\ Client!Next /\ UNCHANGED <<vars, idleVars>>
                /\ UNCHANGED part

\* The fairness of FairSpec of the part that runs.
LibeventSpec ==
  /\ LibeventInit /\ [][LibeventNext]_<<part, vars, idleVars, peerVars>>
  /\ WF_vars(part = "server" /\ start)
  /\ \A t \in Threads : WF_vars(part = "server" /\ io(t))
  /\ SF_peerVars(part = "peer" /\ \E e \in Client!Evs : Client!reconncb(e))
  /\ WF_peerVars(part = "peer" /\ (Client!CallbackReturns \/ Client!EventReturns))

-----------------------------------------------------------------------------
\* All IO threads are started, and a socket handed to one is taken out of its
\* tunnel, unless a task has failed there.
ServerServes == part = "server" => Starts /\ Served

\* check_timeout drops an idle peer within one check after its timeout, and
\* drops no peer that was active within its timeouts.
IdlePeersOnly == []Timed!IdleDropped /\ Timed!ActiveKept

\* A freed peer leaves nothing behind that would call back into it, and a
\* pending reconnection timer is always the one the peer remembers and frees;
\* a peer asked to close is freed when the callback returns, except in the
\* event callback.
FreedStops == Client!OwnedTimer /\ Client!FreedStops /\ Client!ClosedAfterEvent

\* A peer that lost its connection tries again, unless it is freed or a
\* libevent call has failed.
Reconnects == part = "peer" => Client!Reconnects
=============================================================================
