------------------------------ MODULE MCLoops -------------------------------
(***************************************************************************)
(* The two event loops, evloop_epoll and evloop_select, with the same      *)
(* interface: a behaviour runs one of them while the other one rests in    *)
(* its initial state.                                                      *)
(***************************************************************************)
EXTENDS EvloopEpoll

CONSTANTS Fds, EVFD, SelectMaxTime

VARIABLES loop,   \* the loop that runs
          s_pc, list, fd, allset, nfds, rset, eset, node, s_exit, s_last_ts, s_now, deadline,
          open, s_readable, except, s_woken, raised, s_errored, recycled, fired, wrapped

selectVars == <<s_pc, list, fd, allset, nfds, rset, eset, node, s_exit, s_last_ts, s_now, deadline,
                open, s_readable, except, s_woken, raised, s_errored, recycled, fired, wrapped>>

Select == INSTANCE EvloopSelect WITH
  MaxTime <- SelectMaxTime,
  pc <- s_pc, exit <- s_exit, last_ts <- s_last_ts, now <- s_now,
  readable <- s_readable, woken <- s_woken, errored <- s_errored

LoopsInit == loop \in {"epoll", "select"} /\ Init /\ Select!Init

LoopsNext == /\ \/ loop = "epoll" /\ Next /\ UNCHANGED selectVars
                \/ loop = "select" /\ Select!Next /\ UNCHANGED vars
             /\ UNCHANGED loop

\* The thread of the loop that runs does not stop.
LoopsSpec == /\ LoopsInit /\ [][LoopsNext]_<<loop, vars, selectVars>>
             /\ WF_vars(loop = "epoll" /\ evloop_run)
             /\ WF_selectVars(loop = "select" /\ Select!evloop_run)

-----------------------------------------------------------------------------
\* evloop_epoll loses no edge, calls back for no context that was removed
\* (and perhaps freed) in the same batch, and misses an error only when it
\* came with data: see EdgeKept, NoStaleEvent and ErrorMissedOnlyWithData.
EpollKeeps == EdgeKept /\ NoStaleEvent /\ ErrorMissedOnlyWithData

\* evloop_select watches exactly the eventfd and the descriptors of the listed
\* contexts although callbacks change the list, reports an error only to the
\* context that had it, and calls timer_cb at intervals below twice the
\* timeout.
SelectKeeps == Select!WatchesAll /\ Select!ErrorsAreReal /\ Select!TimerKept

\* Both loops give a registered context with data to read_cb, or remove it,
\* unless the loop ends.
LoopsReadData == /\ loop = "epoll" => DataIsRead
                 /\ loop = "select" => Select!DataIsRead
=============================================================================
