----------------------------- MODULE EvloopSelect -----------------------------
(***************************************************************************)
(* The select event loop evloop_select: contexts kept in a linked list, an *)
(* fd_set rebuilt in every iteration, an eventfd for wakeups and a timer.  *)
(*                                                                         *)
(* Source: play/c/event_loop/example_linux/select_eventfd/evloop_select.c  *)
(* The loop runs on one thread; the user's callbacks are the points where  *)
(* it may add contexts or ask to exit.  read_cb reads all there is and     *)
(* err_cb closes its descriptor.  Time passes only while select blocks.    *)
(***************************************************************************)
EXTENDS Integers, Sequences, FiniteSetsExt, SequencesExt

CONSTANTS
  Ctxs,      \* context objects, each added at most once
  Fds,       \* descriptor numbers contexts may get
  EVFD,      \* descriptor number of the eventfd
  Timeout,   \* evloop->timeout, set before evloop_run
  StartTime, \* the clock when the loop starts (last_ts starts at 0)
  IntMod,    \* number of values of an int (2^32)
  MaxTime,   \* bound: the clock stops here
  AddIn,     \* where the program calls evloop_add_ctx: "setup" or a callback
  MayExit    \* may a callback set evloop->exit, or a signal end select?

NoTimeout == -1   \* what evloop_init sets

VARIABLES
  pc,        \* where the loop is
  list,      \* linked_list
  fd,        \* ctx->fd of each context (EVFD while it has none)
  allset, nfds,
  rset, eset,
  node,      \* position of the node being visited
  exit,
  last_ts, now,
  deadline,  \* when the running select times out (0 when none runs)
  \* the kernel's side
  open,      \* descriptors in use
  readable, except, woken,
  \* history
  raised,    \* contexts whose descriptor had an exceptional condition
  errored,   \* contexts given to err_cb
  recycled,  \* contexts added on a number closed earlier in the same walk
  fired,     \* when timer_cb was last called, at first when the loop started
  wrapped    \* has an interval not fitted an int?

setVars  == <<list, allset, nfds>>
timeVars == <<last_ts, now, deadline>>
kernel   == <<open, readable, except, woken>>
history  == <<raised, errored, recycled, fired, wrapped>>
vars == <<pc, setVars, fd, rset, eset, node, exit, timeVars, kernel, history>>

Goto(from, to) == pc = from /\ pc' = to

\* evloop_init
Init ==
  /\ pc = "setup"
  /\ list = << >> /\ allset = {EVFD} /\ nfds = EVFD
  /\ fd = [c \in Ctxs |-> EVFD]
  /\ rset = {} /\ eset = {} /\ node = 1
  /\ exit = FALSE
  /\ last_ts = 0 /\ now = StartTime /\ deadline = 0
  /\ open = {} /\ readable = {} /\ except = {} /\ woken = FALSE
  /\ raised = {} /\ errored = {} /\ recycled = {} /\ fired = StartTime /\ wrapped = FALSE

\* called on the loop's thread; from another thread it returns -1 at once
evloop_add_ctx(c, f) ==
  /\ pc \in AddIn
  /\ fd[c] = EVFD /\ f \notin open
  /\ fd' = [fd EXCEPT ![c] = f] /\ open' = open \cup {f}
  /\ list' = Append(list, c)
  /\ allset' = allset \cup {f}
  /\ nfds' = IF f > nfds THEN f ELSE nfds
  /\ recycled' = recycled \cup {x \in {c} : f \in eset}
  /\ UNCHANGED <<pc, rset, eset, node, exit, timeVars, readable, except, woken,
                 raised, errored, fired, wrapped>>

CallbackExit ==
  /\ MayExit
  /\ pc \in {"wake_cb", "read_cb", "err_cb", "timer_cb"}
  /\ exit' = TRUE
  /\ UNCHANGED <<pc, setVars, fd, rset, eset, node, timeVars, kernel, history>>

-----------------------------------------------------------------------------
(* evloop_run *)

\* the top of the loop: the timeout saved before the loop is used each time
EnterSelect ==
  /\ Goto("setup", "select") \/ (~exit /\ Goto("check", "select"))
  /\ deadline' = now + Timeout
  /\ UNCHANGED <<setVars, fd, rset, eset, node, exit, last_ts, now, kernel, history>>

Watched == {f \in allset : f <= nfds}
ReadReady == (readable \cap Watched) \cup {f \in {EVFD} : woken}
BadFd == ~(Watched \subseteq open \cup {EVFD})

\* n > 0: the sets are copied out, allset is emptied, the eventfd is read
SelectReturns ==
  /\ pc = "select" /\ ~BadFd
  /\ ReadReady \cup (except \cap Watched) # {}
  /\ rset' = ReadReady /\ eset' = except \cap Watched
  /\ allset' = {}
  /\ woken' = FALSE /\ deadline' = 0
  /\ pc' = IF woken THEN "wake_cb" ELSE "reset"
  /\ UNCHANGED <<list, nfds, fd, node, exit, last_ts, now, open, readable, except, history>>

\* n = 0
SelectTimesOut ==
  /\ Goto("select", "timer") /\ ~BadFd
  /\ Timeout >= 0 /\ now >= deadline
  /\ ReadReady \cup (except \cap Watched) = {}
  /\ deadline' = 0
  /\ UNCHANGED <<setVars, fd, rset, eset, node, exit, last_ts, now, kernel, history>>

\* n < 0: a closed descriptor in allset (EBADF)
SelectFails ==
  /\ BadFd /\ Goto("select", "check")
  /\ exit' = TRUE /\ deadline' = 0
  /\ UNCHANGED <<setVars, fd, rset, eset, node, last_ts, now, kernel, history>>

\* n < 0: a signal (EINTR)
SelectInterrupted ==
  /\ MayExit /\ Goto("select", "check")
  /\ exit' = TRUE /\ deadline' = 0
  /\ UNCHANGED <<setVars, fd, rset, eset, node, last_ts, now, kernel, history>>

\* after the wakeup: put the eventfd back and start at the first node
ResetSet ==
  /\ pc \in {"wake_cb", "reset"} /\ pc' = "walk"
  /\ allset' = allset \cup {EVFD} /\ nfds' = EVFD
  /\ node' = 1
  /\ UNCHANGED <<list, fd, rset, eset, exit, timeVars, kernel, history>>

VisitRead ==
  /\ pc = "walk" /\ node <= Len(list)
  /\ LET f == fd[list[node]] IN
       IF f \in rset THEN pc' = "read_cb" /\ readable' = readable \ {f}
                     ELSE pc' = "except" /\ UNCHANGED readable
  /\ UNCHANGED <<setVars, fd, rset, eset, node, exit, timeVars, open, except, woken, history>>

\* the node is removed, err_cb is called and closes the descriptor
VisitExcept ==
  /\ pc \in {"read_cb", "except"} /\ fd[list[node]] \in eset
  /\ list' = RemoveAt(list, node)
  /\ errored' = errored \cup {list[node]}
  /\ open' = open \ {fd[list[node]]}
  /\ readable' = readable \ {fd[list[node]]} /\ except' = except \ {fd[list[node]]}
  /\ pc' = "err_cb"
  /\ UNCHANGED <<allset, nfds, fd, rset, eset, node, exit, timeVars, woken, raised, recycled, fired, wrapped>>

VisitKeep ==
  /\ pc \in {"read_cb", "except"} /\ fd[list[node]] \notin eset
  /\ LET f == fd[list[node]] IN
       /\ allset' = allset \cup {f}
       /\ nfds' = IF f > nfds THEN f ELSE nfds
  /\ node' = node + 1
  /\ pc' = "walk"
  /\ UNCHANGED <<list, fd, rset, eset, exit, timeVars, kernel, history>>

ErrReturns ==
  /\ Goto("err_cb", "walk")
  /\ UNCHANGED <<setVars, fd, rset, eset, node, exit, timeVars, kernel, history>>

\* Mutant of WalkEnds: a busy loop does not look at the timer
WalkEndsUntimed ==
  /\ pc = "walk" /\ node > Len(list)
  /\ pc' = "check"
  /\ rset' = {} /\ eset' = {} /\ node' = 1
  /\ UNCHANGED <<setVars, fd, exit, timeVars, kernel, history>>

\* rset, eset and node are dead from here to the next select
WalkEnds ==
  /\ pc = "walk" /\ node > Len(list)
  /\ pc' = IF Timeout > 0 THEN "timer" ELSE "check"
  /\ rset' = {} /\ eset' = {} /\ node' = 1
  /\ UNCHANGED <<setVars, fd, exit, timeVars, kernel, history>>

\* the difference of the two clocks, converted to int
interval_ms == ((now - last_ts + IntMod \div 2) % IntMod) - IntMod \div 2

evloop_handle_timer ==
  /\ pc = "timer"
  /\ IF interval_ms >= Timeout
       THEN pc' = "timer_cb" /\ last_ts' = now /\ fired' = now
       ELSE pc' = "check" /\ UNCHANGED <<last_ts, fired>>
  /\ wrapped' = (wrapped \/ interval_ms # now - last_ts)
  /\ UNCHANGED <<setVars, fd, rset, eset, node, exit, now, deadline, kernel, raised, errored, recycled>>

TimerReturns ==
  /\ Goto("timer_cb", "check")
  /\ UNCHANGED <<setVars, fd, rset, eset, node, exit, timeVars, kernel, history>>

Break ==
  /\ exit /\ Goto("check", "done")
  /\ UNCHANGED <<setVars, fd, rset, eset, node, exit, timeVars, kernel, history>>

evloop_run ==
  \/ EnterSelect \/ SelectReturns \/ SelectTimesOut \/ SelectFails \/ ResetSet
  \/ VisitRead \/ VisitExcept \/ VisitKeep \/ ErrReturns \/ WalkEnds
  \/ evloop_handle_timer \/ TimerReturns \/ Break

-----------------------------------------------------------------------------
(* the environment: other threads, peers and the clock *)

evloop_wakeup ==
  /\ ~woken /\ woken' = TRUE
  /\ UNCHANGED <<pc, setVars, fd, rset, eset, node, exit, timeVars, open, readable, except,
                 history>>

DataArrives(f) ==
  /\ f \in open /\ f \notin readable
  /\ readable' = readable \cup {f}
  /\ UNCHANGED <<pc, setVars, fd, rset, eset, node, exit, timeVars, open, except, woken,
                 history>>

ExceptArises(f) ==
  /\ f \in open /\ f \notin except
  /\ except' = except \cup {f}
  /\ raised' = raised \cup {c \in Range(list) : fd[c] = f}
  /\ UNCHANGED <<pc, setVars, fd, rset, eset, node, exit, timeVars, open, readable, woken,
                 errored, recycled, fired, wrapped>>

\* a blocked select wakes as soon as something is ready or the deadline is reached
Tick ==
  /\ pc = "select" /\ ~BadFd /\ now < MaxTime
  /\ ReadReady \cup (except \cap Watched) = {}
  /\ Timeout >= 0 => now < deadline
  /\ now' = now + 1
  /\ UNCHANGED <<pc, setVars, fd, rset, eset, node, exit, last_ts, deadline, kernel, history>>

Next ==
  \/ \E c \in Ctxs, f \in Fds : evloop_add_ctx(c, f)
  \/ CallbackExit \/ evloop_run \/ SelectInterrupted
  \/ evloop_wakeup \/ Tick
  \/ \E f \in Fds : DataArrives(f) \/ ExceptArises(f)

Spec == Init /\ [][Next]_vars
FairSpec == Spec /\ WF_vars(evloop_run)

-----------------------------------------------------------------------------
\* Whenever the loop calls select, it watches exactly the eventfd and the
\* descriptors of the listed contexts, and nfds is the highest of them,
\* although the set is rebuilt while callbacks add and remove contexts.  Only
\* the descriptor of a recycled context that was given to err_cb stays in the
\* set, where it was put when the context was added.
WatchesAll ==
  pc = "select" => /\ allset = {EVFD} \cup {fd[c] : c \in Range(list) \cup (recycled \cap errored)}
                   /\ nfds = Max(allset)

\* err_cb is only called for a context whose own descriptor had an
\* exceptional condition while it was in the list, or whose number had one
\* before it was closed and given to this context by a callback of the same
\* walk: eset is from before that.
ErrorsAreReal == errored \subseteq raised \cup recycled

\* timer_cb is called at intervals below twice the timeout, however busy or
\* idle the loop is (evloop_set_timer: "timer interval in milliseconds"),
\* unless the time since last_ts, 0 at first, did not fit an int when it was
\* looked at.
TimerKept == pc = "select" /\ Timeout > 0 /\ ~wrapped => now - fired < 2 * Timeout

\* A listed context with data is given to read_cb, or removed, unless the
\* loop ends.
DataIsRead ==
  \A c \in Ctxs :
    c \in Range(list) /\ fd[c] \in readable
      ~> fd[c] \notin readable \/ c \notin Range(list) \/ pc = "done"

====
