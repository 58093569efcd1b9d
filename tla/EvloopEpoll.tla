----------------------------- MODULE EvloopEpoll -----------------------------
(***************************************************************************)
(* The epoll event loop evloop_epoll: edge-triggered contexts, an eventfd  *)
(* for wakeups and a timer.                                                *)
(*                                                                         *)
(* Source: play/c/event_loop/example_linux/epoll_eventfd/evloop_epoll.c    *)
(* The loop runs on one thread; the user's callbacks are the points where  *)
(* it may add contexts or ask to exit.  read_cb reads all there is and     *)
(* err_cb releases the context.  Time passes only while epoll_wait blocks; *)
(* it is called without a timeout, so its n = 0 branch is dead.            *)
(***************************************************************************)
EXTENDS Integers, Sequences, SequencesExt

CONSTANTS
  Ctxs,      \* context objects, each added at most once
  Evfd,      \* evloop->evfd_ctx
  MaxEvents, \* events one epoll_wait returns at most (64)
  Timeout,   \* evloop->timeout, set before evloop_run
  StartTime, \* the clock when the loop starts (last_ts starts at 0)
  IntMod,    \* number of values of an int (2^32)
  MaxTime,   \* bound: the clock stops here
  AddIn,     \* where the program calls evloop_add_ctx: "setup" or a callback
  MayExit    \* may a callback set evloop->exit, or epoll_wait fail?

NoTimeout == -1   \* what evloop_init sets

ASSUME EvloopEpollAssumption ==
  /\ Evfd \notin Ctxs
  /\ MaxEvents \in Nat \ {0}
  /\ Timeout \in Nat \cup {NoTimeout}
  /\ StartTime \in Nat /\ MaxTime \in Nat /\ Timeout <= StartTime /\ StartTime <= MaxTime
  /\ IntMod \in Nat \ {0} /\ IntMod % 2 = 0
  /\ AddIn \subseteq {"setup", "wake_cb", "read_cb", "err_cb", "timer_cb"}
  /\ MayExit \in BOOLEAN

VARIABLES
  pc,        \* where the loop is
  events,    \* events of the current epoll_wait still to be handled
  exit,
  last_ts, now,
  \* the kernel's side
  reg,       \* contexts registered with epoll
  rdlist,    \* epoll's ready list
  readable, hup, woken,
  \* history
  added,     \* contexts ever added
  errored,   \* contexts given to err_cb
  masked     \* contexts whose error was reported together with EPOLLIN

timeVars == <<last_ts, now>>
kernel   == <<reg, rdlist, readable, hup, woken>>
history  == <<added, errored, masked>>
vars == <<pc, events, exit, timeVars, kernel, history>>

Goto(from, to) == pc = from /\ pc' = to

\* evloop_init
Init ==
  /\ pc = "setup" /\ events = << >> /\ exit = FALSE
  /\ last_ts = 0 /\ now = StartTime
  /\ reg = {} /\ rdlist = << >> /\ readable = {} /\ hup = {} /\ woken = FALSE
  /\ added = {} /\ errored = {} /\ masked = {}

Ready(q, c) == IF c \in Range(q) THEN q ELSE Append(q, c)

\* called on the loop's thread; from another thread it returns -1 at once.
\* A context with something to report is ready at once
evloop_add_ctx(c) ==
  /\ pc \in AddIn
  /\ c \notin added
  /\ added' = added \cup {c}
  /\ reg' = reg \cup {c}
  /\ rdlist' = IF c \in readable \cup hup THEN Ready(rdlist, c) ELSE rdlist
  /\ UNCHANGED <<pc, events, exit, timeVars, readable, hup, woken, errored, masked>>

CallbackExit ==
  /\ MayExit
  /\ pc \in {"wake_cb", "read_cb", "err_cb", "timer_cb"}
  /\ exit' = TRUE
  /\ UNCHANGED <<pc, events, timeVars, kernel, history>>

-----------------------------------------------------------------------------
(* evloop_run *)

Loop ==
  /\ Goto("setup", "wait") \/ (~exit /\ Goto("check", "wait"))
  /\ UNCHANGED <<events, exit, timeVars, kernel, history>>

Event(c) ==
  [ctx |-> c, in |-> IF c = Evfd THEN woken ELSE c \in readable, hup |-> c \in hup]

\* edge-triggered: a reported context leaves the ready list, and one that has
\* nothing to report any more leaves it silently
EpollWait ==
  LET n == IF Len(rdlist) < MaxEvents THEN Len(rdlist) ELSE MaxEvents
      harvest == [i \in 1 .. n |-> Event(rdlist[i])]
  IN  /\ n > 0
      /\ events' = SelectSeq(harvest, LAMBDA e : e.in \/ e.hup)
      /\ Goto("wait", IF events' = << >> THEN "wait" ELSE "event")
      /\ rdlist' = SubSeq(rdlist, n + 1, Len(rdlist))
      /\ UNCHANGED <<exit, timeVars, reg, readable, hup, woken, history>>

EpollFails ==
  /\ MayExit
  /\ Goto("wait", "check")
  /\ exit' = TRUE
  /\ UNCHANGED <<events, timeVars, kernel, history>>

HandleWakeup ==
  /\ Goto("event", "wake_cb")
  /\ Head(events).in /\ Head(events).ctx = Evfd
  /\ woken' = FALSE
  /\ UNCHANGED <<events, exit, timeVars, reg, rdlist, readable, hup, history>>

HandleRead ==
  /\ Goto("event", "read_cb")
  /\ Head(events).in /\ Head(events).ctx # Evfd
  /\ readable' = readable \ {Head(events).ctx}
  /\ masked' = IF Head(events).hup THEN masked \cup {Head(events).ctx} ELSE masked
  /\ UNCHANGED <<events, exit, timeVars, reg, rdlist, hup, woken, added, errored>>

\* Mutant of HandleError: the context stays registered
ErrorWithoutDel ==
  /\ Goto("event", "err_cb")
  /\ ~Head(events).in /\ Head(events).hup
  /\ errored' = errored \cup {Head(events).ctx}
  /\ UNCHANGED <<events, exit, timeVars, kernel, added, masked>>

\* only without EPOLLIN: epoll_ctl DEL, then err_cb
HandleError ==
  /\ Goto("event", "err_cb")
  /\ ~Head(events).in /\ Head(events).hup
  /\ LET c == Head(events).ctx IN
       /\ reg' = reg \ {c}
       /\ rdlist' = SelectSeq(rdlist, LAMBDA d : d # c)
       /\ errored' = errored \cup {c}
  /\ UNCHANGED <<events, exit, timeVars, readable, hup, woken, added, masked>>

AfterEvents == IF Timeout > 0 THEN "timer" ELSE "check"

\* Mutant of NextEvent: the loop over the events ends after the first
OnlyFirstEvent ==
  /\ pc \in {"wake_cb", "read_cb", "err_cb"}
  /\ events' = << >>
  /\ pc' = AfterEvents
  /\ UNCHANGED <<exit, timeVars, kernel, history>>

NextEvent ==
  /\ pc \in {"wake_cb", "read_cb", "err_cb"}
  /\ events' = Tail(events)
  /\ pc' = IF events' # << >> THEN "event" ELSE AfterEvents
  /\ UNCHANGED <<exit, timeVars, kernel, history>>

\* the difference of the two clocks, converted to int
interval_ms == ((now - last_ts + IntMod \div 2) % IntMod) - IntMod \div 2

evloop_handle_timer ==
  /\ pc = "timer"
  /\ IF interval_ms >= Timeout
       THEN pc' = "timer_cb" /\ last_ts' = now
       ELSE pc' = "check" /\ UNCHANGED last_ts
  /\ UNCHANGED <<events, exit, now, kernel, history>>

TimerReturns ==
  /\ Goto("timer_cb", "check")
  /\ UNCHANGED <<events, exit, timeVars, kernel, history>>

Break ==
  /\ exit /\ Goto("check", "done")
  /\ UNCHANGED <<events, exit, timeVars, kernel, history>>

evloop_run ==
  \/ Loop \/ EpollWait \/ HandleWakeup \/ HandleRead \/ HandleError \/ NextEvent
  \/ evloop_handle_timer \/ TimerReturns \/ Break

-----------------------------------------------------------------------------
(* the environment: other threads, peers and the clock *)

evloop_wakeup ==
  /\ ~woken \/ Evfd \notin Range(rdlist)
  /\ woken' = TRUE
  /\ rdlist' = Ready(rdlist, Evfd)
  /\ UNCHANGED <<pc, events, exit, timeVars, reg, readable, hup, history>>

Edge(c) == rdlist' = IF c \in reg THEN Ready(rdlist, c) ELSE rdlist

DataArrives(c) ==
  /\ c \notin hup \cup errored
  /\ readable' = readable \cup {c}
  /\ Edge(c)
  /\ UNCHANGED <<pc, events, exit, timeVars, reg, hup, woken, history>>

\* the peer goes away or an error is raised, perhaps more than once
ErrorArises(c) ==
  /\ hup' = hup \cup {c}
  /\ Edge(c)
  /\ UNCHANGED <<pc, events, exit, timeVars, reg, readable, woken, history>>

Tick ==
  /\ pc = "wait" /\ rdlist = << >> /\ now < MaxTime
  /\ now' = now + 1
  /\ UNCHANGED <<pc, events, exit, last_ts, kernel, history>>

Next ==
  \/ \E c \in Ctxs : evloop_add_ctx(c) \/ DataArrives(c) \/ ErrorArises(c)
  \/ CallbackExit \/ evloop_run \/ EpollFails
  \/ evloop_wakeup \/ Tick

Spec == Init /\ [][Next]_vars
FairSpec == Spec /\ WF_vars(evloop_run)

-----------------------------------------------------------------------------
\* Events of the batch that have not been handled: the head already has been
\* once its callback runs.
Unhandled ==
  {events[i].ctx : i \in IF pc = "event" THEN DOMAIN events ELSE DOMAIN events \ {1}}

Pending == Range(rdlist) \cup Unhandled

\* Edge-triggered data is never stranded: a registered context with unread
\* data is on the ready list or in the batch being handled, and so is a
\* pending wakeup.
EdgeKept ==
  /\ reg \cap readable \subseteq Pending
  /\ woken => Evfd \in Pending

\* A context err_cb has released is never handed to a callback again: it is
\* neither in the rest of the batch nor on the ready list.
NoStaleEvent == errored \cap Pending = {}

\* An error of a registered context goes unreported only when it came
\* together with data: EPOLLIN | EPOLLHUP takes the read branch alone.
ErrorMissedOnlyWithData == reg \cap hup \subseteq Pending \cup masked

\* timer_cb is called at intervals below twice the timeout, however busy or
\* idle the loop is (evloop_set_timer: "timer interval in milliseconds").
\* The select loop keeps this; epoll_wait is called with -1, so an idle loop
\* never calls timer_cb.
TimerKept ==
  pc = "wait" /\ Timeout > 0 =>
    now - (IF last_ts > StartTime THEN last_ts ELSE StartTime) < 2 * Timeout

\* A registered context with data is given to read_cb, or removed, unless the
\* loop ends.
DataIsRead ==
  \A c \in Ctxs : c \in reg \cap readable ~> c \notin reg \cap readable \/ pc = "done"

====
