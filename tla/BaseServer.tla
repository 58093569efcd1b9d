------------------------------ MODULE BaseServer ------------------------------
(***************************************************************************)
(* The libevent server: a main thread that starts the IO threads, accepts  *)
(* connections and hands them out in turn through a tunnel per thread, and *)
(* the IO threads, each with an event base that takes tasks from its       *)
(* tunnel, runs the callbacks of its peers and drops idle ones.            *)
(*                                                                         *)
(* Sources: use/c/use-libevent_2.1.8/src/common_cpp/base_server.cpp and    *)
(* peer_io_thread.cpp, with peerConnectIn and the callbacks of peer.c.     *)
(* The tunnel is a bufferevent pair of libevent: bytes written at one end  *)
(* are in the other's input buffer, and tunnelcb is scheduled.             *)
(***************************************************************************)
EXTENDS Integers, Sequences, FiniteSets

CONSTANTS
  N,             \* io_thread_num_
  Conns,         \* connections clients make
  InTimeout, OutTimeout,   \* IdleTimeout: seconds, 0 for none
  CheckInterval, \* checktimout_interval_
  MaxTime,       \* bound: the clock stops here
  MayFail        \* may bufferevent_write, event_new or peerConnectIn fail?

TIME == "TUNNEL_ADD_TIME"

ASSUME BaseServerAssumption ==
  /\ TIME \notin Conns
  /\ N \in Nat \ {0} /\ CheckInterval \in Nat \ {0}
  /\ InTimeout \in Nat /\ OutTimeout \in Nat /\ MaxTime \in Nat
  /\ MayFail \in BOOLEAN

Threads == 1 .. N
None == 0

VARIABLES
  \* the start of a thread: PeerIOThreadArg and both program counters
  mpc,         \* main thread
  cur,         \* the thread being created, or the last one
  mtx,         \* owner of arg->mtx: "free", "main" or "io"
  waiting,     \* main waits on arg->cv
  p_io_thread, \* arg->p_io_thread, None while it is not set
  io_threads,  \* BaseServer::io_threads_
  tpc,         \* IO threads
  \* the server
  io_thread_idx,
  where,       \* of each connection: "backlog", its thread, or how it ended
  tunnel, armed, \* input of tunnel[TUNNEL_OUT]; tunnelcb is scheduled
  peers,       \* PeerIOThread::peers
  next_check,  \* when timeout_ev fires, None without it
  last_read, last_write, now,
  \* history
  given,       \* sockets handed to each thread
  failed       \* threads where a task failed

startVars == <<mpc, cur, mtx, waiting, p_io_thread, io_threads>>
timeVars  == <<next_check, last_read, last_write, now>>
vars == <<startVars, tpc, io_thread_idx, where, tunnel, armed, peers, timeVars, given, failed>>

Init ==
  /\ mpc = "lock" /\ cur = 1 /\ mtx = "free" /\ waiting = FALSE
  /\ p_io_thread = None /\ io_threads = << >>
  /\ tpc = [t \in Threads |-> "none"]
  /\ io_thread_idx = 1
  /\ where = [c \in Conns |-> "backlog"]
  /\ tunnel = [t \in Threads |-> << >>] /\ armed = [t \in Threads |-> FALSE]
  /\ peers = [t \in Threads |-> {}]
  /\ next_check = [t \in Threads |-> None]
  /\ last_read = [c \in Conns |-> 0] /\ last_write = [c \in Conns |-> 0] /\ now = 0
  /\ given = [t \in Threads |-> 0] /\ failed = {}

serverVars == <<io_thread_idx, where, tunnel, armed, peers, timeVars, given, failed>>

-----------------------------------------------------------------------------
(* createPeerIOThread and the start of peerIOThreadFunc *)

\* malloc the argument, lock its mutex, create the thread
CreateThread ==
  /\ mpc = "lock" /\ mpc' = "wait"
  /\ mtx' = "main"
  /\ p_io_thread' = None
  /\ tpc' = [tpc EXCEPT ![cur] = "init"]
  /\ UNCHANGED <<cur, waiting, io_threads, serverVars>>

\* pthread_cond_wait releases the mutex and waits; no spurious wakeups
CondWait ==
  /\ mpc = "wait" /\ mpc' = "waiting"
  /\ mtx' = "free" /\ waiting' = TRUE
  /\ UNCHANGED <<cur, p_io_thread, io_threads, tpc, serverVars>>

\* bufferevent_write to a tunnel
Write(t, task) ==
  /\ tunnel' = [tunnel EXCEPT ![t] = Append(@, task)]
  /\ armed' = [armed EXCEPT ![t] = TRUE]

\* the thread is there: free the argument, peerIOThreadSetTimeout, next one
ThreadCreated ==
  /\ mpc = "waiting" /\ ~waiting /\ mtx = "free"
  /\ io_threads' = Append(io_threads, p_io_thread)
  /\ Write(cur, TIME) \/ (MayFail /\ UNCHANGED <<tunnel, armed>>)
  /\ IF cur = N THEN mpc' = "accept" /\ UNCHANGED cur
                ELSE mpc' = "lock" /\ cur' = cur + 1
  /\ UNCHANGED <<mtx, waiting, p_io_thread, tpc, io_thread_idx, where, peers, timeVars, given, failed>>

ThreadInit(t) ==
  /\ tpc[t] = "init" /\ tpc' = [tpc EXCEPT ![t] = "mutex"]
  /\ p_io_thread' = t
  /\ UNCHANGED <<mpc, cur, mtx, waiting, io_threads, serverVars>>

\* lock and unlock: passes only once main waits
ThreadMutex(t) ==
  /\ tpc[t] \in {"mutex", "unlock"}
  /\ IF tpc[t] = "mutex"
       THEN mtx = "free" /\ mtx' = "io" /\ tpc' = [tpc EXCEPT ![t] = "unlock"]
       ELSE mtx' = "free" /\ tpc' = [tpc EXCEPT ![t] = "signal"]
  /\ UNCHANGED <<mpc, cur, waiting, p_io_thread, io_threads, serverVars>>

ThreadSignal(t) ==
  /\ tpc[t] = "signal" /\ tpc' = [tpc EXCEPT ![t] = "loop"]
  /\ waiting' = FALSE
  /\ UNCHANGED <<mpc, cur, mtx, p_io_thread, io_threads, serverVars>>

start ==
  \/ CreateThread \/ CondWait \/ ThreadCreated
  \/ \E t \in Threads : ThreadInit(t) \/ ThreadMutex(t) \/ ThreadSignal(t)

-----------------------------------------------------------------------------
(* the main thread's loop *)

\* do_accept, onAccept and peerIOThreadAddSocket
onAccept(c) ==
  LET t == io_thread_idx IN
  /\ mpc = "accept" /\ where[c] = "backlog"
  /\ \/ where' = [where EXCEPT ![c] = "tunnel"] /\ Write(t, c)
     \/ MayFail /\ where' = [where EXCEPT ![c] = "closed"] /\ UNCHANGED <<tunnel, armed>>
  /\ given' = [given EXCEPT ![t] = @ + 1]
  /\ io_thread_idx' = IF t + 1 > N THEN 1 ELSE t + 1
  /\ UNCHANGED <<startVars, tpc, peers, timeVars, failed>>

-----------------------------------------------------------------------------
(* the event base of an IO thread *)

tunnelcb(t) ==
  /\ tpc[t] = "loop" /\ armed[t]
  /\ tpc' = [tpc EXCEPT ![t] = "tunnel"]
  /\ armed' = [armed EXCEPT ![t] = FALSE]
  /\ UNCHANGED <<startVars, io_thread_idx, where, tunnel, peers, timeVars, given, failed>>

PopTask(t) == tunnel' = [tunnel EXCEPT ![t] = Tail(@)]

\* a task that fails ends tunnelcb, whatever else is in the buffer
TaskFails(t) ==
  /\ MayFail
  /\ failed' = failed \cup {t}
  /\ tpc' = [tpc EXCEPT ![t] = "loop"]

tunnelcb_timetask(t) ==
  /\ tpc[t] = "tunnel" /\ tunnel[t] # << >> /\ Head(tunnel[t]) = TIME
  /\ PopTask(t)
  /\ \/ /\ next_check' = [next_check EXCEPT ![t] = now + CheckInterval]
        /\ UNCHANGED <<tpc, failed>>
     \/ /\ next_check' = [next_check EXCEPT ![t] = None]
        /\ TaskFails(t)
  /\ UNCHANGED <<startVars, io_thread_idx, where, armed, peers, last_read, last_write, now, given>>

\* Mutant of tunnelcb_addsocktask: one task per callback
OneTaskPerCallback(t) ==
  /\ tpc[t] = "tunnel" /\ tunnel[t] # << >> /\ Head(tunnel[t]) # TIME
  /\ PopTask(t)
  /\ LET c == Head(tunnel[t]) IN
       /\ where' = [where EXCEPT ![c] = "peer"]
       /\ peers' = [peers EXCEPT ![t] = @ \cup {c}]
       /\ last_read' = [last_read EXCEPT ![c] = now]
       /\ last_write' = [last_write EXCEPT ![c] = now]
  /\ tpc' = [tpc EXCEPT ![t] = "loop"]
  /\ UNCHANGED <<startVars, io_thread_idx, armed, next_check, now, given, failed>>

\* if peerConnectIn fails, the socket is neither closed nor kept
tunnelcb_addsocktask(t) ==
  /\ tpc[t] = "tunnel" /\ tunnel[t] # << >> /\ Head(tunnel[t]) # TIME
  /\ PopTask(t)
  /\ LET c == Head(tunnel[t]) IN
       \/ /\ where' = [where EXCEPT ![c] = "peer"]
          /\ peers' = [peers EXCEPT ![t] = @ \cup {c}]
          /\ last_read' = [last_read EXCEPT ![c] = now]
          /\ last_write' = [last_write EXCEPT ![c] = now]
          /\ UNCHANGED <<tpc, failed>>
       \/ /\ where' = [where EXCEPT ![c] = "lost"]
          /\ TaskFails(t)
          /\ UNCHANGED <<peers, last_read, last_write>>
  /\ UNCHANGED <<startVars, io_thread_idx, armed, next_check, now, given>>

\* the buffer is empty
TunnelDone(t) ==
  /\ tpc[t] = "tunnel" /\ tunnel[t] = << >>
  /\ tpc' = [tpc EXCEPT ![t] = "loop"]
  /\ UNCHANGED <<startVars, serverVars>>

\* Mutant of Drop: peers is not updated
DropKeepsPeer(t, cs) ==
  /\ where' = [c \in Conns |-> IF c \in cs THEN "closed" ELSE where[c]]
  /\ UNCHANGED peers

\* peerFree of a set of peers; onClosePeer takes them out of peers
Drop(t, cs) ==
  /\ peers' = [peers EXCEPT ![t] = @ \ cs]
  /\ where' = [c \in Conns |-> IF c \in cs THEN "closed" ELSE where[c]]

Idle(c) ==
  \/ InTimeout # 0 /\ now - last_read[c] > InTimeout
  \/ OutTimeout # 0 /\ now - last_write[c] > OutTimeout

\* Mutant of check_timeout: the idle time is off by one
CheckTooEarly(t) ==
  /\ tpc[t] = "loop" /\ next_check[t] # None /\ now >= next_check[t]
  /\ Drop(t, {c \in peers[t] : \/ InTimeout # 0 /\ now - last_read[c] >= InTimeout
                               \/ OutTimeout # 0 /\ now - last_write[c] >= OutTimeout})
  /\ next_check' = [next_check EXCEPT ![t] = @ + CheckInterval]
  /\ UNCHANGED <<startVars, tpc, io_thread_idx, tunnel, armed, last_read, last_write, now, given, failed>>

\* timeout_ev is persistent
check_timeout(t) ==
  /\ tpc[t] = "loop" /\ next_check[t] # None /\ now >= next_check[t]
  /\ Drop(t, {c \in peers[t] : Idle(c)})
  /\ next_check' = [next_check EXCEPT ![t] = @ + CheckInterval]
  /\ UNCHANGED <<startVars, tpc, io_thread_idx, tunnel, armed, last_read, last_write, now, given, failed>>

\* the user's read and write callbacks may call peerClose
readcb(t, c) ==
  /\ tpc[t] = "loop" /\ c \in peers[t]
  /\ last_read' = [last_read EXCEPT ![c] = now]
  /\ Drop(t, {c}) \/ UNCHANGED <<peers, where>>
  /\ UNCHANGED <<startVars, tpc, io_thread_idx, tunnel, armed, next_check, last_write, now, given, failed>>

writecb(t, c) ==
  /\ tpc[t] = "loop" /\ c \in peers[t]
  /\ last_write' = [last_write EXCEPT ![c] = now]
  /\ Drop(t, {c}) \/ UNCHANGED <<peers, where>>
  /\ UNCHANGED <<startVars, tpc, io_thread_idx, tunnel, armed, next_check, last_read, now, given, failed>>

\* eventcb with EOF or an error: onEvent calls peerClose, eventcb frees
eventcb(t, c) ==
  /\ tpc[t] = "loop" /\ c \in peers[t]
  /\ Drop(t, {c})
  /\ UNCHANGED <<startVars, tpc, io_thread_idx, tunnel, armed, timeVars, given, failed>>

\* time passes while every IO thread has handled what is due
Tick ==
  /\ mpc = "accept" /\ now < MaxTime
  /\ \A t \in Threads : next_check[t] # None => now < next_check[t]
  /\ now' = now + 1
  /\ UNCHANGED <<startVars, tpc, io_thread_idx, where, tunnel, armed, peers, next_check, last_read,
                 last_write, given, failed>>

io(t) ==
  \/ tunnelcb(t) \/ tunnelcb_timetask(t) \/ tunnelcb_addsocktask(t) \/ TunnelDone(t)
  \/ check_timeout(t)

Next ==
  \/ start \/ Tick
  \/ \E c \in Conns : onAccept(c)
  \/ \E t \in Threads : io(t)
  \/ \E t \in Threads, c \in Conns : readcb(t, c) \/ writecb(t, c) \/ eventcb(t, c)

Spec == Init /\ [][Next]_vars

\* Main runs, an IO thread runs its scheduled callbacks.
FairSpec == Spec /\ WF_vars(start) /\ \A t \in Threads : WF_vars(io(t))

-----------------------------------------------------------------------------
\* createPeerIOThread returns the thread it made: main never goes on before
\* the pointer is set and never frees the argument while the new thread uses
\* it.
StartedWhole ==
  /\ \A i \in DOMAIN io_threads : io_threads[i] = i
  /\ \A t \in Threads : tpc[t] \in {"init", "mutex", "unlock", "signal"} =>
       t = cur /\ mpc \in {"wait", "waiting"}

\* All IO threads are started.
Starts == <>(mpc = "accept")

\* socket c waits in the tunnel of thread t
Waits(c, t) == \E i \in DOMAIN tunnel[t] : tunnel[t][i] = c

\* Every socket is in one place: waiting in one tunnel or owned by one IO
\* thread; one that is closed or was lost is in none.
OnePlace ==
  \A c \in Conns :
    LET holders == {t \in Threads : c \in peers[t]}
        queues  == {t \in Threads : Waits(c, t)}
    IN  /\ Cardinality(holders) = (IF where[c] = "peer" THEN 1 ELSE 0)
        /\ Cardinality(queues) = (IF where[c] = "tunnel" THEN 1 ELSE 0)

\* The sockets are spread evenly over the IO threads.
Balanced == \A t, u \in Threads : given[t] - given[u] \in -1 .. 1

\* createPeerIOThread returns whole threads only, every socket is in one place
\* and they are spread evenly over the threads.
ServerWhole == StartedWhole /\ OnePlace /\ Balanced

\* An idle peer is dropped within one check after its timeout
\* (peer.h: "timeout without incoming traffic").
IdleDropped ==
  \A t \in Threads : next_check[t] # None =>
    \A c \in peers[t] :
      /\ InTimeout # 0 => now - last_read[c] <= InTimeout + CheckInterval
      /\ OutTimeout # 0 => now - last_write[c] <= OutTimeout + CheckInterval

\* The timeout check drops no peer that was active within its timeouts.
ActiveKept ==
  [][\A t \in Threads : next_check'[t] # next_check[t] =>
       \A c \in peers[t] :
         (InTimeout = 0 \/ now - last_read[c] <= InTimeout) /\
         (OutTimeout = 0 \/ now - last_write[c] <= OutTimeout) => c \in peers'[t]]_vars

\* A socket handed to an IO thread is taken out of the tunnel, unless a task
\* has failed there: tunnelcb then returns with tasks left in the buffer.
Served ==
  \A t \in Threads, c \in Conns :
    Waits(c, t) ~> ~Waits(c, t) \/ t \in failed

====
