-------------------------- MODULE BaseServerProofs --------------------------
(***************************************************************************)
(* The libevent server for any number of IO threads and connections: the   *)
(* threads are started whole, a socket is in one place, and the threads    *)
(* get as many sockets as each other.                                      *)
(***************************************************************************)
EXTENDS BaseServer, TLAPS, FiniteSetTheorems

-----------------------------------------------------------------------------
(* the start of the threads *)

Starting == {"init", "mutex", "unlock", "signal"}
Running == {"loop", "tunnel"}

StartType ==
  /\ mpc \in {"lock", "wait", "waiting", "accept"} /\ cur \in Threads
  /\ waiting \in BOOLEAN
  /\ tpc \in [Threads -> {"none"} \cup Starting \cup Running]
  /\ io_threads \in Seq(Threads \cup {None})

\* Main keeps the mutex until it waits, so the new thread can only signal a
\* main thread that waits; main goes on when the thread is in its loop.
Handshake ==
  /\ \A t \in Threads : tpc[t] \in Starting => t = cur /\ mpc \in {"wait", "waiting"}
  /\ \A t \in Threads : t > cur => tpc[t] = "none"
  /\ mpc = "lock" => tpc[cur] = "none"
  /\ mpc = "wait" => mtx = "main" /\ tpc[cur] \in {"init", "mutex"}
  /\ mpc = "waiting" => tpc[cur] \in (IF waiting THEN Starting ELSE Running)
  /\ mpc \in {"wait", "waiting"} /\ tpc[cur] # "init" => p_io_thread = cur
  /\ mpc = "accept" => cur = N

Created ==
  /\ Len(io_threads) = IF mpc = "accept" THEN N ELSE cur - 1
  /\ \A i \in 1 .. Len(io_threads) : io_threads[i] = i

SInv == StartType /\ Handshake /\ Created

\* The threads are numbered from 1.
LEMMA ThreadNumbers == /\ \A t \in Threads : t \in Nat /\ t >= 1 /\ t <= N
                       /\ N \in Nat /\ N >= 1 /\ 1 \in Threads
  BY BaseServerAssumption DEF Threads

\* Nothing is started at first.
LEMMA StartInit ==
  ASSUME Init
  PROVE  SInv
<1>1. StartType
  <2>1. io_threads \in Seq(Threads \cup {None})
    BY DEF Init
  <2>2. tpc \in [Threads -> {"none"} \cup Starting \cup Running]
    BY DEF Init
  <2>3. mpc = "lock" /\ cur = 1 /\ waiting = FALSE
    BY DEF Init
  <2> QED BY <2>1, <2>2, <2>3, ThreadNumbers, Zenon DEF StartType
<1>2. Handshake
  BY ThreadNumbers DEF Init, Handshake, Starting
<1>3. Created
  BY ThreadNumbers DEF Init, Created
<1> QED BY <1>1, <1>2, <1>3 DEF SInv

\* The callbacks of a running thread leave it running.
LEMMA RunningKept ==
  ASSUME SInv, UNCHANGED startVars,
         \/ UNCHANGED tpc
         \/ \E t \in Threads : tpc[t] \in Running /\ \E s \in Running : tpc' = [tpc EXCEPT ![t] = s]
  PROVE  SInv'
<1>1. StartType /\ Handshake /\ Created
  BY DEF SInv
<1>2. CASE UNCHANGED tpc
  BY <1>1, <1>2 DEF SInv, startVars, StartType, Handshake, Created
<1>3. ASSUME NEW t \in Threads, NEW s \in Running, tpc[t] \in Running, tpc' = [tpc EXCEPT ![t] = s]
      PROVE  SInv'
  <2>1. /\ tpc' \in [Threads -> {"none"} \cup Starting \cup Running]
        /\ \A u \in Threads : tpc'[u] = IF u = t THEN s ELSE tpc[u]
    BY <1>1, <1>3 DEF StartType
  <2>2. StartType' /\ Created'
    BY <1>1, <2>1 DEF startVars, StartType, Created
  <2>3. s \notin Starting /\ s # "none" /\ s # "init" /\ tpc[t] \notin Starting /\ tpc[t] # "none"
    BY <1>3 DEF Starting, Running
  <2>4. Handshake'
    <3>1. mpc = "waiting" => tpc'[cur] \in (IF waiting THEN Starting ELSE Running)
      BY <1>1, <1>3, <2>1, <2>3 DEF Handshake, StartType
    <3>2. mpc = "lock" \/ mpc = "wait" => cur # t
      BY <1>1, <2>3 DEF Handshake, Starting
    <3>3. cur \in Threads /\ tpc'[cur] = (IF cur = t THEN s ELSE tpc[cur])
      BY <1>1, <2>1 DEF StartType
    <3>4. \A u \in Threads : tpc'[u] \in Starting => u = cur /\ mpc \in {"wait", "waiting"}
      BY <1>1, <2>1, <2>3 DEF Handshake
    <3>5. \A u \in Threads : u > cur => tpc'[u] = "none"
      BY <1>1, <2>1, <2>3 DEF Handshake
    <3>6. /\ mpc = "lock" => tpc'[cur] = "none"
          /\ mpc = "wait" => mtx = "main" /\ tpc'[cur] \in {"init", "mutex"}
      BY <1>1, <3>2, <3>3 DEF Handshake
    <3>7. mpc \in {"wait", "waiting"} /\ tpc'[cur] # "init" => p_io_thread = cur
      BY <1>1, <2>3, <3>3 DEF Handshake, Starting
    <3>8. mpc' = mpc /\ cur' = cur /\ mtx' = mtx /\ waiting' = waiting /\ p_io_thread' = p_io_thread
      BY DEF startVars
    <3> QED BY <1>1, <3>1, <3>4, <3>5, <3>6, <3>7, <3>8 DEF Handshake
  <2> QED BY <2>2, <2>4 DEF SInv
<1> QED BY <1>2, <1>3

\* The main thread's steps of createPeerIOThread.
LEMMA MainStarts ==
  ASSUME SInv, CreateThread \/ CondWait \/ ThreadCreated
  PROVE  SInv'
<1>1. StartType /\ Handshake /\ Created
  BY DEF SInv
<1>2. cur \in Threads /\ cur \in Nat /\ cur >= 1 /\ cur <= N /\ N \in Nat
  BY <1>1, ThreadNumbers DEF StartType
<1>3. CASE CreateThread
  <2>1. /\ mpc = "lock" /\ mpc' = "wait" /\ mtx' = "main" /\ tpc' = [tpc EXCEPT ![cur] = "init"]
        /\ UNCHANGED <<cur, waiting, io_threads>>
    BY <1>3 DEF CreateThread
  <2>2. /\ tpc' \in [Threads -> {"none"} \cup Starting \cup Running]
        /\ \A u \in Threads : tpc'[u] = IF u = cur THEN "init" ELSE tpc[u]
    BY <1>1, <2>1 DEF StartType, Starting
  <2>3. StartType'
    BY <1>1, <2>1, <2>2 DEF StartType
  <2>4. Created'
    BY <1>1, <2>1 DEF Created
  <2>5. \A u \in Threads : tpc'[u] \in Starting => u = cur
    BY <1>1, <2>1, <2>2 DEF Handshake
  <2>6. \A u \in Threads : u > cur => tpc'[u] = "none"
    BY <1>1, <1>2, <2>2 DEF Handshake
  <2>7. tpc'[cur] = "init"
    BY <1>2, <2>2
  <2>8. Handshake'
    BY <2>1, <2>5, <2>6, <2>7 DEF Handshake
  <2> QED BY <2>3, <2>4, <2>8 DEF SInv
<1>4. CASE CondWait
  <2>1. mpc = "wait" /\ mpc' = "waiting" /\ waiting' = TRUE /\ UNCHANGED <<cur, p_io_thread, io_threads, tpc>>
    BY <1>4 DEF CondWait
  <2>2. StartType' /\ Created'
    BY <1>1, <2>1 DEF StartType, Created
  <2>3. Handshake'
    BY <1>1, <2>1 DEF Handshake, Starting
  <2> QED BY <2>2, <2>3 DEF SInv
<1>5. CASE ThreadCreated
  <2>1. /\ mpc = "waiting" /\ ~waiting /\ io_threads' = Append(io_threads, p_io_thread)
        /\ UNCHANGED <<waiting, tpc>>
        /\ \/ cur = N /\ mpc' = "accept" /\ cur' = cur
           \/ cur # N /\ mpc' = "lock" /\ cur' = cur + 1
    BY <1>5 DEF ThreadCreated
  <2>2. tpc[cur] \in Running
    BY <1>1, <2>1 DEF Handshake
  <2>3. p_io_thread = cur
    BY <1>1, <2>1, <2>2 DEF Handshake, Running
  <2>4. \A u \in Threads : tpc[u] \notin Starting
    <3>1. Running \cap Starting = {}
      BY DEF Running, Starting
    <3> QED BY <1>1, <2>2, <3>1 DEF Handshake
  <2>5. io_threads \in Seq(Threads \cup {None}) /\ Len(io_threads) = cur - 1
    BY <1>1, <2>1 DEF Created, StartType
  <2>6. /\ io_threads' \in Seq(Threads \cup {None}) /\ Len(io_threads') = cur
        /\ \A i \in 1 .. cur : io_threads'[i] = i
    <3>1. \A i \in 1 .. Len(io_threads) : io_threads[i] = i
      BY <1>1 DEF Created
    <3>2. io_threads' = Append(io_threads, cur)
      BY <2>1, <2>3
    <3>3. io_threads' \in Seq(Threads \cup {None}) /\ Len(io_threads') = cur
      BY <1>2, <2>5, <3>2
    <3>4. io_threads'[cur] = cur /\ \A i \in 1 .. cur - 1 : io_threads'[i] = io_threads[i]
      BY <1>2, <2>5, <3>2
    <3> QED BY <1>2, <2>5, <3>1, <3>3, <3>4
  <2>7. Created'
    BY <1>2, <2>1, <2>6 DEF Created
  <2>8. cur' \in Threads /\ cur' >= cur
    BY <1>2, <2>1 DEF Threads
  <2>9. StartType'
    BY <1>1, <2>1, <2>6, <2>8 DEF StartType
  <2>10. Handshake'
    <3>1. \A u \in Threads : u > cur' => tpc'[u] = "none"
      BY <1>1, <1>2, <2>1, <2>8, ThreadNumbers DEF Handshake
    <3>2. mpc' = "lock" => tpc'[cur'] = "none"
      BY <1>1, <1>2, <2>1, <2>8, ThreadNumbers DEF Handshake
    <3> QED BY <2>1, <2>4, <3>1, <3>2 DEF Handshake
  <2> QED BY <2>7, <2>9, <2>10 DEF SInv
<1> QED BY <1>3, <1>4, <1>5

\* The new thread's steps up to its event loop.
LEMMA ThreadStarts ==
  ASSUME SInv, NEW t \in Threads, ThreadInit(t) \/ ThreadMutex(t) \/ ThreadSignal(t)
  PROVE  SInv'
<1>1. StartType /\ Handshake /\ Created
  BY DEF SInv
<1>2. tpc[t] \in Starting /\ t = cur /\ mpc \in {"wait", "waiting"}
  BY <1>1 DEF ThreadInit, ThreadMutex, ThreadSignal, Starting, Handshake
<1>3. UNCHANGED <<mpc, cur, io_threads>>
  BY DEF ThreadInit, ThreadMutex, ThreadSignal
<1>4. PICK s \in Starting \cup Running : tpc' = [tpc EXCEPT ![t] = s]
  BY DEF ThreadInit, ThreadMutex, ThreadSignal, Starting, Running
<1>5. /\ tpc' \in [Threads -> {"none"} \cup Starting \cup Running]
      /\ tpc'[cur] = s /\ \A u \in Threads : u # cur => tpc'[u] = tpc[u]
  BY <1>1, <1>2, <1>4 DEF StartType
<1>6. waiting' \in BOOLEAN
  BY <1>1, Zenon DEF ThreadInit, ThreadMutex, ThreadSignal, StartType
<1>7. StartType' /\ Created'
  BY <1>1, <1>3, <1>5, <1>6 DEF StartType, Created
<1>8. \A u \in Threads : u # cur => tpc'[u] \notin Starting
  BY <1>1, <1>5 DEF Handshake
<1>9. \A u \in Threads : u > cur => tpc'[u] = "none"
  BY <1>1, <1>2, <1>5, ThreadNumbers DEF Handshake
<1>10. CASE ThreadInit(t)
  <2>1. tpc'[cur] = "mutex" /\ tpc[cur] = "init" /\ p_io_thread' = t /\ UNCHANGED <<mtx, waiting>>
    BY <1>1, <1>2, <1>10 DEF ThreadInit, StartType
  <2>2. mpc = "waiting" => waiting
    BY <1>1, <2>1 DEF Handshake, Running
  <2>3. mpc = "wait" => mtx = "main"
    BY <1>1 DEF Handshake
  <2>4. Handshake'
    BY <1>2, <1>3, <1>8, <1>9, <2>1, <2>2, <2>3 DEF Handshake, Starting
  <2> QED BY <1>7, <2>4 DEF SInv
<1>11. CASE ThreadMutex(t)
  <2>1. /\ tpc[cur] \in {"mutex", "unlock"} /\ tpc'[cur] \in {"unlock", "signal"}
        /\ UNCHANGED <<waiting, p_io_thread>> /\ (tpc[cur] = "mutex" => mtx = "free")
    BY <1>1, <1>2, <1>11 DEF ThreadMutex, StartType
  <2>2. mpc = "waiting" /\ waiting /\ p_io_thread = cur
    BY <1>1, <1>2, <2>1 DEF Handshake, Running, StartType
  <2>3. Handshake'
    BY <1>2, <1>3, <1>8, <1>9, <2>1, <2>2 DEF Handshake, Starting
  <2> QED BY <1>7, <2>3 DEF SInv
<1>12. CASE ThreadSignal(t)
  <2>1. tpc[cur] = "signal" /\ tpc'[cur] = "loop" /\ waiting' = FALSE /\ UNCHANGED p_io_thread
    BY <1>1, <1>2, <1>12 DEF ThreadSignal, StartType
  <2>2. mpc = "waiting" /\ p_io_thread = cur
    BY <1>1, <1>2, <2>1 DEF Handshake
  <2>3. Handshake'
    BY <1>2, <1>3, <1>8, <1>9, <2>1, <2>2 DEF Handshake, Starting, Running
  <2> QED BY <1>7, <2>3 DEF SInv
<1> QED BY <1>10, <1>11, <1>12

\* Every step keeps the start whole.
LEMMA StartStep ==
  ASSUME SInv, [Next]_vars
  PROVE  SInv'
<1>1. CASE start
  BY <1>1, MainStarts, ThreadStarts, Zenon DEF start
<1>2. CASE Tick \/ \E c \in Conns : onAccept(c)
  <2>1. UNCHANGED startVars /\ UNCHANGED tpc
    BY <1>2, Zenon DEF Tick, onAccept
  <2> QED BY <2>1, RunningKept
<1>3. ASSUME NEW t \in Threads, io(t)
      PROVE  SInv'
  <2>1. UNCHANGED startVars
    BY <1>3, Zenon DEF io, tunnelcb, tunnelcb_timetask, tunnelcb_addsocktask, TunnelDone, check_timeout
  <2>2. \/ UNCHANGED tpc
        \/ tpc[t] \in {"loop", "tunnel"} /\ \E s \in {"loop", "tunnel"} : tpc' = [tpc EXCEPT ![t] = s]
    <3>1. CASE tunnelcb(t)
      BY <3>1 DEF tunnelcb
    <3>2. CASE tunnelcb_timetask(t) \/ tunnelcb_addsocktask(t)
      BY <3>2 DEF tunnelcb_timetask, tunnelcb_addsocktask, TaskFails
    <3>3. CASE TunnelDone(t)
      BY <3>3 DEF TunnelDone
    <3>4. CASE check_timeout(t)
      BY <3>4 DEF check_timeout
    <3> QED BY <1>3, <3>1, <3>2, <3>3, <3>4, Zenon DEF io
  <2> QED BY <2>1, <2>2, RunningKept, Zenon DEF Running
<1>4. ASSUME NEW t \in Threads, NEW c \in Conns, readcb(t, c) \/ writecb(t, c) \/ eventcb(t, c)
      PROVE  SInv'
  <2>1. UNCHANGED startVars /\ UNCHANGED tpc
    BY <1>4, Zenon DEF readcb, writecb, eventcb
  <2> QED BY <2>1, RunningKept
<1>5. CASE UNCHANGED vars
  <2>1. UNCHANGED startVars /\ UNCHANGED tpc
    BY <1>5, Zenon DEF vars
  <2> QED BY <2>1, RunningKept
<1> QED BY <1>1, <1>2, <1>3, <1>4, <1>5, Zenon DEF Next

-----------------------------------------------------------------------------
(* the turns of the threads *)

\* the threads before io_thread_idx have had one socket more
Turns ==
  /\ io_thread_idx \in Threads /\ given \in [Threads -> Nat]
  /\ \A t, u \in Threads :
       /\ (t < io_thread_idx <=> u < io_thread_idx) => given[t] = given[u]
       /\ t < io_thread_idx /\ io_thread_idx <= u => given[t] = given[u] + 1

\* onAccept takes the threads in turn.
LEMMA TurnsStep ==
  ASSUME Turns, [Next]_vars
  PROVE  Turns'
<1>1. CASE UNCHANGED <<io_thread_idx, given>>
  BY <1>1 DEF Turns
<1>2. ASSUME NEW c \in Conns, onAccept(c)
      PROVE  Turns'
  <2> DEFINE n == io_thread_idx
  <2>1. /\ given' = [given EXCEPT ![n] = @ + 1]
        /\ io_thread_idx' = IF n + 1 > N THEN 1 ELSE n + 1
    BY <1>2 DEF onAccept
  <2>2. n \in Threads /\ n \in Nat /\ n >= 1 /\ n <= N /\ N \in Nat
    BY ThreadNumbers DEF Turns
  <2>3. io_thread_idx' \in Threads
    BY <2>1, <2>2 DEF Threads
  <2>4. /\ given' \in [Threads -> Nat]
        /\ given'[n] = given[n] + 1 /\ \A t \in Threads : t # n => given'[t] = given[t]
    BY <2>1, <2>2 DEF Turns
  <2>5. ASSUME NEW t \in Threads, NEW u \in Threads
        PROVE  /\ (t < io_thread_idx' <=> u < io_thread_idx') => given'[t] = given'[u]
               /\ t < io_thread_idx' /\ io_thread_idx' <= u => given'[t] = given'[u] + 1
    <3>1. t \in Nat /\ u \in Nat /\ t >= 1 /\ u >= 1 /\ t <= N /\ u <= N /\ given[t] \in Nat /\ given[u] \in Nat
      BY ThreadNumbers DEF Turns
    <3>2. /\ t < n => given[t] = given[n] + 1
          /\ u < n => given[u] = given[n] + 1
          /\ t > n => given[t] = given[n]
          /\ u > n => given[u] = given[n]
      <4>1. n <= n /\ ~(n < n)
        BY <2>2
      <4>2. /\ t < n /\ n <= n => given[t] = given[n] + 1
            /\ u < n /\ n <= n => given[u] = given[n] + 1
        BY <2>2 DEF Turns
      <4>3. (t > n => ~(t < n)) /\ (u > n => ~(u < n))
        BY <2>2, <3>1
      <4>4. /\ (t < n <=> n < n) => given[t] = given[n]
        BY <2>2 DEF Turns
      <4>5. /\ (u < n <=> n < n) => given[u] = given[n]
        BY <2>2 DEF Turns
      <4> QED BY <4>1, <4>2, <4>3, <4>4, <4>5
    <3>3. given'[t] = IF t <= n THEN given[n] + 1 ELSE given[n]
      BY <2>2, <2>4, <3>1, <3>2
    <3>4. given'[u] = IF u <= n THEN given[n] + 1 ELSE given[n]
      BY <2>2, <2>4, <3>1, <3>2
    <3>5. given[n] \in Nat
      BY <2>2 DEF Turns
    <3>6. CASE n + 1 > N
      BY <2>1, <2>2, <3>1, <3>3, <3>4, <3>5, <3>6
    <3>7. CASE ~(n + 1 > N)
      BY <2>1, <2>2, <3>1, <3>3, <3>4, <3>5, <3>7
    <3> QED BY <3>6, <3>7
  <2> QED BY <2>3, <2>4, <2>5 DEF Turns
<1>3. ASSUME NEW t \in Threads, io(t) PROVE UNCHANGED <<io_thread_idx, given>>
  BY <1>3, Zenon DEF io, tunnelcb, tunnelcb_timetask, tunnelcb_addsocktask, TunnelDone, check_timeout,
     serverVars
<1>4. ASSUME NEW t \in Threads, NEW c \in Conns, readcb(t, c) \/ writecb(t, c) \/ eventcb(t, c)
      PROVE  UNCHANGED <<io_thread_idx, given>>
  BY <1>4, Zenon DEF readcb, writecb, eventcb
<1>5. CASE start
  BY <1>1, <1>5, Zenon
     DEF start, CreateThread, CondWait, ThreadCreated, ThreadInit, ThreadMutex, ThreadSignal, serverVars
<1>6. CASE Tick \/ UNCHANGED vars
  BY <1>1, <1>6, Zenon DEF Tick, vars
<1> QED BY <1>1, <1>2, <1>3, <1>4, <1>5, <1>6, Zenon DEF Next

-----------------------------------------------------------------------------
(* the sockets *)

Tasks == Conns \cup {TIME}

SocketType ==
  /\ where \in [Conns -> {"backlog", "tunnel", "peer", "closed", "lost"}]
  /\ peers \in [Threads -> SUBSET Conns]
  /\ tunnel \in [Threads -> Seq(Tasks)]

\* socket c is the i-th task of thread t's tunnel
At(c, t, i) == i \in 1 .. Len(tunnel[t]) /\ tunnel[t][i] = c

Owned(c) ==
  /\ where[c] = "peer" <=> \E t \in Threads : c \in peers[t]
  /\ \A t, u \in Threads : c \in peers[t] /\ c \in peers[u] => t = u

Queued(c) ==
  /\ where[c] = "tunnel" <=> \E t \in Threads : \E i \in Nat : At(c, t, i)
  /\ \A t, u \in Threads : \A i, j \in Nat : At(c, t, i) /\ At(c, u, j) => t = u /\ i = j

Sockets == SocketType /\ \A c \in Conns : Owned(c) /\ Queued(c)

\* A task at the end of a tunnel.
LEMMA Written ==
  ASSUME SocketType, NEW t \in Threads, NEW task \in Tasks, Write(t, task)
  PROVE  /\ tunnel' \in [Threads -> Seq(Tasks)]
         /\ Len(tunnel[t]) + 1 \in Nat
         /\ \A c, u, i : u \in Threads /\ i \in Nat =>
              (At(c, u, i)' <=> At(c, u, i) \/ (u = t /\ i = Len(tunnel[t]) + 1 /\ c = task))
<1> DEFINE s == tunnel[t]
<1>1. s \in Seq(Tasks) /\ tunnel' = [tunnel EXCEPT ![t] = Append(s, task)]
  BY DEF SocketType, Write
<1> HIDE DEF s
<1>2. /\ Append(s, task) \in Seq(Tasks) /\ Len(s) \in Nat /\ Len(Append(s, task)) = Len(s) + 1
      /\ Append(s, task)[Len(s) + 1] = task
      /\ \A i \in 1 .. Len(s) : Append(s, task)[i] = s[i]
  BY <1>1
<1>3. tunnel' \in [Threads -> Seq(Tasks)]
  BY <1>1, <1>2 DEF SocketType
<1>4. tunnel'[t] = Append(s, task) /\ \A u \in Threads : u # t => tunnel'[u] = tunnel[u]
  BY <1>1 DEF SocketType
<1>5. ASSUME NEW c, NEW u \in Threads, NEW i \in Nat
      PROVE  At(c, u, i)' <=> At(c, u, i) \/ (u = t /\ i = Len(s) + 1 /\ c = task)
  <2>1. CASE u # t
    BY <1>4, <2>1 DEF At
  <2>2. CASE u = t
    <3>1. At(c, u, i)' <=> i \in 1 .. Len(s) + 1 /\ Append(s, task)[i] = c
      BY <1>2, <1>4, <2>2, Zenon DEF At
    <3>2. At(c, u, i) <=> i \in 1 .. Len(s) /\ s[i] = c
      BY <2>2 DEF At, s
    <3>3. i \in 1 .. Len(s) + 1 <=> i \in 1 .. Len(s) \/ i = Len(s) + 1
      BY <1>2
    <3>4. Len(s) + 1 \notin 1 .. Len(s)
      BY <1>2
    <3> QED BY <1>2, <2>2, <3>1, <3>2, <3>3, <3>4
  <2> QED BY <2>1, <2>2
<1>6. Len(s) + 1 \in Nat
  BY <1>2
<1> QED BY <1>3, <1>5, <1>6, Zenon DEF s

\* The first task is taken out of a tunnel.
LEMMA Popped ==
  ASSUME SocketType, NEW t \in Threads, tunnel[t] # << >>, PopTask(t)
  PROVE  /\ tunnel' \in [Threads -> Seq(Tasks)] /\ At(Head(tunnel[t]), t, 1)
         /\ \A c, u, i : u \in Threads /\ i \in Nat =>
              (At(c, u, i)' <=> IF u = t THEN i >= 1 /\ At(c, t, i + 1) ELSE At(c, u, i))
<1> DEFINE s == tunnel[t]
<1>1. s \in Seq(Tasks) /\ s # << >> /\ tunnel' = [tunnel EXCEPT ![t] = Tail(s)]
  BY DEF SocketType, PopTask
<1> HIDE DEF s
<1>2. /\ Tail(s) \in Seq(Tasks) /\ Len(s) \in Nat /\ Len(s) >= 1 /\ Len(Tail(s)) = Len(s) - 1
      /\ \A i \in 1 .. Len(s) - 1 : Tail(s)[i] = s[i + 1]
  BY <1>1
<1>3. tunnel' \in [Threads -> Seq(Tasks)]
  BY <1>1, <1>2 DEF SocketType
<1>4. tunnel'[t] = Tail(s) /\ \A u \in Threads : u # t => tunnel'[u] = tunnel[u]
  BY <1>1 DEF SocketType
<1>5. ASSUME NEW c, NEW u \in Threads, NEW i \in Nat
      PROVE  At(c, u, i)' <=> IF u = t THEN i >= 1 /\ At(c, t, i + 1) ELSE At(c, u, i)
  <2>1. CASE u # t
    BY <1>4, <2>1 DEF At
  <2>2. CASE u = t
    <3>1. At(c, u, i)' <=> i \in 1 .. Len(s) - 1 /\ Tail(s)[i] = c
      BY <1>2, <1>4, <2>2, Zenon DEF At
    <3>2. At(c, t, i + 1) <=> i + 1 \in 1 .. Len(s) /\ s[i + 1] = c
      BY DEF At, s
    <3>3. i \in 1 .. Len(s) - 1 <=> i >= 1 /\ i + 1 \in 1 .. Len(s)
      BY <1>2
    <3> QED BY <1>2, <2>2, <3>1, <3>2, <3>3
  <2> QED BY <2>1, <2>2
<1>6. At(Head(s), t, 1)
  <2>1. Head(s) = s[1] /\ 1 \in 1 .. Len(s)
    BY <1>1, <1>2
  <2> QED BY <2>1 DEF At, s
<1> QED BY <1>3, <1>5, <1>6, Zenon DEF s

\* A step that moves no socket in a tunnel and no peer keeps the sockets.
LEMMA Unmoved ==
  ASSUME Sockets, UNCHANGED <<where, peers>>, tunnel' \in [Threads -> Seq(Tasks)],
         \A c \in Conns : Queued(c)'
  PROVE  Sockets'
  BY DEF Sockets, SocketType, Owned

\* A socket whose places in the tunnels stay is queued as before.
LEMMA StillQueued ==
  ASSUME NEW c \in Conns, Queued(c), where'[c] = "tunnel" <=> where[c] = "tunnel",
         \A u \in Threads, i \in Nat : At(c, u, i)' <=> At(c, u, i)
  PROVE  Queued(c)'
<1>1. (\E t \in Threads : \E i \in Nat : At(c, t, i)') <=> (\E t \in Threads : \E i \in Nat : At(c, t, i))
  OBVIOUS
<1>2. \A t, u \in Threads : \A i, j \in Nat : At(c, t, i)' /\ At(c, u, j)' => t = u /\ i = j
  BY DEF Queued
<1> QED BY <1>1, <1>2 DEF Queued

\* peerIOThreadSetTimeout puts no socket into a tunnel.
LEMMA TimeWritten ==
  ASSUME Sockets, NEW t \in Threads, Write(t, TIME), UNCHANGED <<where, peers>>
  PROVE  Sockets'
<1>1. TIME \in Tasks /\ SocketType
  BY DEF Tasks, Sockets
<1>2. ASSUME NEW c \in Conns
      PROVE  Queued(c)'
  <2>1. \A u \in Threads, i \in Nat : At(c, u, i)' <=> At(c, u, i)
    <3>1. c # TIME
      BY BaseServerAssumption
    <3> QED BY <1>1, <3>1, Written, Zenon
  <2>2. Queued(c)
    BY DEF Sockets
  <2> QED BY <2>1, <2>2, StillQueued
<1> QED BY <1>1, <1>2, Written, Unmoved, Zenon

\* onAccept puts a socket from the backlog into one tunnel.
LEMMA Accepted ==
  ASSUME Sockets, Turns, NEW c \in Conns, onAccept(c)
  PROVE  Sockets'
<1> DEFINE n == io_thread_idx
<1>1. /\ where[c] = "backlog" /\ peers' = peers
      /\ \/ where' = [where EXCEPT ![c] = "tunnel"] /\ Write(n, c)
         \/ where' = [where EXCEPT ![c] = "closed"] /\ tunnel' = tunnel
  BY Zenon DEF onAccept
<1>2. n \in Threads /\ c \in Tasks /\ SocketType
  BY DEF Turns, Tasks, Sockets
<1> HIDE DEF n
<1>3. \A t \in Threads : c \notin peers[t]
  BY <1>1 DEF Sockets, Owned
<1>4. \A t \in Threads, i \in Nat : ~At(c, t, i)
  BY <1>1, Zenon DEF Sockets, Queued
<1>5. /\ where'[c] \in {"tunnel", "closed"} /\ \A d \in Conns : d # c => where'[d] = where[d]
      /\ where' \in [Conns -> {"backlog", "tunnel", "peer", "closed", "lost"}]
  BY <1>1, <1>2, Zenon DEF SocketType
<1>6. ASSUME NEW d \in Conns
      PROVE  Owned(d)'
  BY <1>1, <1>3, <1>5 DEF Owned, Sockets
<1>7. CASE Write(n, c)
  <2>1. where'[c] = "tunnel"
    <3>1. ~(tunnel' = tunnel)
      <4>1. PICK m \in Threads : m = n
        BY <1>2
      <4>2. PICK k \in Nat : k = Len(tunnel[n]) + 1
        BY <1>2, <1>7, Written, Zenon
      <4>3. At(c, m, k)'
        <5>1. Write(m, c) /\ k = Len(tunnel[m]) + 1
          BY <1>7, <4>1, <4>2
        <5>2. \A u \in Threads, i \in Nat :
                At(c, u, i)' <=> At(c, u, i) \/ (u = m /\ i = Len(tunnel[m]) + 1 /\ c = c)
          BY <1>2, <5>1, Written, Zenon
        <5> QED BY <5>1, <5>2
      <4>4. ~At(c, m, k)
        BY <1>4
      <4> QED BY <4>3, <4>4 DEF At
    <3> QED BY <1>1, <1>2, <3>1 DEF SocketType
  <2>2. ASSUME NEW d \in Conns
        PROVE  Queued(d)'
    <3>1. \A u \in Threads, i \in Nat :
            At(d, u, i)' <=> At(d, u, i) \/ (u = n /\ i = Len(tunnel[n]) + 1 /\ d = c)
      BY <1>2, <1>7, Written, Zenon
    <3>2. CASE d = c
      <4>1. \A u \in Threads, i \in Nat : At(c, u, i)' <=> u = n /\ i = Len(tunnel[n]) + 1
        BY <1>4, <3>1, <3>2, Zenon
      <4>2. Len(tunnel[n]) + 1 \in Nat
        BY <1>2, <1>7, Written, Zenon
      <4> QED BY <1>2, <2>1, <3>2, <4>1, <4>2, Zenon DEF Queued
    <3>3. CASE d # c
      <4>1. \A u \in Threads, i \in Nat : At(d, u, i)' <=> At(d, u, i)
        BY <3>1, <3>3, Zenon
      <4>2. Queued(d) /\ where'[d] = where[d]
        BY <1>5, <3>3 DEF Sockets
      <4> QED BY <4>1, <4>2, StillQueued
    <3> QED BY <3>2, <3>3
  <2>3. tunnel' \in [Threads -> Seq(Tasks)]
    BY <1>2, <1>7, Written, Zenon
  <2>4. SocketType'
    BY <1>1, <1>2, <1>5, <2>3 DEF SocketType
  <2> QED BY <1>6, <2>2, <2>4, Zenon DEF Sockets
<1>8. CASE where' = [where EXCEPT ![c] = "closed"] /\ tunnel' = tunnel
  <2>1. where'[c] = "closed"
    BY <1>2, <1>8 DEF SocketType
  <2>2. ASSUME NEW d \in Conns
        PROVE  Queued(d)'
    <3>1. \A u, i : At(d, u, i)' <=> At(d, u, i)
      BY <1>8 DEF At
    <3>2. Queued(d) /\ (where'[d] = "tunnel" <=> where[d] = "tunnel")
      BY <1>1, <1>5, <2>1 DEF Sockets
    <3> QED BY <3>1, <3>2, StillQueued
  <2>3. SocketType'
    BY <1>1, <1>2, <1>5, <1>8 DEF SocketType
  <2> QED BY <1>6, <2>2, <2>3, Zenon DEF Sockets
<1> QED BY <1>1, <1>7, <1>8, Zenon

\* What is taken out of a tunnel is no longer in one, the rest stays.
LEMMA Taken ==
  ASSUME Sockets, NEW t \in Threads, tunnel[t] # << >>, PopTask(t), NEW c \in Conns
  PROVE  /\ c = Head(tunnel[t]) => /\ where[c] = "tunnel"
                                  /\ \A u \in Threads, i \in Nat : ~At(c, u, i)'
         /\ c # Head(tunnel[t]) /\ (where'[c] = "tunnel" <=> where[c] = "tunnel") => Queued(c)'
<1> DEFINE h == Head(tunnel[t])
<1>1. /\ At(h, t, 1)
      /\ \A u \in Threads, i \in Nat :
           At(c, u, i)' <=> IF u = t THEN i >= 1 /\ At(c, t, i + 1) ELSE At(c, u, i)
  BY Popped, Zenon DEF Sockets
<1>2. Queued(c) /\ 1 \in Nat
  BY DEF Sockets
<1> HIDE DEF h
<1>3. CASE c = h
  <2>1. where[c] = "tunnel"
    BY <1>1, <1>2, <1>3, Zenon DEF Queued
  <2>2. ASSUME NEW u \in Threads, NEW i \in Nat, At(c, u, i)'
        PROVE  FALSE
    <3>1. CASE u # t
      BY <1>1, <1>2, <1>3, <2>2, <3>1, Zenon DEF Queued
    <3>2. CASE u = t
      <4>1. i >= 1 /\ At(c, t, i + 1) /\ i + 1 \in Nat
        BY <1>1, <2>2, <3>2
      <4>2. i + 1 = 1
        BY <1>1, <1>2, <1>3, <4>1, Zenon DEF Queued
      <4> QED BY <4>1, <4>2
    <3> QED BY <3>1, <3>2
  <2> QED BY <1>3, <2>1, <2>2, Zenon DEF h
<1>4. CASE c # h /\ (where'[c] = "tunnel" <=> where[c] = "tunnel")
  <2>1. ASSUME NEW u \in Threads, NEW i \in Nat, NEW v \in Threads, NEW j \in Nat,
               At(c, u, i)', At(c, v, j)'
        PROVE  u = v /\ i = j
    <3> DEFINE a == IF u = t THEN i + 1 ELSE i
               b == IF v = t THEN j + 1 ELSE j
    <3>1. At(c, u, a) /\ At(c, v, b)
      BY <1>1, <2>1
    <3>2. a \in Nat /\ b \in Nat
      OBVIOUS
    <3>3. u = v /\ a = b
      BY <1>2, <3>1, <3>2 DEF Queued
    <3> QED BY <3>3
  <2>2. ASSUME NEW u \in Threads, NEW i \in Nat, At(c, u, i)
        PROVE  \E v \in Threads : \E j \in Nat : At(c, v, j)'
    <3>1. CASE u # t
      BY <1>1, <2>2, <3>1
    <3>2. CASE u = t
      <4>1. i # 1 /\ i >= 1
        BY <1>1, <1>4, <2>2, <3>2 DEF At
      <4>2. i - 1 \in Nat /\ (i - 1) + 1 = i /\ i - 1 >= 1
        BY <4>1
      <4>3. At(c, t, i - 1)'
        BY <1>1, <2>2, <3>2, <4>2
      <4> QED BY <4>2, <4>3
    <3> QED BY <3>1, <3>2
  <2>3. ASSUME NEW u \in Threads, NEW i \in Nat, At(c, u, i)'
        PROVE  \E v \in Threads : \E j \in Nat : At(c, v, j)
    <3>1. CASE u # t
      BY <1>1, <2>3, <3>1, Zenon
    <3>2. CASE u = t
      <4>1. At(c, t, i + 1) /\ i + 1 \in Nat
        BY <1>1, <2>3, <3>2
      <4> QED BY <4>1, Zenon
    <3> QED BY <3>1, <3>2
  <2>4. where'[c] = "tunnel" <=> \E u \in Threads : \E i \in Nat : At(c, u, i)'
    BY <1>2, <1>4, <2>2, <2>3 DEF Queued
  <2> QED BY <1>4, <2>1, <2>4 DEF Queued, h
<1> QED BY <1>3, <1>4, Zenon DEF h

\* tunnelcb_timetask takes a task that is no socket.
LEMMA TimeTaken ==
  ASSUME Sockets, NEW t \in Threads, tunnelcb_timetask(t)
  PROVE  Sockets'
<1>1. /\ tunnel[t] # << >> /\ Head(tunnel[t]) = TIME /\ PopTask(t)
      /\ UNCHANGED <<where, peers>>
  BY Zenon DEF tunnelcb_timetask
<1>2. ASSUME NEW c \in Conns
      PROVE  Queued(c)'
  <2>1. c # Head(tunnel[t])
    BY <1>1, BaseServerAssumption
  <2> QED BY <1>1, <2>1, Taken
<1>3. tunnel' \in [Threads -> Seq(Tasks)]
  BY <1>1, Popped, Zenon DEF Sockets
<1> QED BY <1>1, <1>2, <1>3, Unmoved, Zenon

\* tunnelcb_addsocktask takes a socket out of its tunnel and makes it a peer
\* of the thread, or loses it.
LEMMA SocketTaken ==
  ASSUME Sockets, NEW t \in Threads, tunnelcb_addsocktask(t)
  PROVE  Sockets'
<1>1. /\ tunnel[t] # << >> /\ PopTask(t) /\ Head(tunnel[t]) # TIME
      /\ \/ /\ where' = [where EXCEPT ![Head(tunnel[t])] = "peer"]
            /\ peers' = [peers EXCEPT ![t] = @ \cup {Head(tunnel[t])}]
         \/ where' = [where EXCEPT ![Head(tunnel[t])] = "lost"] /\ peers' = peers
  BY Zenon DEF tunnelcb_addsocktask
<1>2. SocketType /\ tunnel' \in [Threads -> Seq(Tasks)]
  BY <1>1, Popped, Zenon DEF Sockets
<1>3. Head(tunnel[t]) \in Conns
  <2>1. tunnel[t] \in Seq(Tasks)
    BY <1>2 DEF SocketType
  <2>2. Head(tunnel[t]) \in Tasks
    BY <1>1, <2>1
  <2> QED BY <1>1, <2>2 DEF Tasks
<1>4. PICK h \in Conns : h = Head(tunnel[t])
  BY <1>3
<1>5. where[h] = "tunnel" /\ \A u \in Threads, i \in Nat : ~At(h, u, i)'
  BY <1>1, <1>4, Taken
<1>6. /\ where'[h] \in {"peer", "lost"} /\ \A d \in Conns : d # h => where'[d] = where[d]
      /\ where' \in [Conns -> {"backlog", "tunnel", "peer", "closed", "lost"}]
  BY <1>1, <1>2, <1>4, Zenon DEF SocketType
<1>7. ASSUME NEW d \in Conns
      PROVE  Queued(d)'
  <2>1. CASE d = h
    <3>1. where'[d] # "tunnel"
      BY <1>6, <2>1
    <3> QED BY <1>5, <2>1, <3>1, Zenon DEF Queued
  <2>2. CASE d # h
    BY <1>1, <1>4, <1>6, <2>2, Taken, Zenon
  <2> QED BY <2>1, <2>2
<1>8. \A u \in Threads : h \notin peers[u]
  BY <1>5 DEF Sockets, Owned
<1>9. CASE where' = [where EXCEPT ![h] = "peer"] /\ peers' = [peers EXCEPT ![t] = @ \cup {h}]
  <2>1. /\ peers' \in [Threads -> SUBSET Conns] /\ where'[h] = "peer"
        /\ \A u \in Threads, d \in Conns : d \in peers'[u] <=> d \in peers[u] \/ (u = t /\ d = h)
    BY <1>2, <1>9 DEF SocketType
  <2>2. ASSUME NEW d \in Conns
        PROVE  Owned(d)'
    <3>1. CASE d = h
      <4>1. \A u \in Threads : h \in peers'[u] <=> u = t
        BY <1>8, <2>1
      <4> QED BY <2>1, <3>1, <4>1 DEF Owned
    <3>2. CASE d # h
      <4>1. \A u \in Threads : d \in peers'[u] <=> d \in peers[u]
        BY <2>1, <3>2
      <4>2. Owned(d) /\ where'[d] = where[d]
        BY <1>6, <3>2 DEF Sockets
      <4> QED BY <4>1, <4>2 DEF Owned
    <3> QED BY <3>1, <3>2
  <2>3. SocketType'
    BY <1>2, <1>6, <2>1 DEF SocketType
  <2> QED BY <1>7, <2>2, <2>3 DEF Sockets
<1>10. CASE where' = [where EXCEPT ![h] = "lost"] /\ peers' = peers
  <2>1. where'[h] = "lost"
    BY <1>2, <1>10 DEF SocketType
  <2>2. ASSUME NEW d \in Conns
        PROVE  Owned(d)'
    <3>1. Owned(d) /\ (where'[d] = "peer" <=> where[d] = "peer")
      BY <1>5, <1>6, <2>1 DEF Sockets
    <3> QED BY <1>10, <3>1 DEF Owned
  <2>3. SocketType'
    BY <1>2, <1>6, <1>10 DEF SocketType
  <2> QED BY <1>7, <2>2, <2>3 DEF Sockets
<1> QED BY <1>1, <1>4, <1>9, <1>10, Zenon

\* peerFree and onClosePeer take peers from the thread that owns them.
LEMMA Dropped ==
  ASSUME Sockets, NEW t \in Threads, NEW cs \in SUBSET peers[t], Drop(t, cs), tunnel' = tunnel
  PROVE  Sockets'
<1>1. /\ peers' = [peers EXCEPT ![t] = @ \ cs]
      /\ where' = [c \in Conns |-> IF c \in cs THEN "closed" ELSE where[c]]
  BY DEF Drop
<1>2. SocketType'
  BY <1>1 DEF Sockets, SocketType
<1>3. ASSUME NEW c \in Conns
      PROVE  Owned(c)' /\ Queued(c)'
  <2>1. Owned(c) /\ Queued(c) /\ SocketType
    BY DEF Sockets
  <2>2. \A u, i : At(c, u, i)' <=> At(c, u, i)
    BY DEF At
  <2>3. c \in cs => c \in peers[t]
    OBVIOUS
  <2>4. where'[c] = IF c \in cs THEN "closed" ELSE where[c]
    BY <1>1
  <2>5. \A u \in Threads : c \in peers'[u] <=> c \in peers[u] /\ ~(u = t /\ c \in cs)
    BY <1>1, <2>1 DEF SocketType
  <2>6. CASE c \in cs
    <3>1. where[c] = "peer" /\ where'[c] = "closed"
      BY <2>1, <2>3, <2>4, <2>6 DEF Owned
    <3>2. \A u \in Threads : c \notin peers'[u]
      BY <2>1, <2>3, <2>5, <2>6 DEF Owned
    <3>3. Owned(c)'
      BY <3>1, <3>2 DEF Owned
    <3> QED BY <2>1, <2>2, <3>1, <3>3, StillQueued, Zenon
  <2>7. CASE c \notin cs
    <3>1. where'[c] = where[c] /\ \A u \in Threads : c \in peers'[u] <=> c \in peers[u]
      BY <2>4, <2>5, <2>7
    <3>2. Owned(c)'
      BY <2>1, <3>1 DEF Owned
    <3> QED BY <2>1, <2>2, <3>1, <3>2, StillQueued, Zenon
  <2> QED BY <2>6, <2>7
<1> QED BY <1>2, <1>3 DEF Sockets

\* A socket stays in one place.
LEMMA SocketsStep ==
  ASSUME SInv, Turns, Sockets, [Next]_vars
  PROVE  Sockets'
<1>1. CASE UNCHANGED <<where, peers, tunnel>>
  <2>1. \A c, t, i : At(c, t, i)' <=> At(c, t, i)
    BY <1>1 DEF At
  <2>2. ASSUME NEW c \in Conns
        PROVE  Queued(c)'
    <3>1. Queued(c) /\ where' = where
      BY <1>1 DEF Sockets
    <3> QED BY <2>1, <3>1, StillQueued
  <2>3. tunnel' \in [Threads -> Seq(Tasks)]
    BY <1>1 DEF Sockets, SocketType
  <2> QED BY <1>1, <2>2, <2>3, Unmoved
<1>2. CASE ThreadCreated
  <2>1. cur \in Threads
    BY DEF SInv, StartType
  <2>2. /\ UNCHANGED <<where, peers>>
        /\ Write(cur, TIME) \/ tunnel' = tunnel
    BY <1>2, Zenon DEF ThreadCreated
  <2> QED BY <1>1, <2>1, <2>2, TimeWritten, Zenon
<1>3. CASE start /\ ~ThreadCreated
  <2>1. UNCHANGED <<where, peers, tunnel>>
    BY <1>3, Zenon DEF start, CreateThread, CondWait, ThreadInit, ThreadMutex, ThreadSignal, serverVars
  <2> QED BY <1>1, <2>1
<1>4. CASE Tick
  BY <1>1, <1>4, Zenon DEF Tick
<1>5. ASSUME NEW c \in Conns, onAccept(c)
      PROVE  Sockets'
  BY <1>5, Accepted
<1>6. ASSUME NEW t \in Threads, io(t)
      PROVE  Sockets'
  <2>1. CASE tunnelcb(t)
    BY <1>1, <2>1, Zenon DEF tunnelcb
  <2>2. CASE tunnelcb_timetask(t)
    BY <2>2, TimeTaken
  <2>3. CASE tunnelcb_addsocktask(t)
    BY <2>3, SocketTaken
  <2>4. CASE TunnelDone(t)
    BY <1>1, <2>4, Zenon DEF TunnelDone, serverVars
  <2>5. CASE check_timeout(t)
    <3> DEFINE cs == {c \in peers[t] : Idle(c)}
    <3>1. Drop(t, cs) /\ tunnel' = tunnel
      BY <2>5, Zenon DEF check_timeout
    <3>2. cs \in SUBSET peers[t]
      OBVIOUS
    <3> HIDE DEF cs
    <3>3. PICK ds \in SUBSET peers[t] : ds = cs
      BY <3>2
    <3> QED BY <3>1, <3>3, Dropped, Zenon
  <2> QED BY <1>6, <2>1, <2>2, <2>3, <2>4, <2>5, Zenon DEF io
<1>7. ASSUME NEW t \in Threads, NEW c \in Conns, readcb(t, c) \/ writecb(t, c) \/ eventcb(t, c)
      PROVE  Sockets'
  <2>1. \/ c \in peers[t] /\ Drop(t, {c}) /\ tunnel' = tunnel
        \/ UNCHANGED <<where, peers, tunnel>>
    BY <1>7, Zenon DEF readcb, writecb, eventcb
  <2>2. c \in peers[t] => {c} \in SUBSET peers[t]
    OBVIOUS
  <2> QED BY <1>1, <2>1, <2>2, Dropped, Zenon
<1>8. CASE UNCHANGED vars
  BY <1>1, <1>8, Zenon DEF vars
<1> QED BY <1>2, <1>3, <1>4, <1>5, <1>6, <1>7, <1>8, Zenon DEF Next

-----------------------------------------------------------------------------

\* Nothing is handed out at first.
LEMMA ServerInit ==
  ASSUME Init
  PROVE  SInv /\ Turns /\ Sockets
<1>1. Turns
  BY ThreadNumbers DEF Init, Turns
<1>2. SocketType
  <2>1. << >> \in Seq(Tasks)
    OBVIOUS
  <2> QED BY <2>1 DEF Init, SocketType
<1>3. ASSUME NEW c \in Conns
      PROVE  Owned(c) /\ Queued(c)
  <2>1. where[c] = "backlog" /\ \A t \in Threads : peers[t] = {} /\ tunnel[t] = << >>
    BY DEF Init
  <2>2. \A t \in Threads : \A i \in Nat : ~At(c, t, i)
    BY <2>1 DEF At
  <2>3. Owned(c)
    BY <2>1 DEF Owned
  <2> QED BY <2>1, <2>2, <2>3 DEF Queued
<1> QED BY <1>1, <1>2, <1>3, StartInit DEF Sockets

\* The invariants say that the server is whole.
LEMMA InvariantsImply ==
  ASSUME SInv, Turns, Sockets
  PROVE  ServerWhole
<1>1. StartedWhole
  <2>1. DOMAIN io_threads = 1 .. Len(io_threads)
    BY DEF SInv, StartType
  <2> QED BY <2>1 DEF SInv, Handshake, Created, StartedWhole, Starting
<1>2. Balanced
  <2>1. ASSUME NEW t \in Threads, NEW u \in Threads
        PROVE  given[t] - given[u] \in -1 .. 1
    <3>1. given[t] \in Nat /\ given[u] \in Nat /\ t \in Nat /\ u \in Nat /\ io_thread_idx \in Nat
      BY ThreadNumbers DEF Turns
    <3>2. given[t] = given[u] \/ given[t] = given[u] + 1 \/ given[u] = given[t] + 1
      BY <3>1 DEF Turns
    <3> QED BY <3>1, <3>2
  <2> QED BY <2>1 DEF Balanced
<1>3. ASSUME NEW c \in Conns, NEW S \in SUBSET Threads, \A t, u \in S : t = u
      PROVE  Cardinality(S) = IF S = {} THEN 0 ELSE 1
  <2>1. CASE S = {}
    BY <2>1, FS_EmptySet
  <2>2. CASE S # {}
    <3>1. PICK t \in S : TRUE
      BY <2>2
    <3>2. S = {t}
      BY <1>3, <3>1
    <3> QED BY <2>2, <3>2, FS_Singleton
  <2> QED BY <2>1, <2>2
<1>4. OnePlace
  <2>1. ASSUME NEW c \in Conns
        PROVE  /\ Cardinality({t \in Threads : c \in peers[t]}) = (IF where[c] = "peer" THEN 1 ELSE 0)
               /\ Cardinality({t \in Threads : Waits(c, t)}) = (IF where[c] = "tunnel" THEN 1 ELSE 0)
    <3> DEFINE H == {t \in Threads : c \in peers[t]}
               Q == {t \in Threads : Waits(c, t)}
    <3>1. Owned(c) /\ Queued(c) /\ SocketType
      BY DEF Sockets
    <3>2. (H = {} <=> where[c] # "peer") /\ \A t, u \in H : t = u
      BY <3>1 DEF Owned
    <3>3. ASSUME NEW t \in Threads
          PROVE  Waits(c, t) <=> \E i \in Nat : At(c, t, i)
      <4>1. tunnel[t] \in Seq(Tasks)
        BY <3>1 DEF SocketType
      <4>2. DOMAIN tunnel[t] = 1 .. Len(tunnel[t]) /\ Len(tunnel[t]) \in Nat
        BY <4>1
      <4>3. Waits(c, t) <=> \E i \in DOMAIN tunnel[t] : tunnel[t][i] = c
        BY DEF Waits
      <4>4. \A i \in DOMAIN tunnel[t] : i \in Nat
        BY <4>2
      <4> QED BY <4>2, <4>3, <4>4 DEF At
    <3>4. (Q = {} <=> where[c] # "tunnel") /\ \A t, u \in Q : t = u
      BY <3>1, <3>3 DEF Queued
    <3>5. H \in SUBSET Threads /\ Q \in SUBSET Threads
      OBVIOUS
    <3> HIDE DEF H, Q
    <3>6. Cardinality(H) = IF where[c] = "peer" THEN 1 ELSE 0
      BY <1>3, <3>2, <3>5
    <3>7. Cardinality(Q) = IF where[c] = "tunnel" THEN 1 ELSE 0
      BY <1>3, <3>4, <3>5
    <3> QED BY <3>6, <3>7, Zenon DEF H, Q
  <2> QED BY <2>1, Zenon DEF OnePlace
<1> QED BY <1>1, <1>2, <1>4 DEF ServerWhole

\* For any number of IO threads and connections: createPeerIOThread returns
\* only threads that have published themselves, every socket is waiting in
\* one tunnel or owned by one thread, and onAccept gives no thread more than
\* one socket more than another.
THEOREM ServerIsWhole == Spec => []ServerWhole
<1>1. Init => SInv /\ Turns /\ Sockets
  BY ServerInit
<1>2. SInv /\ Turns /\ Sockets /\ [Next]_vars => (SInv /\ Turns /\ Sockets)'
  BY StartStep, TurnsStep, SocketsStep
<1>3. SInv /\ Turns /\ Sockets => ServerWhole
  BY InvariantsImply
<1> QED BY <1>1, <1>2, <1>3, PTL DEF Spec
=============================================================================
