# Verification of Hakuna_Matata

Hakuna_Matata is a collection of independent programs: trials under `play/` and
uses of libraries under `use/`, in C, C++, Go, Java and Python. There is no one
system to specify. This project models the programs that have state (threads,
event loops, callbacks, codecs, sessions, pools, transactions, screens) as
state machines of their own, and the many small programs around a library by
what they acquire, use and release on each of their paths. TLC checks them on
small instances; TLAPS proves the invariants of six modules for every value of
their constants. Paths below are relative to `src/`.

## 1. Inventory

| Part of the repository | Where | State here |
|---|---|---|
| event loops on Linux: epoll, select, eventfd, pipe | `play/c/event_loop/example_linux` | modelled, programs proved |
| block pools | `play/cpp/try` (`memory_pool.c`, `list_memory_pool*.h`) | modelled, `memory_pool` proved |
| libevent peer, server, IO threads, object codec, example programs | `use/c/use-libevent_2.1.8/src` | modelled, server proved |
| custom TCP protocol on mugglecpp | `use/cpp/use_mugglecpp/tcp_custom_protocol` | modelled with one worker, references and sole use of a session proved |
| tcp_n_data: ways of sending n buffers | `play/c/tcp_n_data/src` | modelled |
| TLS echo servers and clients | `use/c/use_openssl`, `use/c/use_wolfssl` | modelled |
| codecs in Go, netty, protobuf | `use/go/use_tcp`, `use/java/use-netty`, `use/cross/protobuf` | codecs modelled |
| pfpa: TCP sessions of a capture | `play/c/pfpa/pfpa` | modelled |
| services over a database and a cache | `play/app/distributed_calc`, `use/java`, `play/py` | writing requests modelled |
| menus and panels | `use/c/use_ncurses` | modelled |
| number theory | `play/py/number_theory` | modelled, the solutions proved |
| programs around a library: mysql, mariadb, sqlite, odbc, redis, jdbc, openssl, wolfssl, mbedtls, ncurses, libevent, libxml2, libyaml, zlib, miniz, pcap, getopt, ANSI codes, shared memory, huge pages, boot records | most of `use/c`, parts of `play/c` | modelled as resource texts |
| single calls into frameworks, build and linker examples, measurements, displays | rest of `use/` and `play/` | not modelled (section 7) |

`PROJECT.json` lists every part with the reason when it is left out, the source
lines of every definition, and every hazard at the line where it bites.

## 2. Modules and the code they model

### EpollQueue: `use_epoll_eventfd`, `use_select_eventfd`

Producer threads push messages into a queue under one mutex and write an
eventfd; an edge-triggered loop reads the eventfd, then locks the queue and
takes messages until it is empty or `Limit` have been counted; main then stores
`completed`, joins the producers, exhausts the queue without the mutex and
reports the totals. One action is one call another thread can observe. `pc[p]`
and `lpc` are the places in `producer_routine` and in
`evloop_run`/`on_wakeup`/`main`. `Epoll = FALSE` replaces the edge-triggered
wait by the level-triggered one of the select loop, the only difference between
the two programs. `EnqueueFail` follows the error path that continues with the
mutex locked.

### EventfdCount and EventPipe: `use_eventfd`, `event_pipe`, `use_pipe`

`EventfdCount` is the program that counts notifications through an eventfd.
`EventPipe` is the same program over a non-blocking pipe: a notification is one
8-byte unit, `event_pipe_readall` reads in chunks, and a mutex surrounds both
sides. The readme of the example says that the pipe imitates an eventfd;
`ImplementsEventfd` says so formally, with the refinement mapping at the end of
the module. A clearup takes effect with its last read: until then the units
already read still count as the eventfd's value.

### EvloopSelect and EvloopEpoll: the loops themselves

The two loops with contexts, timer, wakeup and exit flag. The loop runs on one
thread, so the points where anything else can happen are the user's callbacks
(`pc` names the running one) and the kernel: data, exceptional conditions and
hang-ups may arise at any moment, the clock moves while the wait blocks.
`EvloopSelect` keeps `allset`, `nfds`, the sets `select` returned and the list
that is walked while callbacks append to it. `EvloopEpoll` keeps the ready list
of the kernel, edge by edge, and the batch of events being handled. Contexts
are added before the loop runs and in the wakeup, read and error callbacks. The
conversion of the elapsed milliseconds to `int` is modelled (`interval_ms`);
`wrapped` records that an interval did not fit, `recycled` the contexts that got
a descriptor number closed earlier in the same walk.

### Pool, MemoryPool, ListMemoryPool

`Pool` is what a block pool promises: a block handed out was not in use, a
freed one was, and the pool grows only when all blocks are in use or when
asked. It counts the allocations not yet freed, without which handing out a
block in use would change nothing it sees. `MemoryPool` is the circular buffer
of pointers of `memory_pool.c`, with the rearrangement of
`MemoryPoolEnsureSpace`; `ListMemoryPool` is `list_memory_pool.h` with its
doubly linked list of blocks in use. Pointers are block numbers. Both are shown
to implement `Pool`.

### Peer: `peer.c`

One connection with automatic reconnection, heartbeat and deferred close.
Everything runs on the thread of one event base; `pc` names the running
callback, during which the user may close the peer or change its settings.
Making a timer and connecting may fail, and `failed` records it.

### BaseServer: `base_server.cpp`, `peer_io_thread.cpp`

Main creates the IO threads one after the other with the handshake on `arg`
(mutex, condition, pointer), then accepts connections and writes them to the
tunnels in turn. Each IO thread takes tasks from its tunnel until it is empty
or one fails, runs the callbacks of its peers and drops idle ones.

### PfpaTcp: `pfpa_tcp_packet_handle`

The handler is driven by what a capture of one address pair can hold: the
packets of consecutive TCP connections. The ends' packets may cross, a FIN may
carry data or be sent twice, and the lookup of `remote_key`, whose padding
bytes are never set, may miss. `odd` records what was unusual about the
connection so far, `off` the ends whose expected sequence number may be wrong
since their last packet without SYN or FIN.

### Framing and MessageStream: eight codecs

Length-prefixed messages cut out of a byte stream: the read callbacks of
`object_client` and `object_server`, `CodecBytes` of the custom protocol,
`BytesCodec` in Go, the netty and the local protobuf decoders, and
`MessageDecode` of use-netty. A stream is three offsets (consumed, in the
decoder's buffer, written), measured in cells; a length field is two cells, so
that it too can arrive in two pieces. The decoders keep the code's way of
reading: `CodecBytes` fills a bounded buffer in units and parses afterwards, the
Go decoder peeks at a header and loops over its payload, the others run when
bytes have arrived. The handler of `CodecBytes` is called for an edge: bytes it
leaves in the socket because its buffer is full wait until more come (`Stalled`).
The netty decoder throws for a name longer than it allows and stands inside the
message then. The stream may end or break anywhere; `object_client` then
reconnects with what was in its buffer. `MessageStream` is what all promise:
messages are taken in the order sent, each once.

### TcpNData: `tcp_n_data`

A sender thread writes N buffers by one of the five methods while the client's
loop counts what the server echoes. `block_writev` is modelled with its offset
and the trimming of a piece that was sent in part; sockets take what they have
room for. `ref` counts the references of the context the thread keeps using
after the loop may have closed it.

### SslEcho: TLS echo

Server and reconnecting, periodically sending client of `ssl01_echo` and of the
wolfssl examples. A connection carries records; `on_message` runs once for
whatever has arrived since the last call, so the handlers must read until
nothing is left, and on after the handshake. Sessions may fail to be created
and connections break at any step. `loop` says whether a side's event loop runs,
is caught in a read loop that never leaves (`spins`), or has met the assertion
of wolfssl's `on_message` (`aborted`).

### WorkerServer: the mugglecpp servers and client

Listening loop, worker loop and the client's loop with its connecting threads.
A login retains the context and detaches it from the listening loop;
`TcpListenHandle::OnClose` hands it to the worker. `ref`, `ctxs` and `ctx_set_`
are the references, the loops' contexts and the handles' sets. `OnMessage` reads
what has arrived and hands it out message by message (`decode`), or ends at one
it must refuse (`refuse`); `busy` is the session a loop is working with
meanwhile, while the other loop goes on. `Quiet` and `Breaks` may happen before,
during and after the handover. The plain server does everything in its listening
loop.

### DbServices: eight services over a database

Requests of several threads, one statement a step, in transactions that the
frameworks open and close as the annotations and wrappers say. A statement, a
commit or a cache operation may fail; a commit that fails may or may not have
happened, and a put that raises may or may not have reached Redis. Exceptions
go where the code catches them. The level that `addUser` of use-mybatis-spring
inserts has the id its caller gave it, and a trade record is cached under its own
id. The database is external: a transaction sees its own writes, and a statement
waits for a row or unique name another transaction has written.

### Screens: the interactive ncurses programs

Three menus and three decks of panels, one key or click a step. The state is
what the program records (`sel`, `top`, `hide`, `data`) beside what is on the
screen (`deck`, `geo`); ncurses refuses moves that leave the screen and windows
with a negative size.

### Numbers: `number_theory/utils.py`

One round of a loop a step. `eqs` holds the coefficients of the symbolic
equations; which of them `Poly` yields at the end is modelled by what sympy
does with an expression of one symbol.

### ProgramText, Examples and the modules of program texts

Most of the repository's programs are a main around a library. `ProgramText`
is a vocabulary for them: a statement says what a call needs, what it acquires
or releases, what the code does when it fails, and where control goes. The
modules `MysqlPrograms`, `SslPrograms`, `NcursesPrograms`, `LibeventPrograms`,
`DatabasePrograms`, `LibraryPrograms` and `SystemPrograms` write the programs
down function by function; `Examples` runs one of them with every call failing
or not, every branch on data taken or not, and its threads interleaved. A
program names what it leaves behind when it ends normally (`left`) or on a
failure (`lost`). A call that is given something nobody has looked at, which may
be missing, is a statement of its own (`Blind`): the process may end in it
(`crashed`) or the callee lets it pass. Everything else must be live when it is
used. Those lists and statements are read off the code; the properties say that
there is nothing beyond them, and section 6 names the ones worth a reader's
attention.

### MCLoops, MCPools, MCLibevent, MCStreams, MCPrograms

Each brings related modules into one run: a behaviour is about one of them
while the others rest in an initial state. Their properties are conjunctions of
the properties of the modules.

## 3. Runs

| Run | Question | Distinct states |
|---|---|---|
| `epoll_queue` | Is any wakeup or message lost, does the shutdown race with anything, do the totals agree, does the program end? | 73 173 |
| `event_pipe` | Does the pipe implement the eventfd, also when it is full, and starve nobody? | 9 228 |
| `loops` | Is an edge ever lost between ready list and batch, a released context called back, an error missed or invented, a context not watched, the select timer late; is data read? | 512 436 |
| `evloop_epoll_timer` | Is the timer of the epoll loop kept? It is not (section 6). | violation |
| `pools` | Does any order of allocation, free and growth lose a block, break the assertion, the working list or the contract of `Pool`? | 164 942 |
| `memory_pool_empty` | Does the assertion hold when an unused pool is grown? It does not (section 6). | violation |
| `libevent` | Are IO threads complete when used, is a socket in one place and served, are only idle peers dropped, can a timer be forgotten, a freed peer be called, a reconnection be lost? | 76 027 |
| `streams` | Do the codecs stay on message boundaries and take every message however the stream is cut; does every sending method keep the bytes in order and the context alive; is everything echoed over TLS? | 145 147 |
| `worker_server` | Do references match their holders through the handover, do two threads ever work with one session, does a login reach the worker, is a silent session always released? | 134 228 |
| `programs` | Does any program text use or release what it does not hold, or leave more than it names; do tables and caches agree under failures; do menus, panels, sessions and number functions do what they record or are named for? | 443 142 |
| `trade_cache` | Do database and cache hold as many records once the requests have ended? They do not (section 6). | violation |
| `linear_combination` | Does `euclidean_linear_combination` always return a solution? It does not (section 6). | violation |

Each property has a mutant, an operator with a plausible bug next to the
definition it replaces, under which TLC finds the property violated.

### Bounds

* Two producers with three or four messages and `Limit` 3: the loop is woken
  several times, both producers can be inside every step at once, messages
  remain for the exhaust loop, and the eventfd (`EventfdMax` 2) and the pipe
  (`PipeCap` 3, read in chunks of 2) become full.
* Two contexts in the loops: one is visited while the other is added, removed
  or becomes ready; descriptor numbers 1 and 4 lie on both sides of the
  eventfd's 3, so `nfds` must go up and down. In epoll two events fit one batch
  while three objects can be ready. In the select loop the clock starts at the
  largest value of an `int` (`IntMod` 8: 3) and passes two timer intervals: an
  idle loop meets the interval that does not fit, a busy one does not.
* The pools grow from 2 blocks to 4 or 5: both wrap around several times before
  and after growth, and growth happens in each of the three cases.
* Two IO threads and three sockets: one thread gets two. The idle part has one
  thread, two peers and time for three checks.
* Two messages of up to two cells behind a length field of two: a message may
  arrive in four pieces, two may arrive at once, a body may be empty and one
  may exceed `Limit`; `BufCap` 6 and `RecvUnit` 2 make the buffer of
  `CodecBytes` full with bytes left in the socket.
* Three buffers of two bytes, a socket buffer of three and two pieces a
  `writev`: a write ends inside a piece, at its end and across several.
* Two TLS connections with two messages each and one session that cannot be
  created; two connections with three messages (one on the second) to the
  mugglecpp servers: the handover of one meets the end of the other.
* Two request threads, two names, two ids and one failure: requests meet on the
  same row and on different rows, and the failure may hit each statement of
  either. Threads and names are interchangeable (`DbSymmetry`). Three users in
  batches of two make a whole and a short batch.
* Three items, three panels, a screen of 9 by 7 and six keys: enough to move or
  size a panel out of the screen and come back.
* Two connections per capture, sequence numbers modulo 3: the numbers wrap
  within a connection, and what the first leaves behind meets the second.
* Arguments from -6 to 6 for the number functions, roots up to 12.
* The program texts have no bound: a loop may be left after any round, and the
  state is what the program holds.

`CHECK_DEADLOCK FALSE` stands where the program really ends or rests: main has
returned, the loop was told to exit, the peer is freed, the capture is over, a
client or request thread has reached its bound.

### Fairness

* `EpollQueue`: weak fairness of each producer and of the main thread, that is,
  threads are scheduled. Signals (`WaitFail`) and failing allocations are not
  required to happen.
* `EventPipe`: in addition strong fairness of a producer's lock. The consumer
  sleeps 500 ms between clearups, so a producer that keeps trying gets the mutex.
* Event loops: weak fairness of the loop's own steps only; nothing is required
  of peers, clock and other threads.
* `Peer`: callbacks return, and a timer that is due runs although other events
  keep coming (strong fairness): libevent runs timeouts in every iteration.
* `BaseServer`: weak fairness of main's start and of each IO thread's loop.
* `Framing`: weak fairness of the decoder: written bytes arrive and a loop calls
  its handler. `TcpNData`: weak fairness of the sender thread and of both loops.
* `SslEcho`, `WorkerServer`: weak fairness of each callback of each context and
  of the connecting thread; a loop serves every context that has something.
  Nothing is assumed of the clients' timers and of the network; the timer of a
  server's loop fires, as its interval is set before the loop runs.

## 4. Theorems

All are proved for every value of the constants allowed by the named
assumptions: any numbers of producers, messages, blocks, threads, sockets and
connections, any `Limit`, eventfd width, pipe capacity and read size.

**EpollQueueProofs.** `IInv == TypeOK /\ MutexInv /\ WakeInv`. `QueueExclusive`
is not inductive: that main may exhaust the queue without the mutex depends on
all producers having exited, which depends on the count of joins (`MutexInv`).
`NoLostWakeup` is not inductive either: a non-empty queue must stay on somebody's
agenda in every place of the loop, not only in the wait (`WakeInv`). From it
follow `QueueIsExclusive` and `WakeupsAreKept`; further invariants on the
histories (what was received followed by the queue is what was sent; a producer
numbers its messages upwards) give `NothingIsLost`, when the report is printed
every message has been received once and in order, and `FifoHolds`. The theorems
cover both loops (`Epoll` is any Boolean) and failing enqueues.

**EventPipeProofs.** `IInv == TypeOK /\ MutexInv`: nobody writes while
`event_pipe_readall` reads, and how far main has joined in each of its places.
With it every step of the pipe program is a step of `EventfdCount` or a stutter
(`PipeImplementsEventfd`). A chunk is a stutter until the read that ends the
loop, one shorter than the buffer, which is the eventfd's clearing read.

**MemoryPoolProofs.** `IInv == TypeOK /\ Counted /\ Apart /\ NothingLost`:
`used` is the number of blocks held, `alloc_index` is `used` slots after
`free_index`, and the free slots name each block not in use once. The heart is
the lemma `Rearranged`: after the three-case copy of `MemoryPoolEnsureSpace` the
free slots again name every free block, old and new, once. It gives `NoBlockLost`,
`AssertionHolds` (the `assert` at `memory_pool.c:107`) and the refinement
`BufferImplementsPool`. These three assume `UsualCalls` (`EnsureOn = {}`): the
pool is not grown while it is unused, nor, when full, to the capacity it has;
section 6 shows that the code needs this. `TypeCorrect` assumes nothing of
`EnsureOn` and is about every call that makes the pool larger (`GrowSpec`), that
of `run_test_memory_pool.cpp:132` on an unused pool included: blocks may then be
handed out twice, so that `used` is only an upper bound of the blocks held
(`GInv`), but both indices stay in the buffer. A call with the present capacity
is not covered, as it can put `alloc_index` outside.

**BaseServerProofs.** `ServerIsWhole` from three invariants. `SInv`: main keeps
the mutex until it waits, so the new thread can signal only a main thread that
waits, and the threads are created in order. `Turns`: the threads before
`io_thread_idx` have got one socket more than the others. `Sockets`: where a
socket is said to be is where it is, in one set or at one place of one tunnel.
That a socket is in one tunnel is not enough to be inductive: it must be there
once, or taking it would leave a copy.

**WorkerServerProofs.** `ReferencesCounted` from
`IInv == TypeOK /\ Logins /\ Places /\ Working`. The count of references is
inductive only with the knowledge that a client says its login first and once
(`Logins`), so that a context is retained once, and that each side of a handover
has the context in one place (`OnePlace`). `OneThreadAtATime` follows from the
same invariant: a loop works with a context it has (`Working`), and a context
handed over is in the worker's queue, loop or set only when the listening loop
has left its `OnMessage`.

**NumbersProofs.** `PairSolves`: the coefficients kept belong to the remainders
through both loops (`Bezout`), so a returned pair solves the equation, for all
integers. That the loop's last remainder is the greatest common divisor is
checked on the bounded arguments only.

### Only model-checked

Liveness and fairness (`Termination`, `KeepsEventfdFairness`, `LoopsReadData`,
`ServerServes`, both `Reconnects`, `TakenAll`, `EndsOnEof`, `Completes`, `Echoed`,
`LoginMoves`, `SilentReleased`), which are outside what TLAPS proves here;
`ReportMatches`; and everything about `EvloopSelect`, `EvloopEpoll`,
`ListMemoryPool`, `Peer`, `PfpaTcp`, `Framing`, `TcpNData`, `SslEcho`,
`DbServices`, `Screens` and the program texts. The select variant of
`EpollQueue` is covered by the proofs, not by a run.

## 5. What is abstracted

* Messages, sockets, blocks and contexts are names; their contents never
  influence the control of these programs. In the codecs a message is its
  length and whether `decode` accepts it.
* A user's `read_cb` reads everything there is, `err_cb` closes the descriptor
  or releases the context, as the repository's programs do.
* `pthread_cond_wait` does not wake spuriously in `BaseServer`:
  `createPeerIOThread` waits without a loop, so a spurious wakeup breaks
  `StartedWhole` at once. The tunnel's bufferevents are atomic, although they
  are made without `BEV_OPT_THREADSAFE`. Creating a thread does not fail.
* `peerSetReconn` is called while the peer is connecting or connected; turned
  off and on again while a retry is pending, it would leave no timer.
* `evloop_set_timer` is called before `evloop_run`: the select loop copies its
  timeout once (`evloop_select.c:181`).
* The filter lookup of pfpa (`pfpa_context.c:89`) is not modelled; its key is
  not cleared either, as that of `remote_key`.
* One worker stands for the worker loops of the mugglecpp server, so the
  assignment of users to workers is not modelled. TLS is three handshake records
  and messages; encryption is external. The client's allocation of its
  reconnection settings is taken to succeed.
* `int(a / b)` of `Numbers` is exact; in Python it is a float division, exact
  below 2^53.
* A program text has one resource per variable of the program: a loop over
  several rows, files or connections handles one at a time. Memory allocations
  whose result no program looks at (`New`) are taken to succeed.
* `peak` and other statistics of debug builds, logging and printing.
* `MaxMsg`, `MaxTime`, `MaxCapacity`, `MaxSize`, `MaxInterval`, `MaxLen`,
  `MaxSent`, `MaxConn`, `MaxMsgs`, `MaxBody`, `MaxConns`, `MaxSends`, `SslConns`,
  `SslMessages`, `SslFaults`, `MaxId`, `MaxFaults`, `Users`, `MaxKeys`, `MaxNum`
  and `MaxSquare` bound the models, not the programs.

## 6. Disagreements between the code and what it says of itself

Four have a run of their own:

* `evloop_epoll_timer`: `epoll_wait` is called with -1 whatever the timer, so an
  idle loop never calls `timer_cb`.
* `memory_pool_empty`: growing a pool with no block in use counts all slots as
  used; the assertion of a later growth fails.
* `trade_cache`: `NewTradeRecord` writes the cache before its transaction
  commits. In TLC's trace the put reaches Redis and then raises, the insert is
  rolled back, and the counts that `AccountServiceTest` compares differ; a commit
  that fails does the same.
* `linear_combination`: when one argument divides the other the last equation
  has one symbol, and no `y1` is returned.

Others show when a constant of a passing run is changed, or are written into
the condition of a property:

* `evloop_select.c:244`: a context added on a descriptor number just closed is
  judged by the old `eset` and given to `err_cb` (`recycled` in `ErrorsAreReal`);
  its closed descriptor then stays in `allset` (`WatchesAll`).
* `evloop_select.c:13`: the time since `last_ts = 0` may be negative as an `int`;
  the timer then does not fire (`wrapped` in `TimerKept`).
* `MemoryPool` with `EnsureOn = {"same"}`: `MemoryPoolEnsureSpace(capacity)` on
  a full pool leaves `alloc_index` outside the buffer (`TypeOK`); on an unused
  one with `"empty"` as well.
* `pools` with `EnsureNotFull = TRUE`: growing a list pool that is not full
  forgets its free blocks, and a block in use is handed out again
  (`WorkingList`). With `CopyRatio = 2`, the index pool of a 64-bit build, the
  copy overwrites the new indices with what lies behind the old array.
* `peer.c`: `reconncb` ignores the result of its connect and `peerStartReconn`
  returns without a timer when one cannot be made; the peer then never
  reconnects (the `failed` in `Reconnects`). `eventcb` does not look at the
  close flag (the exception in `ClosedAfterEvent`).
* `pfpa_tcp_handle.c`: `readme.md:4` sets retransmissions aside, and so a FIN
  that is sent again. The rest are shortcomings, which `SeqExpected`,
  `SessionsEnd`, `RemovedTogether` and `NoUseAfterFree` confine: a FIN with data
  puts the expected number off by its length until the end's next plain packet;
  FINs that cross, or a missed lookup of `remote_key`, leave sessions over; one
  left over with its FIN can end the next connection's sessions early or be
  written after it was freed.
* `use_epoll_eventfd.c:50` and its select twin: after a failed enqueue the mutex
  stays locked (the `failed` in `Termination`).
* `object_client`: bytes of a half-received message stay in the bufferevent over
  a reconnection and are taken for the start of the new stream (`cut` in
  `Aligned`). The netty protobuf decoder that has thrown for the length of a
  name goes on eight bytes into the message (`cut` too).
* `codec_bytes.cpp:70`: a full buffer ends the read with bytes in the socket, and
  no edge announces them again (`Stalled` in `TakenAll`).
* wolfssl's `on_message` leaves its read loop on -1 only, while `wolfSSL_read`
  returns 0 after the peer has closed: the thread spins (`StopsAtEnds`, and the
  exception in `Echoed`). For a session that could not be created it meets its
  assertion.
* wolfssl's echo server clears its buffer once a callback: a message after a
  longer one is echoed with the longer one's tail (the exception in `EchoExact`).
* The openssl client whose session could not be created does not reconnect (the
  exception in `Reconnects` of `SslEcho`).
* The worker's set keeps a context whose last reference the listening loop has
  dropped (the exception in `RefCounted`).
* `is_square(0)` is `False`, and `linear_congruence` finds nothing when Euclid's
  loop ends with a negative divisor (the conditions in `NumbersRight`).
* `balance_component.py:71` says "otherwise return None by db_utils_wrapper";
  when the commit fails the wrapper rolls back and returns the count.
* `UserService.addUser` of use-mybatis-spring inserts the level under the id
  its caller gave it, not under the id the user got: the two tables have as many
  rows, not the same ids (`Paired`, a part of `TablesAgree`).

Read off the code while writing the program texts (a resource among them is
named in the text's `left` or `lost`, is given to a `Blind` statement, or is
written over there):

* the libevent clients use a peer without looking at the result of
  `peerConnectTo`; `object_client` and `stress_client` forget `stream_bytes` when
  `evbuffer_remove` fails;
* the mysql and mariadb programs ask `mysql_error` about a connection that is
  NULL when `mysql_init` fails; libxml2's `case5.c` takes the root of a document
  that may not have been parsed;
* the odbc examples free a connected handle without disconnecting it; the jdbc
  examples use a user that may not have been found; after an exception
  `InsertRowsManualCommit` leaves autocommit off;
* libyaml's bracket stack never frees what was pushed; `run_zip` of miniz reports
  an archive complete that could not be finished; `live_capture` returns without
  `pcap_close`;
* `hugepage_test` unmaps memory it got from `aligned_alloc`; the second
  false-sharing program increments a counter it never set; the pfpa applications
  use a port that is set only when the filter has a colon, and leave the file
  open;
* wolfssl's listener is handed on although it may be NULL.

## 7. Not modelled

* `play/c/hugepage_test/src/instrument_id.h`: 21360 lines of constant data, more
  than a third of the repository's lines.
* Frameworks configured by annotations or files (spring, spring-cloud, mybatis
  mappers, log libraries, docker, nginx, consul, streamlit, sphinx): the
  behaviour is the framework's, and a call is one statement.
* `simple_web`, `dc_captcha`: each request is one statement or one call of a
  library.
* `date_calc`, the loan and bond calculators, `bitwise`: closed formulas over
  floating point or a calendar library. `CalcNatureMonth` of `date_calc` can
  yield the months 0 and 13, which a unit test shows as well as a model.
* `use_simd`, `use_gbenchmark`, `use_nanolog`, `use_miniaudio` and other
  measurements and media: numeric kernels and timing.
* Build, packaging, linking and language-feature examples (`hide_symbol`,
  `link_order`, `template_meta`, `lib_vars`, swig, ftxui, gflags).
* The decoding and printing of pfpa's packets, UDP and filters: no state is kept
  between packets but the TCP sessions.
* The configuration and command lines of `tcp_n_data`, the read-only queries of
  the database services, the handlers of netty and Go around their codecs.

What could be taken up next: several workers and `user_worker_dict_` in
`WorkerServer`; proofs for `ListMemoryPool` and its refinement, `FreedStops` of
`Peer`, `EdgeKept` of `EvloopEpoll`, and `ImplementsStream` of `Framing`.

## 8. Running

    tlc -workers 2 -config epoll_queue.cfg EpollQueue
    tlc -workers 2 -config programs.cfg MCPrograms
    tlapm BaseServerProofs.tla

`PROJECT.json` names the module of each configuration. The runs take between a
few seconds and two minutes; the proofs of `BaseServerProofs` and
`WorkerServerProofs` take about four minutes each, the others less.
