----------------------------- MODULE EpollQueue -----------------------------
(***************************************************************************)
(* The program use_epoll_eventfd: PRODUCER_NUM producer threads push       *)
(* messages into a queue guarded by one mutex and wake an epoll event loop *)
(* through an eventfd; the loop's wakeup callback drains the queue until   *)
(* it has counted Limit messages, then main joins the producers, exhausts  *)
(* the queue and reports both totals.  use_select_eventfd is the same      *)
(* program over a select loop: only the wait differs.                      *)
(*                                                                         *)
(* Sources: play/c/event_loop/example_linux/epoll_eventfd/                 *)
(*            use_epoll_eventfd.c   (producers, on_wakeup, main)           *)
(*            evloop_epoll.c        (evloop_wakeup, evloop_run)            *)
(*          play/c/event_loop/example_linux/select_eventfd/evloop_select.c *)
(* A step is one call that another thread can observe: a lock, an unlock,  *)
(* an enqueue, an eventfd write or read, epoll_wait, an atomic access.     *)
(***************************************************************************)
EXTENDS Integers, Sequences

CONSTANTS
  PRODUCER_NUM,  \* number of producer threads (16 in the code)
  Limit,         \* messages after which on_wakeup sets exit (512)
  EventfdMax,    \* largest eventfd counter value (2^64 - 2)
  MaxMsg,        \* bound: messages one producer prepares
  Epoll,         \* the loop is evloop_epoll (else evloop_select)
  EnqueueFails   \* may muggle_queue_enqueue return NULL (out of memory)?

ASSUME EpollQueueAssumption ==
  /\ PRODUCER_NUM \in Nat \ {0}
  /\ Limit \in Nat \ {0}
  /\ EventfdMax \in Nat \ {0}
  /\ MaxMsg \in Nat \ {0}
  /\ Epoll \in BOOLEAN
  /\ EnqueueFails \in BOOLEAN

Producers == 0 .. (PRODUCER_NUM - 1)

LoopThread == -1    \* main's thread, inside evloop_run
NoThread   == -2    \* the mutex is free

VARIABLES
  pc,         \* per producer: where it is in producer_routine
  msg_idx,    \* per producer: the local msg_idx
  p_cnt,      \* per producer: thread_args_t.cnt, written on exit
  mtx,        \* holder of the queue mutex
  queue,      \* the muggle_queue of messages <<thread_idx, msg_idx>>
  evfd,       \* counter of the eventfd
  ready,      \* the eventfd is on epoll's ready list (EPOLLIN | EPOLLET)
  lpc,        \* where the main thread is: in evloop_run, then after it
  exit,       \* evloop->exit
  cnt,        \* consumer_info_t.cnt
  completed,  \* the atomic flag the producers poll
  joined,     \* number of producers main has joined
  producer_total_send,
  sent,       \* history: messages enqueued, in order
  recvd,      \* history: messages dequeued, in order
  failed      \* history: number of enqueues that failed

prodVars == <<pc, msg_idx, p_cnt>>
loopVars == <<lpc, exit, cnt>>
mainVars == <<completed, joined, producer_total_send>>
history  == <<sent, recvd, failed>>
vars == <<prodVars, mtx, queue, evfd, ready, loopVars, mainVars, history>>

Init ==
  /\ pc = [p \in Producers |-> "prepare"]
  /\ msg_idx = [p \in Producers |-> 0]
  /\ p_cnt = [p \in Producers |-> 0]
  /\ mtx = NoThread
  /\ queue = << >>
  /\ evfd = 0 /\ ready = FALSE
  /\ lpc = "wait" /\ exit = FALSE /\ cnt = 0
  /\ completed = FALSE /\ joined = 0 /\ producer_total_send = 0
  /\ sent = << >> /\ recvd = << >> /\ failed = 0

Goto(p, from, to) == pc[p] = from /\ pc' = [pc EXCEPT ![p] = to]
LoopGoto(from, to) == lpc = from /\ lpc' = to

-----------------------------------------------------------------------------
(* producer_routine *)

\* sleep, allocate the message and number it
Prepare(p) ==
  /\ Goto(p, "prepare", "lock")
  /\ msg_idx' = [msg_idx EXCEPT ![p] = @ + 1]
  /\ UNCHANGED <<p_cnt, mtx, queue, evfd, ready, loopVars, mainVars, history>>

Lock(p) ==
  /\ Goto(p, "lock", "enqueue")
  /\ mtx = NoThread
  /\ mtx' = p
  /\ UNCHANGED <<msg_idx, p_cnt, queue, evfd, ready, loopVars, mainVars, history>>

Enqueue(p) ==
  /\ Goto(p, "enqueue", "unlock")
  /\ queue' = Append(queue, <<p, msg_idx[p]>>)
  /\ sent' = Append(sent, <<p, msg_idx[p]>>)
  /\ UNCHANGED <<msg_idx, p_cnt, mtx, evfd, ready, loopVars, mainVars, recvd, failed>>

\* enqueue returned NULL: the message is freed and "continue" goes to the
\* loop condition, with the mutex still held
EnqueueFail(p) ==
  /\ EnqueueFails
  /\ Goto(p, "enqueue", "test")
  /\ failed' = failed + 1
  /\ UNCHANGED <<msg_idx, p_cnt, mtx, queue, evfd, ready, loopVars, mainVars, sent, recvd>>

Unlock(p) ==
  /\ Goto(p, "unlock", "wakeup")
  /\ mtx' = NoThread
  /\ UNCHANGED <<msg_idx, p_cnt, queue, evfd, ready, loopVars, mainVars, history>>

\* the eventfd is non-blocking: a write that would overflow the counter
\* fails with EAGAIN and is only logged; a successful write is a new edge
evloop_wakeup(p) ==
  /\ Goto(p, "wakeup", "test")
  /\ IF evfd < EventfdMax
       THEN evfd' = evfd + 1 /\ ready' = TRUE
       ELSE UNCHANGED <<evfd, ready>>
  /\ UNCHANGED <<msg_idx, p_cnt, mtx, queue, loopVars, mainVars, history>>

\* while (completed == 0); on leaving the loop, publish the count.
\* MaxMsg bounds the model: the last iteration waits for completed
TestCompleted(p) ==
  /\ \/ /\ completed
        /\ Goto(p, "test", "exited")
        /\ p_cnt' = [p_cnt EXCEPT ![p] = msg_idx[p]]
     \/ /\ ~completed
        /\ msg_idx[p] < MaxMsg
        /\ Goto(p, "test", "prepare")
        /\ UNCHANGED p_cnt
  /\ UNCHANGED <<msg_idx, mtx, queue, evfd, ready, loopVars, mainVars, history>>

producer_routine(p) ==
  \/ Prepare(p) \/ Lock(p) \/ Enqueue(p) \/ EnqueueFail(p)
  \/ Unlock(p) \/ evloop_wakeup(p) \/ TestCompleted(p)

-----------------------------------------------------------------------------
(* evloop_run and on_wakeup, on the main thread.  The program sets no timer, *)
(* so timeout is -1 and evloop_run never reaches evloop_handle_timer.        *)

\* epoll_wait(..., -1) returns the eventfd; EPOLLET takes it off the ready list
EpollReturns == ready /\ evfd > 0 /\ ready' = FALSE

\* select(..., NULL) returns with the eventfd in rset: level-triggered
SelectReturns == evfd > 0 /\ UNCHANGED ready

Wait ==
  /\ LoopGoto("wait", "read")
  /\ IF Epoll THEN EpollReturns ELSE SelectReturns
  /\ UNCHANGED <<prodVars, mtx, queue, evfd, exit, cnt, mainVars, history>>

\* epoll_wait or select returns -1 (a signal gives EINTR): the loop asks itself to exit
WaitFail ==
  /\ LoopGoto("wait", "check")
  /\ exit' = TRUE
  /\ UNCHANGED <<prodVars, mtx, queue, evfd, ready, cnt, mainVars, history>>

ReadEventfd ==
  /\ LoopGoto("read", "lock")
  /\ evfd' = 0
  /\ UNCHANGED <<prodVars, mtx, queue, ready, exit, cnt, mainVars, history>>

WakeLock ==
  /\ LoopGoto("lock", "drain")
  /\ mtx = NoThread
  /\ mtx' = LoopThread
  /\ UNCHANGED <<prodVars, queue, evfd, ready, exit, cnt, mainVars, history>>

\* Mutant of Dequeue: takes the newest message
DequeueLast ==
  /\ queue # << >>
  /\ cnt' = cnt + 1
  /\ recvd' = Append(recvd, queue[Len(queue)])
  /\ queue' = SubSeq(queue, 1, Len(queue) - 1)
  /\ UNCHANGED <<sent, failed>>

Dequeue ==
  /\ queue # << >>
  /\ cnt' = cnt + 1
  /\ recvd' = Append(recvd, Head(queue))
  /\ queue' = Tail(queue)
  /\ UNCHANGED <<sent, failed>>

\* one turn of on_wakeup's while loop
Drain ==
  /\ Dequeue
  /\ IF cnt + 1 >= Limit
       THEN exit' = TRUE /\ LoopGoto("drain", "unlock")
       ELSE LoopGoto("drain", "drain") /\ UNCHANGED exit
  /\ UNCHANGED <<prodVars, mtx, evfd, ready, mainVars>>

DrainDone ==
  /\ LoopGoto("drain", "unlock")
  /\ queue = << >>
  /\ UNCHANGED <<prodVars, mtx, queue, evfd, ready, exit, cnt, mainVars, history>>

WakeUnlock ==
  /\ LoopGoto("unlock", "check")
  /\ mtx' = NoThread
  /\ UNCHANGED <<prodVars, queue, evfd, ready, exit, cnt, mainVars, history>>

\* Mutant of CheckExit: the eventfd is cleared (again) once the queue is unlocked
ReadThenCheckExit ==
  /\ LoopGoto("check", IF exit THEN "store" ELSE "wait")
  /\ evfd' = 0
  /\ UNCHANGED <<prodVars, mtx, queue, ready, exit, cnt, mainVars, history>>

\* if (evloop->exit) break;
CheckExit ==
  /\ LoopGoto("check", IF exit THEN "store" ELSE "wait")
  /\ UNCHANGED <<prodVars, mtx, queue, evfd, ready, exit, cnt, mainVars, history>>

evloop_run ==
  \/ Wait \/ WaitFail \/ ReadEventfd \/ WakeLock
  \/ Drain \/ DrainDone \/ WakeUnlock \/ CheckExit

-----------------------------------------------------------------------------
(* main, after evloop_run returns *)

\* Mutant of StoreCompleted: the flag is not set
StoreNothing ==
  /\ LoopGoto("store", "join")
  /\ UNCHANGED <<prodVars, mtx, queue, evfd, ready, exit, cnt, mainVars, history>>

StoreCompleted ==
  /\ LoopGoto("store", "join")
  /\ completed' = TRUE
  /\ UNCHANGED <<prodVars, mtx, queue, evfd, ready, exit, cnt, joined,
                 producer_total_send, history>>

Join ==
  /\ lpc = "join"
  /\ pc[joined] = "exited"
  /\ producer_total_send' = producer_total_send + p_cnt[joined]
  /\ joined' = joined + 1
  /\ lpc' = IF joined' = PRODUCER_NUM THEN "exhaust" ELSE "join"
  /\ UNCHANGED <<prodVars, mtx, queue, evfd, ready, exit, cnt, completed, history>>

\* main drains without the mutex: every producer has been joined
Exhaust ==
  /\ LoopGoto("exhaust", "exhaust")
  /\ Dequeue
  /\ UNCHANGED <<prodVars, mtx, evfd, ready, exit, mainVars>>

\* Mutant of Report: the queue is not exhausted first
ReportEarly ==
  /\ LoopGoto("exhaust", "done")
  /\ UNCHANGED <<prodVars, mtx, queue, evfd, ready, exit, cnt, mainVars, history>>

\* queue and mutex are destroyed and the two totals are reported
Report ==
  /\ LoopGoto("exhaust", "done")
  /\ queue = << >>
  /\ UNCHANGED <<prodVars, mtx, queue, evfd, ready, exit, cnt, mainVars, history>>

main == StoreCompleted \/ Join \/ Exhaust \/ Report

Terminating == lpc = "done" /\ UNCHANGED vars

Next ==
  \/ \E p \in Producers : producer_routine(p)
  \/ evloop_run
  \/ main
  \/ Terminating

Spec == Init /\ [][Next]_vars

\* Every thread keeps being scheduled.  WaitFail (a signal) and EnqueueFail
\* (an allocation failure) belong to the environment and need not happen.
\* MaxMsg bounds how often a producer competes for the mutex, so weak
\* fairness of the two lock steps is enough.
Fairness ==
  /\ \A p \in Producers : WF_vars(producer_routine(p))
  /\ WF_vars(Wait \/ ReadEventfd \/ WakeLock \/ Drain \/ DrainDone
             \/ WakeUnlock \/ CheckExit \/ main)

FairSpec == Spec /\ Fairness

-----------------------------------------------------------------------------
\* Type invariant; in particular the eventfd counter stays within its width:
\* evloop_wakeup's write never wraps it.
TypeOK ==
  /\ pc \in [Producers -> {"prepare", "lock", "enqueue", "unlock", "wakeup", "test", "exited"}]
  /\ msg_idx \in [Producers -> Nat]
  /\ p_cnt \in [Producers -> Nat]
  /\ mtx \in Producers \cup {LoopThread, NoThread}
  /\ queue \in Seq(Producers \X Nat)
  /\ evfd \in 0 .. EventfdMax /\ ready \in BOOLEAN
  /\ lpc \in {"wait", "read", "lock", "drain", "unlock", "check",
               "store", "join", "exhaust", "done"}
  /\ exit \in BOOLEAN /\ cnt \in Nat
  /\ completed \in BOOLEAN /\ joined \in 0 .. PRODUCER_NUM /\ producer_total_send \in Nat
  /\ sent \in Seq(Producers \X Nat) /\ recvd \in Seq(Producers \X Nat)
  /\ failed \in Nat

\* Threads that may touch the queue: producers between lock and unlock,
\* on_wakeup between lock and unlock, main while it exhausts the queue.
InQueue ==
  {p \in Producers : pc[p] \in {"enqueue", "unlock"}}
    \cup {t \in {LoopThread} : lpc \in {"drain", "unlock", "exhaust"}}

\* The queue is never used by two threads at once, although main exhausts it
\* without the mutex: storing completed and joining stands in for locking.
QueueExclusive == \A s, t \in InQueue : s = t

\* The loop has been told that the queue is not empty, or is about to be.
Signalled ==
  \/ evfd > 0 /\ ready
  \/ \E p \in Producers : pc[p] \in {"unlock", "wakeup"}

\* No wakeup is lost: the loop never blocks in its wait on a non-empty
\* queue with no edge pending and no producer about to write the eventfd,
\* although it clears the counter before it takes the mutex and the eventfd
\* is edge-triggered.
NoLostWakeup == lpc = "wait" /\ queue # << >> => Signalled

\* Each producer's messages are received in the order it sent them.
FifoPerProducer ==
  \A i, j \in DOMAIN recvd :
    i < j /\ recvd[i][1] = recvd[j][1] => recvd[i][2] < recvd[j][2]

\* The totals main reports agree: what the producers count as sent is what
\* was received, in evloop_run and by the exhaust loop, or failed to enqueue.
ReportMatches ==
  lpc = "done" => /\ producer_total_send = cnt + failed
                  /\ recvd = sent

\* The program terminates, although producers and loop wait for each other
\* through the eventfd, the mutex and the flag, unless an enqueue has failed:
\* that path leaves producer_routine's critical section without unlocking.
Termination == <>(lpc = "done" \/ failed > 0)

====
