-------------------------- MODULE EpollQueueProofs --------------------------
(***************************************************************************)
(* Proofs about EpollQueue, for any number of producers, any Limit, any    *)
(* eventfd width and any bound MaxMsg, with or without failing enqueues.   *)
(***************************************************************************)
EXTENDS EpollQueue, SequenceTheorems, TLAPS

\* Who holds the mutex, and how far main has joined.
MutexInv ==
  /\ \A p \in Producers : pc[p] \in {"enqueue", "unlock"} => mtx = p
  /\ lpc \in {"drain", "unlock"} => mtx = LoopThread
  /\ \A p \in Producers : p < joined => pc[p] = "exited"
  /\ lpc = "join" => joined < PRODUCER_NUM
  /\ lpc \in {"exhaust", "done"} => joined = PRODUCER_NUM
  /\ lpc \notin {"join", "exhaust", "done"} => joined = 0

\* A non-empty queue is always on somebody's agenda: the loop is between
\* epoll_wait and the end of its drain, or is leaving, or is signalled.
WakeInv ==
  /\ evfd > 0 => ready \/ lpc = "read"
  /\ exit => lpc \notin {"wait", "read", "lock", "drain"}
  /\ queue # << >> =>
       \/ lpc \in {"read", "lock", "drain", "store", "join", "exhaust", "done"}
       \/ exit
       \/ Signalled

IInv == TypeOK /\ MutexInv /\ WakeInv

LEMMA InitIInv == Init => IInv
  BY EpollQueueAssumption DEF Init, IInv, TypeOK, MutexInv, WakeInv, Producers, NoThread, LoopThread

LEMMA TypeStep == TypeOK /\ MutexInv /\ [Next]_vars => TypeOK'
<1> SUFFICES ASSUME TypeOK, MutexInv, [Next]_vars PROVE TypeOK'
  OBVIOUS
<1> USE EpollQueueAssumption DEF TypeOK
<1>1. CASE UNCHANGED vars
  BY <1>1 DEF vars, prodVars, loopVars, mainVars, history
<1>2. ASSUME NEW p \in Producers, producer_routine(p) PROVE TypeOK'
  <2>1. CASE Prepare(p)
    <3>1. msg_idx' \in [Producers -> Nat]
      BY <2>1 DEF Prepare
    <3> QED BY <2>1, <3>1 DEF Prepare, Goto, loopVars, mainVars, history
  <2>2. CASE Lock(p)
    BY <2>2 DEF Lock, Goto, loopVars, mainVars, history
  <2>3. CASE Enqueue(p)
    BY <2>3 DEF Enqueue, Goto, loopVars, mainVars
  <2>4. CASE EnqueueFail(p)
    BY <2>4 DEF EnqueueFail, Goto, loopVars, mainVars
  <2>5. CASE Unlock(p)
    BY <2>5 DEF Unlock, Goto, loopVars, mainVars, history
  <2>6. CASE evloop_wakeup(p)
    <3>0. (evfd < EventfdMax /\ evfd' = evfd + 1) \/ evfd' = evfd
      BY ONLY <2>6, Zenon DEF evloop_wakeup
    <3>1. evfd' \in 0 .. EventfdMax
      BY <3>0
    <3>2. ready' \in BOOLEAN
      BY <2>6 DEF evloop_wakeup
    <3> QED BY <2>6, <3>1, <3>2 DEF evloop_wakeup, Goto, loopVars, mainVars, history
  <2>7. CASE TestCompleted(p)
    BY <2>7 DEF TestCompleted, Goto, loopVars, mainVars, history
  <2> QED BY <1>2, <2>1, <2>2, <2>3, <2>4, <2>5, <2>6, <2>7 DEF producer_routine
<1>3. CASE evloop_run
  <2>1. CASE Wait
    BY <2>1 DEF Wait, EpollReturns, SelectReturns, LoopGoto, prodVars, mainVars, history
  <2>2. CASE WaitFail
    BY <2>2 DEF WaitFail, LoopGoto, prodVars, mainVars, history
  <2>3. CASE ReadEventfd
    BY <2>3 DEF ReadEventfd, LoopGoto, prodVars, mainVars, history
  <2>4. CASE WakeLock
    BY <2>4 DEF WakeLock, LoopGoto, prodVars, mainVars, history
  <2>5. CASE Drain
    <3>1. cnt' \in Nat
      BY <2>5 DEF Drain, Dequeue
    <3>2. exit' \in BOOLEAN /\ lpc' \in {"unlock", "drain"}
      BY <2>5, Zenon DEF Drain, LoopGoto
    <3>3. queue' \in Seq(Producers \X Nat) /\ recvd' \in Seq(Producers \X Nat)
      BY <2>5 DEF Drain, Dequeue
    <3> QED BY <2>5, <3>1, <3>2, <3>3 DEF Drain, Dequeue, prodVars, mainVars
  <2>6. CASE DrainDone
    BY <2>6 DEF DrainDone, LoopGoto, prodVars, mainVars, history
  <2>7. CASE WakeUnlock
    BY <2>7 DEF WakeUnlock, LoopGoto, prodVars, mainVars, history
  <2>8. CASE CheckExit
    <3>1. lpc' \in {"store", "wait"}
      BY <2>8, Zenon DEF CheckExit, LoopGoto
    <3> QED BY <2>8, <3>1 DEF CheckExit, prodVars, mainVars, history
  <2> QED BY <1>3, <2>1, <2>2, <2>3, <2>4, <2>5, <2>6, <2>7, <2>8 DEF evloop_run
<1>4. CASE main
  <2>1. CASE StoreCompleted
    BY <2>1 DEF StoreCompleted, LoopGoto, prodVars, history
  <2>2. CASE Join
    <3>1. joined \in Producers
      BY <2>2 DEF Join, MutexInv, Producers
    <3>2. joined' \in 0 .. PRODUCER_NUM
      BY <2>2, <3>1 DEF Join, Producers
    <3>3. p_cnt[joined] \in Nat /\ producer_total_send \in Nat
      BY <3>1
    <3>4. producer_total_send' = producer_total_send + p_cnt[joined]
      BY <2>2, Zenon DEF Join
    <3>5. producer_total_send' \in Nat
      BY ONLY <3>3, <3>4
    <3>6. lpc' \in {"exhaust", "join"}
      BY ONLY <2>2, Zenon DEF Join
    <3> QED BY <2>2, <3>2, <3>5, <3>6 DEF Join, prodVars, history
  <2>3. CASE Exhaust
    <3>1. cnt' \in Nat
      BY <2>3 DEF Exhaust, Dequeue
    <3>2. queue' \in Seq(Producers \X Nat) /\ recvd' \in Seq(Producers \X Nat)
      BY <2>3 DEF Exhaust, Dequeue
    <3> QED BY <2>3, <3>1, <3>2 DEF Exhaust, Dequeue, LoopGoto, prodVars, mainVars
  <2>4. CASE Report
    BY <2>4 DEF Report, LoopGoto, prodVars, mainVars, history
  <2> QED BY <1>4, <2>1, <2>2, <2>3, <2>4 DEF main
<1>5. CASE Terminating
  BY <1>1, <1>5 DEF Terminating
<1> QED BY <1>1, <1>2, <1>3, <1>4, <1>5 DEF Next

LEMMA MutexStep == IInv /\ [Next]_vars => MutexInv'
<1> SUFFICES ASSUME TypeOK, MutexInv, [Next]_vars PROVE MutexInv'
  BY DEF IInv
<1> USE EpollQueueAssumption DEF TypeOK, MutexInv, Producers, LoopThread, NoThread
<1>1. CASE UNCHANGED vars
  BY <1>1 DEF vars, prodVars, loopVars, mainVars
<1>2. ASSUME NEW p \in Producers, producer_routine(p) PROVE MutexInv'
  <2>1. CASE Prepare(p)
    BY <2>1 DEF Prepare, Goto, loopVars, mainVars
  <2>2. CASE Lock(p)
    <3>1. mtx = NoThread /\ mtx' = p /\ lpc' = lpc /\ joined' = joined
      BY <2>2 DEF Lock, loopVars, mainVars
    <3>2. pc[p] = "lock" /\ pc' = [pc EXCEPT ![p] = "enqueue"]
      BY <2>2 DEF Lock, Goto
    <3>3. \A q \in Producers : q # p => pc'[q] = pc[q] /\ pc[q] \notin {"enqueue", "unlock"}
      BY <3>1, <3>2
    <3> QED BY <3>1, <3>2, <3>3
  <2>3. CASE Enqueue(p)
    BY <2>3 DEF Enqueue, Goto, loopVars, mainVars
  <2>4. CASE EnqueueFail(p)
    BY <2>4 DEF EnqueueFail, Goto, loopVars, mainVars
  <2>5. CASE Unlock(p)
    <3>1. mtx = p /\ mtx' = NoThread /\ lpc' = lpc /\ joined' = joined
      BY <2>5 DEF Unlock, Goto, loopVars, mainVars
    <3>2. pc[p] = "unlock" /\ pc' = [pc EXCEPT ![p] = "wakeup"]
      BY <2>5 DEF Unlock, Goto
    <3>3. \A q \in Producers : q # p => pc'[q] = pc[q] /\ pc[q] \notin {"enqueue", "unlock"}
      BY <3>1, <3>2
    <3> QED BY <3>1, <3>2, <3>3
  <2>6. CASE evloop_wakeup(p)
    BY <2>6 DEF evloop_wakeup, Goto, loopVars, mainVars
  <2>7. CASE TestCompleted(p)
    BY <2>7 DEF TestCompleted, Goto, loopVars, mainVars
  <2> QED BY <1>2, <2>1, <2>2, <2>3, <2>4, <2>5, <2>6, <2>7 DEF producer_routine
<1>3. CASE evloop_run
  <2>1. CASE Wait
    BY <2>1 DEF Wait, EpollReturns, SelectReturns, LoopGoto, prodVars, mainVars
  <2>2. CASE WaitFail
    BY <2>2 DEF WaitFail, LoopGoto, prodVars, mainVars
  <2>3. CASE ReadEventfd
    BY <2>3 DEF ReadEventfd, LoopGoto, prodVars, mainVars
  <2>4. CASE WakeLock
    BY <2>4 DEF WakeLock, LoopGoto, prodVars, mainVars
  <2>5. CASE Drain
    <3>1. lpc = "drain" /\ lpc' \in {"unlock", "drain"}
      BY <2>5, Zenon DEF Drain, LoopGoto
    <3> QED BY <2>5, <3>1 DEF Drain, prodVars, mainVars
  <2>6. CASE DrainDone
    BY <2>6 DEF DrainDone, LoopGoto, prodVars, mainVars
  <2>7. CASE WakeUnlock
    BY <2>7 DEF WakeUnlock, LoopGoto, prodVars, mainVars
  <2>8. CASE CheckExit
    <3>1. lpc = "check" /\ lpc' \in {"store", "wait"}
      BY <2>8, Zenon DEF CheckExit, LoopGoto
    <3> QED BY <2>8, <3>1 DEF CheckExit, prodVars, mainVars
  <2> QED BY <1>3, <2>1, <2>2, <2>3, <2>4, <2>5, <2>6, <2>7, <2>8 DEF evloop_run
<1>4. CASE main
  <2>1. CASE StoreCompleted
    BY <2>1 DEF StoreCompleted, LoopGoto, prodVars
  <2>2. CASE Join
    <3>1. /\ lpc = "join" /\ lpc' \in {"exhaust", "join"}
          /\ lpc' = "exhaust" <=> joined' = PRODUCER_NUM
      BY <2>2, Zenon DEF Join
    <3>2. joined < PRODUCER_NUM /\ joined' = joined + 1 /\ pc[joined] = "exited"
      BY <2>2 DEF Join
    <3>3. pc' = pc /\ mtx' = mtx
      BY <2>2 DEF Join, prodVars
    <3> QED BY <3>1, <3>2, <3>3
  <2>3. CASE Exhaust
    BY <2>3 DEF Exhaust, LoopGoto, prodVars, mainVars
  <2>4. CASE Report
    BY <2>4 DEF Report, LoopGoto, prodVars, mainVars
  <2> QED BY <1>4, <2>1, <2>2, <2>3, <2>4 DEF main
<1>5. CASE Terminating
  BY <1>1, <1>5 DEF Terminating
<1> QED BY <1>1, <1>2, <1>3, <1>4, <1>5 DEF Next

LEMMA WakeStep == IInv /\ [Next]_vars => WakeInv'
<1> SUFFICES ASSUME TypeOK, WakeInv, [Next]_vars PROVE WakeInv'
  BY DEF IInv
<1> USE EpollQueueAssumption DEF TypeOK, WakeInv, Signalled
<1>1. CASE UNCHANGED vars
  BY <1>1 DEF vars, prodVars, loopVars, mainVars
<1>2. ASSUME NEW p \in Producers, producer_routine(p) PROVE WakeInv'
  <2>1. CASE Prepare(p)
    BY <2>1 DEF Prepare, Goto, loopVars
  <2>2. CASE Lock(p)
    BY <2>2 DEF Lock, Goto, loopVars
  <2>3. CASE Enqueue(p)
    BY <2>3 DEF Enqueue, Goto, loopVars
  <2>4. CASE EnqueueFail(p)
    BY <2>4 DEF EnqueueFail, Goto, loopVars
  <2>5. CASE Unlock(p)
    BY <2>5 DEF Unlock, Goto, loopVars
  <2>6. CASE evloop_wakeup(p)
    <3>1. CASE evfd < EventfdMax
      BY <2>6, <3>1 DEF evloop_wakeup, Goto, loopVars
    <3>2. CASE evfd = EventfdMax
      BY <2>6, <3>2 DEF evloop_wakeup, Goto, loopVars
    <3> QED BY <3>1, <3>2
  <2>7. CASE TestCompleted(p)
    BY <2>7 DEF TestCompleted, Goto, loopVars
  <2> QED BY <1>2, <2>1, <2>2, <2>3, <2>4, <2>5, <2>6, <2>7 DEF producer_routine
<1>3. CASE evloop_run
  <2>1. CASE Wait
    BY <2>1 DEF Wait, EpollReturns, SelectReturns, LoopGoto, prodVars
  <2>2. CASE WaitFail
    BY <2>2 DEF WaitFail, LoopGoto, prodVars
  <2>3. CASE ReadEventfd
    BY <2>3 DEF ReadEventfd, LoopGoto, prodVars
  <2>4. CASE WakeLock
    BY <2>4 DEF WakeLock, LoopGoto, prodVars
  <2>5. CASE Drain
    BY <2>5 DEF Drain, LoopGoto, prodVars
  <2>6. CASE DrainDone
    BY <2>6 DEF DrainDone, LoopGoto, prodVars
  <2>7. CASE WakeUnlock
    BY <2>7 DEF WakeUnlock, LoopGoto, prodVars
  <2>8. CASE CheckExit
    BY <2>8 DEF CheckExit, LoopGoto, prodVars
  <2> QED BY <1>3, <2>1, <2>2, <2>3, <2>4, <2>5, <2>6, <2>7, <2>8 DEF evloop_run
<1>4. CASE main
  BY <1>4 DEF main, StoreCompleted, Join, Exhaust, Report, LoopGoto, prodVars
<1>5. CASE Terminating
  BY <1>1, <1>5 DEF Terminating
<1> QED BY <1>1, <1>2, <1>3, <1>4, <1>5 DEF Next

\* The inductive invariant: types, who holds the mutex, who has been woken.
THEOREM Invariance == Spec => []IInv
<1>1. IInv /\ [Next]_vars => IInv'
  BY TypeStep, MutexStep, WakeStep DEF IInv
<1> QED BY InitIInv, <1>1, PTL DEF Spec

\* Type correctness; the eventfd counter never leaves its range.
THEOREM TypeCorrect == Spec => []TypeOK
  BY Invariance, PTL DEF IInv

\* The queue never has two users, main's unlocked exhaust loop included.
THEOREM QueueIsExclusive == Spec => []QueueExclusive
<1>1. IInv => QueueExclusive
  BY DEF IInv, TypeOK, MutexInv, QueueExclusive, InQueue, Producers, LoopThread
<1> QED BY <1>1, Invariance, PTL

\* evloop_run never sleeps on a non-empty queue that nobody will signal.
THEOREM WakeupsAreKept == Spec => []NoLostWakeup
<1>1. IInv => NoLostWakeup
  BY DEF IInv, WakeInv, NoLostWakeup
<1> QED BY <1>1, Invariance, PTL

-----------------------------------------------------------------------------
(* The messages: what was received followed by what is queued is what was  *)
(* sent, and a producer's messages are numbered in the order it sent them. *)

LEMMA MoveHead ==
  ASSUME NEW S, NEW s \in Seq(S), NEW t \in Seq(S), t # << >>
  PROVE  Append(s, Head(t)) \o Tail(t) = s \o t
<1> DEFINE a == Append(s, Head(t)) \o Tail(t)
           b == s \o t
<1>1. Head(t) \in S /\ Tail(t) \in Seq(S) /\ Len(t) > 0 /\ Len(Tail(t)) = Len(t) - 1
  OBVIOUS
<1>2. a \in Seq(S) /\ b \in Seq(S) /\ Len(a) = Len(b) /\ Len(b) = Len(s) + Len(t)
  BY <1>1
<1>3. ASSUME NEW i \in 1 .. Len(a) PROVE a[i] = b[i]
  <2>1. CASE i <= Len(s)
    BY <1>1, <1>2, <2>1
  <2>2. CASE i = Len(s) + 1
    BY <1>1, <1>2, <2>2
  <2>3. CASE i > Len(s) + 1
    BY <1>1, <1>2, <2>3
  <2> QED BY <1>2, <2>1, <2>2, <2>3
<1> HIDE DEF a, b
<1>4. a = b
  BY <1>2, <1>3, SeqEqual
<1> QED BY <1>4 DEF a, b

LEMMA AppendRight ==
  ASSUME NEW S, NEW s \in Seq(S), NEW t \in Seq(S), NEW e \in S
  PROVE  s \o Append(t, e) = Append(s \o t, e)
<1> DEFINE a == s \o Append(t, e)
           b == Append(s \o t, e)
<1>1. a \in Seq(S) /\ b \in Seq(S) /\ Len(a) = Len(b) /\ Len(b) = Len(s) + Len(t) + 1
  OBVIOUS
<1>2. ASSUME NEW i \in 1 .. Len(a) PROVE a[i] = b[i]
  BY <1>1
<1> HIDE DEF a, b
<1>3. a = b
  BY <1>1, <1>2, SeqEqual
<1> QED BY <1>3 DEF a, b

QueueInv ==
  /\ recvd \o queue = sent
  /\ cnt = Len(recvd)
  /\ lpc = "done" => queue = << >>

LEMMA QueueStep == IInv /\ QueueInv /\ [Next]_vars => QueueInv'
<1> SUFFICES ASSUME TypeOK, MutexInv, QueueInv, [Next]_vars PROVE QueueInv'
  BY DEF IInv
<1>1. CASE UNCHANGED <<queue, sent, recvd, cnt, lpc>>
  BY <1>1 DEF QueueInv
<1>2. ASSUME NEW p \in Producers, Enqueue(p) PROVE QueueInv'
  <2>1. <<p, msg_idx[p]>> \in Producers \X Nat
    BY DEF TypeOK
  <2>2. recvd \o queue' = sent'
    <3> DEFINE m == <<p, msg_idx[p]>>
    <3>1. queue' = Append(queue, m) /\ sent' = Append(recvd \o queue, m)
      BY <1>2 DEF Enqueue, QueueInv
    <3>2. recvd \in Seq(Producers \X Nat) /\ queue \in Seq(Producers \X Nat)
      BY DEF TypeOK
    <3> HIDE DEF m
    <3>3. recvd \o Append(queue, m) = Append(recvd \o queue, m)
      BY <2>1, <3>2, AppendRight DEF m
    <3> QED BY <3>1, <3>3
  <2>3. lpc # "done"
    BY <1>2, EpollQueueAssumption DEF Enqueue, Goto, MutexInv, Producers, TypeOK
  <2> QED BY <1>2, <2>2, <2>3 DEF Enqueue, loopVars, QueueInv
<1>3. ASSUME Dequeue, lpc' # "done" PROVE QueueInv'
  <2>1. recvd' \o queue' = sent'
    BY <1>3, MoveHead DEF Dequeue, QueueInv, TypeOK
  <2>2. cnt' = Len(recvd')
    BY <1>3 DEF Dequeue, QueueInv, TypeOK
  <2> QED BY <1>3, <2>1, <2>2 DEF QueueInv
<1>4. ASSUME UNCHANGED <<queue, sent, recvd, cnt>>, lpc' = "done" => queue = << >>
      PROVE  QueueInv'
  BY <1>4 DEF QueueInv
<1>5. ASSUME NEW p \in Producers, producer_routine(p) PROVE QueueInv'
  BY <1>1, <1>2, <1>5 DEF producer_routine, Prepare, Lock, EnqueueFail, Unlock,
    evloop_wakeup, TestCompleted, loopVars, history
<1>6. CASE evloop_run
  BY <1>3, <1>4, <1>6 DEF evloop_run, Wait, EpollReturns, SelectReturns, WaitFail, ReadEventfd, WakeLock, Drain,
    DrainDone, WakeUnlock, CheckExit, LoopGoto, history
<1>7. CASE main
  BY <1>3, <1>4, <1>7 DEF main, StoreCompleted, Join, Exhaust, Report, LoopGoto, history
<1> QED BY <1>1, <1>5, <1>6, <1>7 DEF Next, Terminating, vars, loopVars, history

LEMMA QueueInvariance == Spec => []QueueInv
<1>1. Init => QueueInv
  BY DEF Init, QueueInv
<1> QED BY <1>1, Invariance, QueueStep, PTL DEF Spec

\* When the report is printed every message sent has been received, once
\* and in order, and the consumer's count is the number of messages sent.
AllReceived == lpc = "done" => recvd = sent /\ cnt = Len(sent)

THEOREM NothingIsLost == Spec => []AllReceived
<1>1. TypeOK /\ QueueInv => AllReceived
  BY DEF TypeOK, QueueInv, AllReceived
<1> QED BY <1>1, TypeCorrect, QueueInvariance, PTL

\* A producer numbers its messages upwards, and one it is about to enqueue is
\* above all it has sent.
OrderInv ==
  /\ \A i \in DOMAIN sent :
       /\ sent[i][2] <= msg_idx[sent[i][1]]
       /\ pc[sent[i][1]] \in {"lock", "enqueue"} => sent[i][2] < msg_idx[sent[i][1]]
  /\ \A i, j \in DOMAIN sent :
       i < j /\ sent[i][1] = sent[j][1] => sent[i][2] < sent[j][2]

LEMMA OrderStep == IInv /\ OrderInv /\ [Next]_vars => OrderInv'
<1> SUFFICES ASSUME TypeOK, OrderInv, [Next]_vars PROVE OrderInv'
  BY DEF IInv
<1>1. \A i \in DOMAIN sent : sent[i][1] \in Producers /\ sent[i][2] \in Nat
  <2> SUFFICES ASSUME NEW i \in DOMAIN sent
               PROVE  sent[i][1] \in Producers /\ sent[i][2] \in Nat
    OBVIOUS
  <2>1. sent[i] \in Producers \X Nat
    BY DEF TypeOK
  <2> QED BY <2>1
<1>2. CASE UNCHANGED <<sent, msg_idx, pc>>
  BY <1>2 DEF OrderInv
<1>3. ASSUME NEW p \in Producers, UNCHANGED <<sent, msg_idx>>, NEW l, l \notin {"lock", "enqueue"},
             pc' = [pc EXCEPT ![p] = l]
      PROVE  OrderInv'
  BY <1>1, <1>3 DEF OrderInv, TypeOK
<1>4. ASSUME NEW p \in Producers, Prepare(p) PROVE OrderInv'
  <2>1. msg_idx[p] \in Nat /\ msg_idx'[p] = msg_idx[p] + 1 /\ pc[p] = "prepare"
        /\ \A q \in Producers : q # p => msg_idx'[q] = msg_idx[q] /\ pc'[q] = pc[q]
    BY <1>4 DEF Prepare, Goto, TypeOK
  <2>2. sent' = sent
    BY <1>4 DEF Prepare, history
  <2>3. ASSUME NEW i \in DOMAIN sent
        PROVE  /\ sent[i][2] <= msg_idx'[sent[i][1]]
               /\ pc'[sent[i][1]] \in {"lock", "enqueue"} => sent[i][2] < msg_idx'[sent[i][1]]
    <3>1. CASE sent[i][1] = p
      BY <1>1, <2>1, <3>1 DEF OrderInv
    <3>2. CASE sent[i][1] # p
      BY <1>1, <2>1, <3>2 DEF OrderInv
    <3> QED BY <3>1, <3>2
  <2> QED BY <2>2, <2>3 DEF OrderInv
<1>5. ASSUME NEW p \in Producers, Lock(p) PROVE OrderInv'
  BY <1>1, <1>5 DEF Lock, Goto, history, OrderInv, TypeOK
<1>6. ASSUME NEW p \in Producers, Enqueue(p) PROVE OrderInv'
  <2> DEFINE m == <<p, msg_idx[p]>>
             n == Len(sent) + 1
  <2>1. n \in Nat /\ DOMAIN sent = 1 .. (n - 1) /\ DOMAIN sent' = 1 .. n
        /\ sent'[n] = m /\ \A i \in 1 .. (n - 1) : sent'[i] = sent[i]
    BY <1>6 DEF Enqueue, TypeOK
  <2>2. m[1] = p /\ m[2] = msg_idx[p] /\ msg_idx[p] \in Nat
    BY DEF TypeOK
  <2>3. msg_idx' = msg_idx /\ pc[p] = "enqueue" /\ pc' = [pc EXCEPT ![p] = "unlock"]
    BY <1>6 DEF Enqueue, Goto
  <2> HIDE DEF m, n
  <2>4. \A i \in 1 .. (n - 1) : sent[i][1] = p => sent[i][2] < msg_idx[p]
    BY <2>1, <2>3 DEF OrderInv
  <2>5. ASSUME NEW i \in 1 .. n
        PROVE  /\ sent'[i][2] <= msg_idx[sent'[i][1]]
               /\ pc'[sent'[i][1]] \in {"lock", "enqueue"} => sent'[i][2] < msg_idx[sent'[i][1]]
    <3>1. CASE i = n
      BY <2>1, <2>2, <2>3, <3>1 DEF TypeOK
    <3>2. CASE i # n
      <4>1. i \in DOMAIN sent /\ sent'[i] = sent[i]
        BY <2>1, <3>2
      <4>2. \A q \in Producers : pc'[q] = "unlock" \/ pc'[q] = pc[q]
        BY <2>3 DEF TypeOK
      <4> QED BY <1>1, <4>1, <4>2 DEF OrderInv
    <3> QED BY <3>1, <3>2
  <2>6. ASSUME NEW i \in 1 .. n, NEW j \in 1 .. n, i < j, sent'[i][1] = sent'[j][1]
        PROVE  sent'[i][2] < sent'[j][2]
    <3>1. CASE j = n
      BY <2>1, <2>2, <2>4, <2>6, <3>1
    <3>2. CASE j # n
      BY <2>1, <2>6, <3>2 DEF OrderInv
    <3> QED BY <3>1, <3>2
  <2> QED BY <2>1, <2>3, <2>5, <2>6 DEF OrderInv
<1>7. ASSUME NEW p \in Producers, producer_routine(p) PROVE OrderInv'
  BY <1>3, <1>4, <1>5, <1>6, <1>7 DEF producer_routine, EnqueueFail, Unlock,
    evloop_wakeup, TestCompleted, Goto, history
<1>8. CASE evloop_run
  BY <1>2, <1>8 DEF evloop_run, Wait, EpollReturns, SelectReturns, WaitFail, ReadEventfd, WakeLock, Drain, Dequeue,
    DrainDone, WakeUnlock, CheckExit, history, prodVars
<1>9. CASE main
  BY <1>2, <1>9 DEF main, StoreCompleted, Join, Exhaust, Dequeue, Report, history, prodVars
<1> QED BY <1>2, <1>7, <1>8, <1>9 DEF Next, Terminating, vars, prodVars, history

\* A producer's messages are received in the order it sent them, whatever
\* the interleaving of the other producers, on_wakeup and the exhaust loop.
THEOREM FifoHolds == Spec => []FifoPerProducer
<1>1. Init => OrderInv
  <2> SUFFICES ASSUME Init PROVE OrderInv
    OBVIOUS
  <2>1. DOMAIN sent = {}
    BY DEF Init
  <2> QED BY ONLY <2>1, Zenon DEF OrderInv
<1>2. TypeOK /\ QueueInv /\ OrderInv => FifoPerProducer
  <2> SUFFICES ASSUME TypeOK, QueueInv, OrderInv
               PROVE  FifoPerProducer
    OBVIOUS
  <2>1. \A k \in DOMAIN recvd : k \in DOMAIN sent /\ sent[k] = recvd[k]
    BY DEF TypeOK, QueueInv
  <2> QED BY <2>1 DEF OrderInv, FifoPerProducer
<1> QED BY <1>1, <1>2, Invariance, TypeCorrect, QueueInvariance, OrderStep, PTL DEF Spec

====
