--------------------------- MODULE EventPipeProofs ---------------------------
(***************************************************************************)
(* The pipe program implements the eventfd program, for any number of      *)
(* producers, pipe capacity and read size.                                 *)
(***************************************************************************)
EXTENDS EventPipe, TLAPS

\* Who holds ev_pipe->mtx: nobody writes while event_pipe_readall reads.
MutexInv ==
  /\ \A p \in Producers : pc[p] \in {"write", "unlock"} => mtx = p
  /\ cpc \in {"read", "unlock"} => mtx = Main
  /\ cpc = "join" => joined < PRODUCER_NUM
  /\ cpc # "join" => exhausting \/ joined = 0
  /\ exhausting => cpc \notin {"store", "join"}

IInv == TypeOK /\ MutexInv

LEMMA InitIInv == Init => IInv
<1> SUFFICES ASSUME Init PROVE IInv
  OBVIOUS
<1> USE EventPipeAssumption DEF Init
<1>1. TypeOK
  <2>1. pipe \in 0 .. PipeCap /\ joined \in 0 .. PRODUCER_NUM
    BY EventPipeAssumption
  <2>2. pc \in [Producers -> {"prepare"}] /\ msg_idx \in [Producers -> Nat] /\ p_cnt \in [Producers -> Nat]
    OBVIOUS
  <2>3. n \in Nat /\ total_recv \in Nat /\ producer_total_send \in Nat /\ lost \in Nat
    OBVIOUS
  <2>4. exhausting \in BOOLEAN /\ completed \in BOOLEAN
    OBVIOUS
  <2> QED BY <2>1, <2>2, <2>3, <2>4 DEF TypeOK
<1>2. MutexInv
  <2>1. \A p \in Producers : pc[p] \in {"write", "unlock"} => mtx = p
    OBVIOUS
  <2>2. cpc = "lock" /\ ~exhausting /\ joined = 0
    OBVIOUS
  <2> QED BY <2>1, <2>2 DEF MutexInv
<1> QED BY <1>1, <1>2 DEF IInv

LEMMA ChunkType == TypeOK => Chunk \in 0 .. pipe /\ pipe - Chunk \in 0 .. PipeCap
  BY EventPipeAssumption DEF TypeOK, Chunk

LEMMA ProducerStep ==
  ASSUME IInv, NEW p \in Producers, producer_routine(p)
  PROVE  IInv'
<1> USE EventPipeAssumption DEF IInv, TypeOK, MutexInv, Producers, Main, Nobody
<1>1. CASE Prepare(p)
  <2>1. msg_idx' \in [Producers -> Nat]
    BY <1>1 DEF Prepare
  <2> QED BY <1>1, <2>1 DEF Prepare, Goto, mainVars
<1>2. CASE WakeupLock(p)
  BY <1>2 DEF WakeupLock, Goto, mainVars
<1>3. CASE event_pipe_writen(p)
  <2>0. \/ pipe < PipeCap /\ pipe' = pipe + 1 /\ lost' = lost
        \/ pipe' = pipe /\ lost' = lost + 1
    BY ONLY <1>3, Zenon DEF event_pipe_writen
  <2>1. pipe' \in 0 .. PipeCap /\ lost' \in Nat
    BY <2>0
  <2> QED BY <1>3, <2>1 DEF event_pipe_writen, Goto, mainVars
<1>4. CASE WakeupUnlock(p)
  BY <1>4 DEF WakeupUnlock, Goto, mainVars
<1>5. CASE TestCompleted(p)
  BY <1>5 DEF TestCompleted, Goto, mainVars
<1> QED BY <1>1, <1>2, <1>3, <1>4, <1>5 DEF producer_routine

LEMMA MainStep ==
  ASSUME IInv, event_pipe_clearup \/ Count \/ main
  PROVE  IInv'
<1> USE EventPipeAssumption DEF IInv, TypeOK, MutexInv, Producers, Main, Nobody
<1>1. CASE ClearupLock
  BY <1>1 DEF ClearupLock, MainGoto, prodVars
<1>2. CASE event_pipe_readall
  <2>1. pipe' \in 0 .. PipeCap /\ n' \in Nat
    <3>1. Chunk \in 0 .. pipe /\ pipe - Chunk \in 0 .. PipeCap
      BY ChunkType
    <3>2. pipe' = pipe - Chunk /\ n' = n + Chunk
      BY <1>2, Zenon DEF event_pipe_readall
    <3> QED BY <3>1, <3>2
  <2>2. cpc = "read" /\ cpc' \in {"read", "unlock"}
    BY <1>2, Zenon DEF event_pipe_readall, MainGoto
  <2> QED BY <1>2, <2>1, <2>2 DEF event_pipe_readall, prodVars
<1>3. CASE ClearupUnlock
  BY <1>3 DEF ClearupUnlock, MainGoto, prodVars
<1>4. CASE Count
  <2>1. total_recv' \in Nat /\ n' \in Nat
    BY <1>4 DEF Count
  <2>2. cpc' \in {"done", "store", "lock"}
    BY <1>4, Zenon DEF Count, MainGoto
  <2>3. exhausting => cpc' = "done"
    BY <1>4, Zenon DEF Count, MainGoto
  <2> QED BY <1>4, <2>1, <2>2, <2>3 DEF Count, MainGoto, prodVars
<1>5. CASE StoreCompleted
  <2>1. completed' \in BOOLEAN
    BY <1>5, Zenon DEF StoreCompleted
  <2>2. cpc = "store" /\ cpc' = "join" /\ joined' = joined /\ exhausting' = exhausting
    BY <1>5 DEF StoreCompleted, MainGoto
  <2>3. ~exhausting /\ joined = 0
    BY <2>2
  <2>4. ~exhausting' /\ joined' < PRODUCER_NUM
    BY <2>2, <2>3
  <2> QED BY <1>5, <2>1, <2>2, <2>4 DEF StoreCompleted, prodVars
<1>6. CASE Join
  <2>1. joined \in Producers
    BY <1>6 DEF Join
  <2>2. joined' \in 0 .. PRODUCER_NUM /\ producer_total_send' \in Nat
    BY <1>6, <2>1 DEF Join
  <2>3. exhausting' \in BOOLEAN /\ cpc' \in {"lock", "join"}
    BY <1>6, Zenon DEF Join
  <2>4. cpc' = "join" => joined' < PRODUCER_NUM
    <3>1. cpc' = "join" => joined' # PRODUCER_NUM
      BY <1>6, Zenon DEF Join
    <3> QED BY <2>2, <3>1
  <2> QED BY <1>6, <2>2, <2>3, <2>4 DEF Join, prodVars
<1> QED BY <1>1, <1>2, <1>3, <1>4, <1>5, <1>6 DEF event_pipe_clearup, main

THEOREM Invariance == Spec => []IInv
<1>1. IInv /\ [Next]_vars => IInv'
  <2>1. IInv /\ UNCHANGED vars => IInv'
    BY DEF vars, prodVars, mainVars, IInv, TypeOK, MutexInv
  <2> QED BY <2>1, ProducerStep, MainStep DEF Next
<1> QED BY InitIInv, <1>1, PTL DEF Spec

\* Type correctness; the pipe never overflows and is never overdrawn.
THEOREM TypeCorrect == Spec => []TypeOK
  BY Invariance, PTL DEF IInv

-----------------------------------------------------------------------------
(* The refinement.  A producer's step is the same step of EventfdCount, or  *)
(* is invisible; the last read of a clearup is clear_eventfd.               *)

LEMMA RefineInit == Init => EC!Init
  BY DEF Init, EC!Init, abs_pc, abs_evfd, abs_total, abs_cpc, Taken, Producers, EC!Producers

AbsStep == [EC!Next]_(EC!vars)

LEMMA AbsPc ==
  ASSUME TypeOK, NEW p \in Producers, NEW l, pc' = [pc EXCEPT ![p] = l]
  PROVE  abs_pc' = [abs_pc EXCEPT ![p] = IF l \in {"lock", "write"} THEN "write"
                                        ELSE IF l \in {"unlock", "test"} THEN "test" ELSE l]
  BY DEF TypeOK, abs_pc

LEMMA RefineProducer ==
  ASSUME IInv, NEW p \in Producers, producer_routine(p)
  PROVE  AbsStep
<1> USE DEF IInv
<1>0. p \in EC!Producers
  BY DEF EC!Producers, Producers
<1>1. UNCHANGED mainVars
  BY DEF producer_routine, Prepare, WakeupLock, event_pipe_writen, WakeupUnlock, TestCompleted
<1>2. UNCHANGED <<abs_total, abs_cpc, completed, joined, producer_total_send>>
  <2>1. UNCHANGED <<cpc, n, exhausting, total_recv, completed, joined, producer_total_send>>
    BY <1>1 DEF mainVars
  <2>2. abs_total' = abs_total
    BY <2>1, Zenon DEF abs_total, Taken
  <2>3. abs_cpc' = abs_cpc
    BY <2>1, <2>2, Zenon DEF abs_cpc, Taken
  <2> QED BY <2>1, <2>2, <2>3
<1>3. CASE Prepare(p)
  <2>1. abs_pc[p] = "prepare" /\ abs_pc' = [abs_pc EXCEPT ![p] = "write"]
    BY <1>3, AbsPc DEF Prepare, Goto, abs_pc
  <2>2. abs_evfd' = abs_evfd
    BY <1>1, <1>3 DEF Prepare, mainVars, abs_evfd
  <2>3. EC!Prepare(p)
    BY <1>2, <1>3, <2>1, <2>2 DEF Prepare, EC!Prepare, EC!Goto, EC!mainVars
  <2> QED BY <1>0, <2>3 DEF AbsStep, EC!Next, EC!producer_routine
<1>4. CASE WakeupLock(p)
  <2>1. abs_pc' = abs_pc
    BY <1>4 DEF WakeupLock, Goto, abs_pc, TypeOK
  <2>2. abs_evfd' = abs_evfd
    BY <1>1, <1>4 DEF WakeupLock, mainVars, abs_evfd
  <2> QED BY <1>2, <1>4, <2>1, <2>2 DEF WakeupLock, AbsStep, EC!vars, EC!prodVars, EC!mainVars
<1>5. CASE event_pipe_writen(p)
  <2>1. abs_pc[p] = "write" /\ abs_pc' = [abs_pc EXCEPT ![p] = "test"]
    BY <1>5, AbsPc DEF event_pipe_writen, Goto, abs_pc
  <2>2. cpc # "read" /\ cpc' = cpc
    BY <1>1, <1>5 DEF event_pipe_writen, Goto, MutexInv, mainVars, Main, Producers
  <2>3. abs_evfd = pipe /\ abs_evfd' = pipe'
    BY <2>2 DEF abs_evfd
  <2>4. EC!WriteEventfd(p)
    BY <1>2, <1>5, <2>1, <2>3 DEF event_pipe_writen, EC!WriteEventfd, EC!Goto, EC!mainVars
  <2> QED BY <1>0, <2>4 DEF AbsStep, EC!Next, EC!producer_routine
<1>6. CASE WakeupUnlock(p)
  <2>1. abs_pc' = abs_pc
    BY <1>6 DEF WakeupUnlock, Goto, abs_pc, TypeOK
  <2>2. abs_evfd' = abs_evfd
    BY <1>1, <1>6 DEF WakeupUnlock, mainVars, abs_evfd
  <2> QED BY <1>2, <1>6, <2>1, <2>2 DEF WakeupUnlock, AbsStep, EC!vars, EC!prodVars, EC!mainVars
<1>7. CASE TestCompleted(p)
  <2>1. abs_pc[p] = "test"
    BY <1>7 DEF TestCompleted, Goto, abs_pc
  <2>2. abs_evfd' = abs_evfd
    BY <1>1, <1>7 DEF TestCompleted, mainVars, abs_evfd
  <2>3. \/ pc' = [pc EXCEPT ![p] = "exited"] /\ abs_pc' = [abs_pc EXCEPT ![p] = "exited"]
           /\ completed /\ p_cnt' = [p_cnt EXCEPT ![p] = msg_idx[p]]
        \/ pc' = [pc EXCEPT ![p] = "prepare"] /\ abs_pc' = [abs_pc EXCEPT ![p] = "prepare"]
           /\ ~completed /\ msg_idx[p] < MaxMsg /\ p_cnt' = p_cnt
    BY <1>7, AbsPc DEF TestCompleted, Goto
  <2>4. EC!TestCompleted(p)
    BY <1>2, <1>7, <2>1, <2>2, <2>3 DEF TestCompleted, EC!TestCompleted, EC!Goto, EC!mainVars
  <2> QED BY <1>0, <2>4 DEF AbsStep, EC!Next, EC!producer_routine
<1> QED BY <1>3, <1>4, <1>5, <1>6, <1>7 DEF producer_routine

LEMMA RefineMain ==
  ASSUME IInv, event_pipe_clearup \/ Count \/ main
  PROVE  AbsStep
<1> USE DEF IInv
<1>0. UNCHANGED prodVars /\ UNCHANGED lost
  BY DEF event_pipe_clearup, ClearupLock, event_pipe_readall, ClearupUnlock, Count, main,
    StoreCompleted, Join
<1>1. UNCHANGED <<abs_pc, msg_idx, p_cnt, lost>>
  BY <1>0 DEF prodVars, abs_pc
<1>2. CASE ClearupLock
  <2>1. cpc = "lock" /\ cpc' = "read" /\ n' = 0 /\ pipe' = pipe /\ exhausting' = exhausting
        /\ UNCHANGED <<total_recv, completed, joined, producer_total_send>>
    BY <1>2 DEF ClearupLock, MainGoto
  <2>2. abs_evfd' = abs_evfd /\ abs_total' = abs_total
    BY <2>1 DEF abs_evfd, abs_total, Taken, TypeOK
  <2>3. abs_cpc' = abs_cpc
    BY <2>1, Zenon DEF abs_cpc
  <2> QED BY <1>1, <2>1, <2>2, <2>3 DEF AbsStep, EC!vars, EC!prodVars, EC!mainVars
<1>3. CASE event_pipe_readall
  <2>1. cpc = "read" /\ pipe' = pipe - Chunk /\ n' = n + Chunk /\ exhausting' = exhausting
        /\ UNCHANGED <<total_recv, completed, joined, producer_total_send>>
    BY <1>3 DEF event_pipe_readall, MainGoto
  <2>2. CASE Chunk >= BufUnits
    <3>1. cpc' = "read"
      BY <1>3, <2>2, ChunkType, EventPipeAssumption DEF event_pipe_readall, MainGoto, TypeOK
    <3>2. abs_evfd' = abs_evfd /\ abs_total' = abs_total
      BY <2>1, <3>1, ChunkType DEF abs_evfd, abs_total, Taken, TypeOK
    <3>3. abs_cpc' = abs_cpc
      BY <2>1, <3>1, Zenon DEF abs_cpc
    <3> QED BY <1>1, <2>1, <3>2, <3>3 DEF AbsStep, EC!vars, EC!prodVars, EC!mainVars
  <2>3. CASE Chunk < BufUnits
    <3>1. cpc' = "unlock"
      BY <1>3, <2>3 DEF event_pipe_readall, MainGoto
    <3>2. Chunk = pipe
      BY <2>3, EventPipeAssumption DEF Chunk, TypeOK
    <3>3. abs_evfd' = 0 /\ abs_total' = abs_total + abs_evfd
      BY <2>1, <3>1, <3>2 DEF abs_evfd, abs_total, Taken, TypeOK
    <3>4. EC!clear_eventfd
      BY <1>1, <2>1, <3>3 DEF EC!clear_eventfd, EC!prodVars
    <3>5. CASE exhausting
      <4>1. abs_cpc = "exhaust" /\ abs_cpc' = "done"
        BY <2>1, <3>1, <3>5 DEF abs_cpc, Taken
      <4> QED BY <3>4, <4>1 DEF AbsStep, EC!Next, EC!main, EC!Exhaust
    <3>6. CASE ~exhausting
      <4>1. abs_cpc = "clear"
        BY <2>1, <3>6 DEF abs_cpc
      <4>2. abs_cpc' = IF abs_total' >= Limit THEN "store" ELSE "clear"
        BY <2>1, <3>1, <3>6, Zenon DEF abs_cpc, Taken
      <4> QED BY <3>4, <4>1, <4>2 DEF AbsStep, EC!Next, EC!consumer_routine
    <3> QED BY <3>5, <3>6
  <2> QED BY <2>2, <2>3, ChunkType, EventPipeAssumption DEF TypeOK
<1>4. CASE ClearupUnlock
  <2>1. cpc = "unlock" /\ cpc' = "count" /\ n' = n /\ pipe' = pipe /\ exhausting' = exhausting
        /\ UNCHANGED <<total_recv, completed, joined, producer_total_send>>
    BY <1>4 DEF ClearupUnlock, MainGoto
  <2>2. abs_evfd' = abs_evfd /\ abs_total' = abs_total
    BY <2>1 DEF abs_evfd, abs_total, Taken
  <2>3. abs_cpc' = abs_cpc
    BY <2>1, <2>2, Zenon DEF abs_cpc, Taken
  <2> QED BY <1>1, <2>1, <2>2, <2>3 DEF AbsStep, EC!vars, EC!prodVars, EC!mainVars
<1>5. CASE Count
  <2>1. cpc = "count" /\ pipe' = pipe /\ exhausting' = exhausting /\ total_recv' = total_recv + n
        /\ UNCHANGED <<completed, joined, producer_total_send>>
        /\ cpc' = IF exhausting THEN "done" ELSE IF total_recv + n >= Limit THEN "store" ELSE "lock"
    BY <1>5, Zenon DEF Count, MainGoto
  <2>2. abs_total = total_recv + n /\ abs_evfd = pipe
    BY <2>1 DEF abs_evfd, abs_total, Taken
  <2>3. CASE exhausting
    <3>1. cpc' = "done"
      BY <2>1, <2>3
    <3>2. abs_total' = abs_total /\ abs_evfd' = abs_evfd
      BY <2>1, <2>2, <3>1 DEF abs_evfd, abs_total, Taken
    <3>3. abs_cpc' = "done" /\ abs_cpc = "done"
      BY <2>1, <2>3, <3>1 DEF abs_cpc, Taken
    <3> QED BY <1>1, <2>1, <3>2, <3>3 DEF AbsStep, EC!vars, EC!prodVars, EC!mainVars
  <2>4. CASE ~exhausting
    <3>1. cpc' = IF abs_total >= Limit THEN "store" ELSE "lock"
      BY <2>1, <2>2, <2>4
    <3>2. abs_total' = abs_total /\ abs_evfd' = abs_evfd
      BY <2>1, <2>2, <3>1 DEF abs_evfd, abs_total, Taken
    <3>3. abs_cpc = IF abs_total >= Limit THEN "store" ELSE "clear"
      BY <2>1, <2>4, Zenon DEF abs_cpc, Taken
    <3>4. abs_cpc' = abs_cpc
      BY <2>1, <2>4, <3>1, <3>3 DEF abs_cpc, Taken
    <3> QED BY <1>1, <2>1, <3>2, <3>4 DEF AbsStep, EC!vars, EC!prodVars, EC!mainVars
  <2> QED BY <2>3, <2>4
<1>6. CASE StoreCompleted
  <2>1. cpc = "store" /\ cpc' = "join" /\ pipe' = pipe /\ completed' = TRUE
        /\ UNCHANGED <<total_recv, joined, producer_total_send>>
    BY <1>6 DEF StoreCompleted, MainGoto
  <2>2. abs_evfd' = abs_evfd /\ abs_total' = abs_total /\ abs_cpc = "store" /\ abs_cpc' = "join"
    BY <2>1 DEF abs_evfd, abs_total, abs_cpc, Taken
  <2>3. EC!StoreCompleted
    BY <1>1, <2>1, <2>2 DEF EC!StoreCompleted, EC!prodVars
  <2> QED BY <2>3 DEF AbsStep, EC!Next, EC!main
<1>7. CASE Join
  <2>1. cpc = "join" /\ pc[joined] = "exited" /\ joined' = joined + 1 /\ pipe' = pipe
        /\ producer_total_send' = producer_total_send + p_cnt[joined]
        /\ UNCHANGED <<total_recv, completed>>
    BY <1>7 DEF Join
  <2>2. joined \in Producers
    BY <2>1, EventPipeAssumption DEF MutexInv, TypeOK, Producers
  <2>3. abs_pc[joined] = "exited" /\ abs_cpc = "join"
    BY <2>1, <2>2 DEF abs_pc, abs_cpc, Taken
  <2>4. abs_evfd' = abs_evfd /\ abs_total' = abs_total
        /\ abs_cpc' = IF joined' = PRODUCER_NUM THEN "exhaust" ELSE "join"
    <3>1. CASE joined' = PRODUCER_NUM
      <4>1. cpc' = "lock" /\ exhausting'
        BY <1>7, <3>1, Zenon DEF Join
      <4> QED BY <2>1, <3>1, <4>1 DEF abs_evfd, abs_total, abs_cpc, Taken
    <3>2. CASE joined' # PRODUCER_NUM
      <4>1. cpc' = "join"
        BY <1>7, <3>2, Zenon DEF Join
      <4> QED BY <2>1, <3>2, <4>1 DEF abs_evfd, abs_total, abs_cpc, Taken
    <3> QED BY <3>1, <3>2
  <2>5. EC!Join
    BY <1>1, <2>1, <2>3, <2>4 DEF EC!Join, EC!prodVars
  <2> QED BY <2>5 DEF AbsStep, EC!Next, EC!main
<1> QED BY <1>2, <1>3, <1>4, <1>5, <1>6, <1>7 DEF event_pipe_clearup, main

\* Every behaviour of use_pipe is, through the mapping, a behaviour of
\* use_eventfd: the pipe with its mutex is an eventfd whose counter is
\* bounded by the pipe's capacity.
THEOREM PipeImplementsEventfd == Spec => ImplementsEventfd
<1>1. IInv /\ [Next]_vars => AbsStep
  <2>1. IInv /\ UNCHANGED vars => AbsStep
    <3> SUFFICES ASSUME IInv, UNCHANGED vars PROVE AbsStep
      OBVIOUS
    <3>1. UNCHANGED <<pc, msg_idx, p_cnt, pipe, cpc, n, exhausting, total_recv, completed, joined,
                      producer_total_send, lost>>
      BY DEF vars, prodVars, mainVars
    <3>2. abs_pc' = abs_pc /\ abs_evfd' = abs_evfd /\ abs_total' = abs_total
      BY <3>1, Zenon DEF abs_pc, abs_evfd, abs_total, Taken
    <3>3. abs_cpc' = abs_cpc
      BY <3>1, <3>2, Zenon DEF abs_cpc, Taken
    <3> QED BY <3>1, <3>2, <3>3 DEF AbsStep, EC!vars, EC!prodVars, EC!mainVars
  <2> QED BY <2>1, RefineProducer, RefineMain DEF Next
<1> QED BY RefineInit, Invariance, <1>1, PTL DEF Spec, ImplementsEventfd, EC!Spec, AbsStep

====
