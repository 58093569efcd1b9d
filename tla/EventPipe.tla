------------------------------ MODULE EventPipe ------------------------------
(***************************************************************************)
(* The program use_pipe over event_pipe: a non-blocking pipe imitates an   *)
(* eventfd.  A notification is one 8-byte unit; event_pipe_wakeup writes   *)
(* one and event_pipe_clearup reads them all, both under ev_pipe->mtx.     *)
(*                                                                         *)
(* Sources: play/c/event_loop/example_linux/pipe/event_pipe.c, use_pipe.c  *)
(* A write of one unit is below PIPE_BUF, hence whole or refused.  A call  *)
(* interrupted by a signal (EINTR) is repeated, which changes nothing.     *)
(***************************************************************************)
EXTENDS Integers

CONSTANTS
  PRODUCER_NUM,  \* number of producer threads (16 in the code)
  Limit,         \* notifications after which the consumer stops (512)
  PipeCap,       \* units the pipe holds (8192)
  BufUnits,      \* units one read of event_pipe_readall takes (128)
  MaxMsg         \* bound: notifications one producer prepares

ASSUME EventPipeAssumption ==
  /\ PRODUCER_NUM \in Nat \ {0} /\ Limit \in Nat \ {0} /\ PipeCap \in Nat \ {0}
  /\ BufUnits \in Nat \ {0} /\ MaxMsg \in Nat \ {0}

Producers == 0 .. (PRODUCER_NUM - 1)

Main   == -1    \* main's thread, in consumer_routine and after it
Nobody == -2    \* ev_pipe->mtx is free

VARIABLES
  pc, msg_idx, p_cnt,   \* per producer, as in EventfdCount
  mtx,                  \* holder of ev_pipe->mtx
  pipe,                 \* units in the pipe
  cpc,                  \* where the main thread is
  n,                    \* units read by the current event_pipe_clearup
  exhausting,           \* main has joined the producers and clears up last
  total_recv, completed, joined, producer_total_send,
  lost                  \* history: writes refused because the pipe was full

prodVars == <<pc, msg_idx, p_cnt>>
mainVars == <<cpc, n, exhausting, total_recv, completed, joined, producer_total_send>>
vars == <<prodVars, mtx, pipe, mainVars, lost>>

Init ==
  /\ pc = [p \in Producers |-> "prepare"]
  /\ msg_idx = [p \in Producers |-> 0]
  /\ p_cnt = [p \in Producers |-> 0]
  /\ mtx = Nobody /\ pipe = 0
  /\ cpc = "lock" /\ n = 0 /\ exhausting = FALSE
  /\ total_recv = 0 /\ completed = FALSE /\ joined = 0 /\ producer_total_send = 0
  /\ lost = 0

Goto(p, from, to) == pc[p] = from /\ pc' = [pc EXCEPT ![p] = to]
MainGoto(from, to) == cpc = from /\ cpc' = to

-----------------------------------------------------------------------------
(* producer_routine and event_pipe_wakeup *)

Prepare(p) ==
  /\ Goto(p, "prepare", "lock")
  /\ msg_idx' = [msg_idx EXCEPT ![p] = @ + 1]
  /\ UNCHANGED <<p_cnt, mtx, pipe, mainVars, lost>>

WakeupLock(p) ==
  /\ Goto(p, "lock", "write")
  /\ mtx = Nobody /\ mtx' = p
  /\ UNCHANGED <<msg_idx, p_cnt, pipe, mainVars, lost>>

\* a full pipe gives EAGAIN: the wakeup fails and the producer ignores it
event_pipe_writen(p) ==
  /\ Goto(p, "write", "unlock")
  /\ \/ pipe < PipeCap /\ pipe' = pipe + 1 /\ UNCHANGED lost
     \/ pipe = PipeCap /\ lost' = lost + 1 /\ UNCHANGED pipe
  /\ UNCHANGED <<msg_idx, p_cnt, mtx, mainVars>>

\* Mutant of WakeupUnlock: returns without unlocking
WakeupNoUnlock(p) ==
  /\ Goto(p, "unlock", "test")
  /\ UNCHANGED <<msg_idx, p_cnt, mtx, pipe, mainVars, lost>>

WakeupUnlock(p) ==
  /\ Goto(p, "unlock", "test")
  /\ mtx' = Nobody
  /\ UNCHANGED <<msg_idx, p_cnt, pipe, mainVars, lost>>

\* MaxMsg bounds the model: the last iteration waits for completed
TestCompleted(p) ==
  /\ \/ /\ completed
        /\ Goto(p, "test", "exited")
        /\ p_cnt' = [p_cnt EXCEPT ![p] = msg_idx[p]]
     \/ /\ ~completed
        /\ msg_idx[p] < MaxMsg
        /\ Goto(p, "test", "prepare")
        /\ UNCHANGED p_cnt
  /\ UNCHANGED <<msg_idx, mtx, pipe, mainVars, lost>>

producer_routine(p) ==
  Prepare(p) \/ WakeupLock(p) \/ event_pipe_writen(p) \/ WakeupUnlock(p) \/ TestCompleted(p)

-----------------------------------------------------------------------------
(* event_pipe_clearup, called by consumer_routine and at the end of main *)

\* Mutant of ClearupLock: reads without the mutex
ClearupNoLock ==
  /\ MainGoto("lock", "read")
  /\ n' = 0
  /\ UNCHANGED <<prodVars, mtx, pipe, exhausting, total_recv, completed, joined,
                 producer_total_send, lost>>

ClearupLock ==
  /\ MainGoto("lock", "read")
  /\ mtx = Nobody /\ mtx' = Main
  /\ n' = 0
  /\ UNCHANGED <<prodVars, pipe, exhausting, total_recv, completed, joined,
                 producer_total_send, lost>>

Chunk == IF pipe < BufUnits THEN pipe ELSE BufUnits

\* Mutant of event_pipe_readall: one read only
ReadOnce ==
  /\ MainGoto("read", "unlock")
  /\ pipe' = pipe - Chunk
  /\ n' = n + Chunk
  /\ UNCHANGED <<prodVars, mtx, exhausting, total_recv, completed, joined,
                 producer_total_send, lost>>

\* one read: nothing (EAGAIN) or a short read ends the loop
event_pipe_readall ==
  /\ MainGoto("read", IF Chunk < BufUnits THEN "unlock" ELSE "read")
  /\ pipe' = pipe - Chunk
  /\ n' = n + Chunk
  /\ UNCHANGED <<prodVars, mtx, exhausting, total_recv, completed, joined,
                 producer_total_send, lost>>

ClearupUnlock ==
  /\ MainGoto("unlock", "count")
  /\ mtx' = Nobody
  /\ UNCHANGED <<prodVars, pipe, n, exhausting, total_recv, completed, joined,
                 producer_total_send, lost>>

event_pipe_clearup == ClearupLock \/ event_pipe_readall \/ ClearupUnlock

\* what consumer_routine does with the count, and what main does
Count ==
  /\ MainGoto("count", IF exhausting THEN "done"
                       ELSE IF total_recv + n >= Limit THEN "store" ELSE "lock")
  /\ total_recv' = total_recv + n
  /\ n' = 0
  /\ UNCHANGED <<prodVars, mtx, pipe, exhausting, completed, joined, producer_total_send, lost>>

StoreCompleted ==
  /\ MainGoto("store", "join")
  /\ completed' = TRUE
  /\ UNCHANGED <<prodVars, mtx, pipe, n, exhausting, total_recv, joined,
                 producer_total_send, lost>>

Join ==
  /\ cpc = "join"
  /\ pc[joined] = "exited"
  /\ producer_total_send' = producer_total_send + p_cnt[joined]
  /\ joined' = joined + 1
  /\ exhausting' = (joined' = PRODUCER_NUM)
  /\ cpc' = IF exhausting' THEN "lock" ELSE "join"
  /\ UNCHANGED <<prodVars, mtx, pipe, n, total_recv, completed, lost>>

main == StoreCompleted \/ Join

Next ==
  \/ \E p \in Producers : producer_routine(p)
  \/ event_pipe_clearup \/ Count
  \/ main

Spec == Init /\ [][Next]_vars

\* Every thread keeps being scheduled.  The consumer releases and retakes the
\* mutex forever, so a producer needs a mutex that does not starve it: the
\* consumer sleeps 500 ms between two clearups.
Fairness ==
  /\ \A p \in Producers : WF_vars(producer_routine(p)) /\ SF_vars(WakeupLock(p))
  /\ WF_vars(event_pipe_clearup \/ Count \/ main)

FairSpec == Spec /\ Fairness

-----------------------------------------------------------------------------
\* Type invariant; the pipe never holds more than its capacity and
\* event_pipe_readall never takes more than there is.
TypeOK ==
  /\ pc \in [Producers -> {"prepare", "lock", "write", "unlock", "test", "exited"}]
  /\ msg_idx \in [Producers -> Nat]
  /\ p_cnt \in [Producers -> Nat]
  /\ mtx \in Producers \cup {Main, Nobody}
  /\ pipe \in 0 .. PipeCap
  /\ cpc \in {"lock", "read", "unlock", "count", "store", "join", "done"}
  /\ n \in Nat /\ exhausting \in BOOLEAN
  /\ total_recv \in Nat
  /\ completed \in BOOLEAN /\ joined \in 0 .. PRODUCER_NUM /\ producer_total_send \in Nat
  /\ lost \in Nat

\* The two totals main reports differ by the refused wakeups only.
ReportMatches == cpc = "done" => producer_total_send = total_recv + lost

\* The eventfd program this one imitates: the counter is what is in the pipe
\* and what the running event_pipe_readall has taken out of it; a clearup
\* takes effect with its last read.
Taken == cpc \in {"unlock", "count"}

abs_pc ==
  [p \in Producers |-> IF pc[p] \in {"lock", "write"} THEN "write"
                       ELSE IF pc[p] \in {"unlock", "test"} THEN "test" ELSE pc[p]]
abs_evfd  == IF cpc = "read" THEN pipe + n ELSE pipe
abs_total == IF Taken THEN total_recv + n ELSE total_recv
abs_cpc ==
  IF cpc \in {"lock", "read"} THEN IF exhausting THEN "exhaust" ELSE "clear"
  ELSE IF ~Taken THEN cpc
  ELSE IF exhausting THEN "done"
  ELSE IF abs_total >= Limit THEN "store" ELSE "clear"

EC == INSTANCE EventfdCount WITH
  EventfdMax <- PipeCap, pc <- abs_pc, evfd <- abs_evfd, total_recv <- abs_total, cpc <- abs_cpc

\* The pipe imitates an eventfd (readme.md: the pipe is used to imitate the
\* notification effect of eventfd): the mutex makes the chunked read of
\* event_pipe_readall one atomic clear, and a full pipe behaves as a full
\* counter.
ImplementsEventfd == EC!Spec

\* The mutex and the chunked reads starve nobody whom the eventfd program
\* does not: a producer's wakeup, the consumer's clearup and main's steps all
\* take effect in the end.
KeepsEventfdFairness == EC!Fairness

====
