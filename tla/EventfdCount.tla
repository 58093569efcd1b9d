---------------------------- MODULE EventfdCount ----------------------------
(***************************************************************************)
(* The program use_eventfd: producers notify through a non-blocking        *)
(* eventfd, a consumer polls it until it has counted Limit notifications,  *)
(* then main joins the producers, clears the eventfd once more and reports *)
(* both totals.                                                            *)
(*                                                                         *)
(* Source: play/c/event_loop/example_linux/eventfd/use_eventfd.c           *)
(* EventPipe is shown to implement this specification.                     *)
(***************************************************************************)
EXTENDS Integers

CONSTANTS
  PRODUCER_NUM,  \* number of producer threads (16 in the code)
  Limit,         \* notifications after which the consumer stops (512)
  EventfdMax,    \* largest value of the counter (2^64 - 2)
  MaxMsg         \* bound: notifications one producer prepares

Producers == 0 .. (PRODUCER_NUM - 1)

VARIABLES
  pc,         \* per producer: where it is in producer_routine
  msg_idx,    \* per producer: the local msg_idx
  p_cnt,      \* per producer: thread_args_t.cnt, written on exit
  evfd,       \* counter of the eventfd
  cpc,        \* where the main thread is
  total_recv,
  completed,
  joined,     \* number of producers main has joined
  producer_total_send,
  lost        \* history: writes refused because the counter was full

prodVars == <<pc, msg_idx, p_cnt>>
mainVars == <<cpc, total_recv, completed, joined, producer_total_send>>
vars == <<prodVars, evfd, mainVars, lost>>

Init ==
  /\ pc = [p \in Producers |-> "prepare"]
  /\ msg_idx = [p \in Producers |-> 0]
  /\ p_cnt = [p \in Producers |-> 0]
  /\ evfd = 0
  /\ cpc = "clear" /\ total_recv = 0
  /\ completed = FALSE /\ joined = 0 /\ producer_total_send = 0
  /\ lost = 0

Goto(p, from, to) == pc[p] = from /\ pc' = [pc EXCEPT ![p] = to]

Prepare(p) ==
  /\ Goto(p, "prepare", "write")
  /\ msg_idx' = [msg_idx EXCEPT ![p] = @ + 1]
  /\ UNCHANGED <<p_cnt, evfd, mainVars, lost>>

\* a write that would overflow the counter fails and is only logged
WriteEventfd(p) ==
  /\ Goto(p, "write", "test")
  /\ \/ evfd < EventfdMax /\ evfd' = evfd + 1 /\ UNCHANGED lost
     \/ evfd = EventfdMax /\ lost' = lost + 1 /\ UNCHANGED evfd
  /\ UNCHANGED <<msg_idx, p_cnt, mainVars>>

\* MaxMsg bounds the model: the last iteration waits for completed
TestCompleted(p) ==
  /\ \/ /\ completed
        /\ Goto(p, "test", "exited")
        /\ p_cnt' = [p_cnt EXCEPT ![p] = msg_idx[p]]
     \/ /\ ~completed
        /\ msg_idx[p] < MaxMsg
        /\ Goto(p, "test", "prepare")
        /\ UNCHANGED p_cnt
  /\ UNCHANGED <<msg_idx, evfd, mainVars, lost>>

producer_routine(p) == Prepare(p) \/ WriteEventfd(p) \/ TestCompleted(p)

\* read the counter, which resets it; an empty one gives EAGAIN and counts 0
clear_eventfd ==
  /\ total_recv' = total_recv + evfd
  /\ evfd' = 0
  /\ UNCHANGED <<prodVars, completed, joined, producer_total_send, lost>>

consumer_routine ==
  /\ cpc = "clear"
  /\ clear_eventfd
  /\ cpc' = IF total_recv' >= Limit THEN "store" ELSE "clear"

StoreCompleted ==
  /\ cpc = "store" /\ cpc' = "join"
  /\ completed' = TRUE
  /\ UNCHANGED <<prodVars, evfd, total_recv, joined, producer_total_send, lost>>

Join ==
  /\ cpc = "join"
  /\ pc[joined] = "exited"
  /\ producer_total_send' = producer_total_send + p_cnt[joined]
  /\ joined' = joined + 1
  /\ cpc' = IF joined' = PRODUCER_NUM THEN "exhaust" ELSE "join"
  /\ UNCHANGED <<prodVars, evfd, total_recv, completed, lost>>

Exhaust == cpc = "exhaust" /\ clear_eventfd /\ cpc' = "done"

main == StoreCompleted \/ Join \/ Exhaust

Next == (\E p \in Producers : producer_routine(p)) \/ consumer_routine \/ main

Spec == Init /\ [][Next]_vars

\* every thread keeps being scheduled
Fairness ==
  /\ \A p \in Producers : WF_vars(producer_routine(p))
  /\ WF_vars(consumer_routine) /\ WF_vars(main)

====
