---------------------------- MODULE MessageStream ----------------------------
(***************************************************************************)
(* What a receiver of messages promises, whatever the byte stream does:    *)
(* messages are taken in the order they were sent, each once.              *)
(***************************************************************************)
EXTENDS Integers, Sequences

VARIABLES
  sent,   \* messages sent: [good, large]
  taken,  \* how many the receiver has taken
  out,    \* the ones it handed on
  open,   \* the receiver is still reading
  ended   \* the sender's side has ended

Init == sent = <<>> /\ taken = 0 /\ out = <<>> /\ open = TRUE /\ ended = FALSE

Send ==
  /\ open = TRUE /\ ended = FALSE
  /\ \E good, large \in BOOLEAN : sent' = Append(sent, [good |-> good, large |-> large])
  /\ UNCHANGED <<taken, out, open, ended>>

\* the next message is handed on, or dropped if it cannot be decoded, which may
\* end the stream
Take ==
  /\ open /\ taken < Len(sent)
  /\ taken' = taken + 1
  /\ out' = IF sent[taken + 1].good THEN Append(out, taken + 1) ELSE out
  /\ ended' \in {ended, ended \/ ~sent[taken + 1].good}
  /\ UNCHANGED <<sent, open>>

\* only at the end, or in front of a message over the limit
Close ==
  /\ open /\ open' = FALSE
  /\ ended \/ (taken < Len(sent) /\ sent[taken + 1].large)
  /\ UNCHANGED <<sent, taken, out, ended>>

End == ~ended /\ ended' = TRUE /\ UNCHANGED <<sent, taken, out, open>>

\* a new connection: what was sent on the old one and not taken is gone
Renew ==
  /\ ended /\ ended' = FALSE /\ open
  /\ sent' = SubSeq(sent, 1, taken)
  /\ UNCHANGED <<taken, out, open>>

Next == Send \/ Take \/ Close \/ End \/ Renew

Spec == Init /\ [][Next]_<<sent, taken, out, open, ended>>
====
