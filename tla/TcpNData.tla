------------------------------- MODULE TcpNData -------------------------------
(***************************************************************************)
(* tcp_n_data: a client sends N separate buffers over TCP in one of five   *)
(* ways and counts what the server echoes.                                 *)
(*                                                                         *)
(* Source: play/c/tcp_n_data/src (snd_method.c, cli.c, serv.c, data.c).    *)
(* The client's event loop counts echoed bytes while a sender thread       *)
(* writes; the server's loop echoes.  A socket takes as many bytes of a    *)
(* write as its buffer has room for; muggle_socket_* are external.  The    *)
(* bytes of the N buffers are numbered in order, so that the contents of a *)
(* buffer are the numbers of its bytes.                                    *)
(***************************************************************************)
EXTENDS Integers, Sequences, SequencesExt

CONSTANTS
  N,         \* buffers: cfg->n
  D,         \* sizeof(data_t)
  Mss,       \* TCP_MAXSEG
  MaxIovcnt, \* max_iovcnt
  SndBuf,    \* bytes a connection holds in one direction
  RcvBuf     \* sizeof(buf) of the message handlers

total_data_nbytes == N * D
Bytes == [i \in 1 .. total_data_nbytes |-> i]

VARIABLES
  method,    \* cfg->method
  calls,     \* writes still to be made: each a sequence of pieces [from, len]
  iov,       \* the pieces of the write that is running, as it has changed them
  offset,    \* block_writev: the first piece that is not all sent
  sent,      \* total_snd_bytes of that write
  sender,    \* the sender thread: "ready", "write" or "done"
  c2s, s2c,  \* bytes in flight
  echo,      \* what serv_on_message has read and not written back
  rcv,       \* bytes the client has received, in order
  client,    \* the client's loop: "idle", "read", "join", "reported", "released"
  ref,       \* references to the client's socket context
  up         \* the connection

vars == <<method, calls, iov, offset, sent, sender, c2s, s2c, echo, rcv, client, ref, up>>
senderVars == <<method, calls, iov, offset, sent, sender>>

Least(a, b) == IF a < b THEN a ELSE b

-----------------------------------------------------------------------------
(* the writes each method makes *)

\* pieces of size n, the last one shorter
Pieces(n) ==
  [i \in 1 .. (total_data_nbytes + n - 1) \div n |->
     [from |-> (i - 1) * n, len |-> Least(n, total_data_nbytes - (i - 1) * n)]]

\* batches of at most MaxIovcnt pieces
Batches(pieces) ==
  [b \in 1 .. (Len(pieces) + MaxIovcnt - 1) \div MaxIovcnt |->
     SubSeq(pieces, (b - 1) * MaxIovcnt + 1, Least(b * MaxIovcnt, Len(pieces)))]

method_write == [i \in 1 .. N |-> <<[from |-> (i - 1) * D, len |-> D]>>]

\* full batches first, then what remains
method_writev ==
  LET pieces == [i \in 1 .. N |-> [from |-> (i - 1) * D, len |-> D]]
      n_batch == N \div MaxIovcnt
      full == [b \in 1 .. n_batch |-> SubSeq(pieces, (b - 1) * MaxIovcnt + 1, b * MaxIovcnt)]
  IN IF N % MaxIovcnt > 0
       THEN Append(full, SubSeq(pieces, n_batch * MaxIovcnt + 1, N))
       ELSE full

method_big_write == << <<[from |-> 0, len |-> total_data_nbytes]>> >>
method_assemble_write == [i \in 1 .. Len(Pieces(Mss)) |-> <<Pieces(Mss)[i]>>]
method_assemble_writev == Batches(Pieces(Mss))

Methods == [write |-> method_write, writev |-> method_writev,
            big_write |-> method_big_write,
            assemble_write |-> method_assemble_write,
            assemble_writev |-> method_assemble_writev]

-----------------------------------------------------------------------------
\* Mutant of client_on_add_ctx: the sender does not retain the context
AddsUnretained == /\ method \in DOMAIN Methods /\ sender = "ready" /\ ref = 1

\* the connection was added to the client's loop: the context has the loop's
\* reference and one for the sender thread, which starts
client_on_add_ctx == /\ method \in DOMAIN Methods /\ sender = "ready" /\ ref = 2

Init ==
  /\ client_on_add_ctx
  /\ calls = <<>> /\ iov = <<>> /\ offset = 1 /\ sent = 0
  /\ c2s = <<>> /\ s2c = <<>> /\ echo = <<>> /\ rcv = <<>>
  /\ client = "idle" /\ up = TRUE

\* snd_data_thread_routine picks the method
snd_data_thread_routine ==
  /\ sender = "ready" /\ sender' = "write"
  /\ calls' = Methods[method]
  /\ UNCHANGED <<method, iov, offset, sent, c2s, s2c, echo, rcv, client, ref, up>>

\* the next write, or the end of the thread
NextWrite ==
  /\ sender = "write" /\ iov = <<>>
  /\ IF calls = <<>>
       THEN sender' = "done" /\ UNCHANGED <<calls, iov, offset, sent>>
       ELSE /\ iov' = Head(calls) /\ calls' = Tail(calls)
            /\ offset' = 1 /\ sent' = 0
            /\ UNCHANGED sender
  /\ UNCHANGED <<method, c2s, s2c, echo, rcv, client, ref, up>>

\* what a write from piece o on puts on the wire
Contents(v, o) ==
  FlattenSeq([i \in 1 .. Len(v) - o + 1 |->
                [k \in 1 .. v[o + i - 1].len |-> v[o + i - 1].from + k]])

\* bytes of the first n pieces from o on
Length(v, o, n) == Len(Contents(SubSeq(v, 1, o + n - 1), o))

\* how many pieces from o on m bytes cover
Covered(v, o, m) ==
  CHOOSE n \in 0 .. Len(v) - o + 1 :
    /\ Length(v, o, n) <= m
    /\ n < Len(v) - o + 1 => Length(v, o, n + 1) > m

\* Mutant of Advance: a piece partly sent is sent again from its start
NotTrimmed(v, o, m) == v

\* block_writev, the pieces after a write of m bytes: those covered are passed
\* over, the next one loses what was sent of it
Advance(v, o, m) ==
  LET n == Covered(v, o, m)
      rest == m - Length(v, o, n)
  IN [i \in 1 .. Len(v) |->
        IF i = o + n
          THEN [from |-> v[i].from + rest, len |-> v[i].len - rest]
          ELSE v[i]]

\* muggle_socket_writev takes m bytes; block_writev goes on until all are sent
\* (muggle_socket_block_write does the same for one piece)
block_writev ==
  /\ sender = "write" /\ iov # <<>> /\ up
  /\ \E m \in 1 .. SndBuf - Len(c2s) :
       /\ m <= Len(Contents(iov, offset))
       /\ c2s' = c2s \o SubSeq(Contents(iov, offset), 1, m)
       /\ IF m = Len(Contents(iov, offset))
            THEN iov' = <<>> /\ offset' = 1 /\ sent' = 0
            ELSE /\ iov' = Advance(iov, offset, m)
                 /\ offset' = offset + Covered(iov, offset, m)
                 /\ sent' = sent + m
  /\ UNCHANGED <<method, calls, sender, s2c, echo, rcv, client, ref, up>>

\* any error but a full buffer gives the write up; the method goes on with the
\* next one
WriteFails ==
  /\ sender = "write" /\ iov # <<>> /\ ~up
  /\ iov' = <<>> /\ offset' = 1 /\ sent' = 0
  /\ UNCHANGED <<method, calls, sender, c2s, s2c, echo, rcv, client, ref, up>>

\* Mutant of serv_on_message: a partial write of the echo is not repeated
EchoOnce ==
  \/ /\ echo = <<>> /\ up /\ c2s # <<>>
     /\ \E m \in 1 .. Least(RcvBuf, Len(c2s)) :
          echo' = SubSeq(c2s, 1, m) /\ c2s' = SubSeq(c2s, m + 1, Len(c2s))
     /\ UNCHANGED s2c
  \/ /\ echo # <<>> /\ up
     /\ \E m \in 1 .. SndBuf - Len(s2c) :
          /\ m <= Len(echo)
          /\ s2c' = s2c \o SubSeq(echo, 1, m) /\ echo' = <<>>
     /\ UNCHANGED c2s

\* serv_on_message: read what is there, write all of it back, read again
serv_on_message ==
  \/ /\ echo = <<>> /\ up /\ c2s # <<>>
     /\ \E m \in 1 .. Least(RcvBuf, Len(c2s)) :
          echo' = SubSeq(c2s, 1, m) /\ c2s' = SubSeq(c2s, m + 1, Len(c2s))
     /\ UNCHANGED s2c
  \/ /\ echo # <<>> /\ up
     /\ \E m \in 1 .. SndBuf - Len(s2c) :
          /\ m <= Len(echo)
          /\ s2c' = s2c \o SubSeq(echo, 1, m) /\ echo' = SubSeq(echo, m + 1, Len(echo))
     /\ UNCHANGED c2s

Server == serv_on_message /\ UNCHANGED <<senderVars, rcv, client, ref, up>>

\* client_on_message reads until nothing is there ...
client_on_message ==
  /\ client \in {"idle", "read"} /\ s2c # <<>> /\ up
  /\ \E m \in 1 .. Least(RcvBuf, Len(s2c)) :
       rcv' = rcv \o SubSeq(s2c, 1, m) /\ s2c' = SubSeq(s2c, m + 1, Len(s2c))
  /\ client' = "read"
  /\ UNCHANGED <<senderVars, c2s, echo, ref, up>>

\* ... and, when everything is back, joins the sender
AllReceived ==
  /\ client = "read" /\ s2c = <<>>
  /\ client' = IF Len(rcv) = total_data_nbytes THEN "join" ELSE "idle"
  /\ UNCHANGED <<senderVars, c2s, s2c, echo, rcv, ref, up>>

\* then reads both of the sender's times
Joined == client = "join" /\ sender = "done" /\ client' = "reported"
Report == Joined /\ UNCHANGED <<senderVars, c2s, s2c, echo, rcv, ref, up>>

\* the connection breaks; nothing in flight arrives
Breaks ==
  /\ up /\ up' = FALSE
  /\ c2s' = <<>> /\ s2c' = <<>> /\ echo' = <<>>
  /\ UNCHANGED <<senderVars, rcv, client, ref>>

\* the loop closes the context and drops its reference; the last one releases
\* it.  The sender never drops its own
client_on_close ==
  /\ ~up /\ client \in {"idle", "reported"}
  /\ ref' = ref - 1
  /\ client' = "released"
  /\ UNCHANGED <<senderVars, c2s, s2c, echo, rcv, up>>

Next ==
  \/ snd_data_thread_routine \/ NextWrite \/ block_writev \/ WriteFails
  \/ Server
  \/ client_on_message \/ AllReceived \/ Report \/ client_on_close
  \/ Breaks

Spec == Init /\ [][Next]_vars

\* The sender thread and both event loops keep running.
FairSpec ==
  /\ Spec
  /\ WF_vars(snd_data_thread_routine \/ NextWrite \/ block_writev \/ WriteFails)
  /\ WF_vars(Server)
  /\ WF_vars(client_on_message \/ AllReceived \/ Report \/ client_on_close)

-----------------------------------------------------------------------------
\* Whatever the method and however the writes are cut, what has left the
\* sender is the beginning of the N buffers in order, no byte lost, repeated
\* or overtaken on its way through the echo (block_writev's trimming of the
\* pieces, the batches, the server's loop).
StreamKept ==
  up => LET through == rcv \o s2c \o echo \o c2s
        IN through = SubSeq(Bytes, 1, Len(through))

\* If the connection stays up the client gets everything back and reports,
\* and the sender thread ends in any case: neither blocking write can stop
\* the other for good.
Completes == <>(client = "reported" \/ ~up) /\ <>(sender = "done")

\* The times are read after the sender has set them: a report follows the
\* end of the last write.
ReportAfterSend == client = "reported" => sender = "done" /\ calls = <<>>

\* The context lives as long as the sender thread uses it, whenever the loop
\* closes it.
ContextAlive == sender # "done" => ref > 0
====
