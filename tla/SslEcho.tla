------------------------------- MODULE SslEcho -------------------------------
(***************************************************************************)
(* TLS over a non-blocking event loop: the echo servers of use_openssl     *)
(* (ssl01_echo) and use_wolfssl (example_ssl01_echo_serv) and the clients  *)
(* that send them a message every time their timer fires and connect again *)
(* when they lose the connection (ssl01_echo, example_ssl02_timer_client). *)
(*                                                                         *)
(* A connection carries records: the handshake's "hello", "flight" and     *)
(* "fin" and messages, "short" or "long".  External: the event loop calls  *)
(* on_message once for what has arrived since the last call (an edge), so  *)
(* a handler has to read until nothing is left; the TLS library answers    *)
(* "want read" when the record it needs is not there.  A refused handshake *)
(* or a failing write shuts the connection down, as a broken network does. *)
(* At the end of a connection the loop calls on_message until the context  *)
(* is closed; wolfSSL_read then fails or, when the other side has closed   *)
(* or reset the connection, returns 0.                                     *)
(***************************************************************************)
EXTENDS Naturals, Sequences, FiniteSets

CONSTANTS
  SslKinds,    \* the programs of the run: "openssl", "wolfssl"
  SslConns,    \* bound: connections the client makes
  SslMessages, \* bound: messages it sends on each
  SslFaults    \* bound: sessions that cannot be created

VARIABLES
  kind,       \* which pair of programs
  connecting, \* threads of conn_thread_routine
  cur,        \* the context the timer uses, 0 for NULL
  cctx, sctx, \* per connection: "off", "queued", "on", "closing" or "gone"
  cstep,      \* the client's handshake: 0, 1 (hello sent) or 2 (established)
  sstep,      \* the server's: 0, 1 (flight sent) or 2 (established)
  cbuf, sbuf, \* records a side has yet to read
  cedge,      \* connections with something new for the client
  sedge,      \* and for the server
  bare,       \* <<side, connection>> whose session could not be created
  down,       \* connections broken or shut down
  loop,       \* each side's event loop: "runs", "spins" or "aborted"
  faults,     \* sessions that may still fail
  sent, got   \* messages sent and received by the client

clientVars == <<connecting, cur, cctx, cstep, cbuf, cedge, sent, got>>
serverVars == <<sctx, sstep, sbuf, sedge>>
vars == <<kind, clientVars, serverVars, bare, down, faults, loop>>

Conns == 1 .. SslConns
Messages == {"short", "long"}

Init ==
  /\ kind \in SslKinds /\ connecting = 1 /\ cur = 0
  /\ cctx = [c \in Conns |-> "off"] /\ sctx = [c \in Conns |-> "off"]
  /\ cstep = [c \in Conns |-> 0] /\ sstep = [c \in Conns |-> 0]
  /\ cbuf = [c \in Conns |-> <<>>] /\ sbuf = [c \in Conns |-> <<>>]
  /\ cedge = {} /\ sedge = {} /\ bare = {} /\ down = {} /\ faults = SslFaults
  /\ loop = [side \in {"client", "server"} |-> "runs"]
  /\ sent = [c \in Conns |-> <<>>] /\ got = [c \in Conns |-> <<>>]

-----------------------------------------------------------------------------
(* the handshake: how far it gets with the records that are there *)

ClientShake(step, buf) ==
  LET flight == buf # <<>> /\ Head(buf) = "flight"
  IN [step |-> IF flight THEN 2 ELSE 1,
      buf  |-> IF flight THEN Tail(buf) ELSE buf,
      out  |-> (IF step = 0 THEN <<"hello">> ELSE <<>>) \o (IF flight THEN <<"fin">> ELSE <<>>)]

ServerShake(step, buf) ==
  LET hello == step = 0 /\ buf # <<>> /\ Head(buf) = "hello"
      after == IF hello THEN Tail(buf) ELSE buf
      fin == (hello \/ step = 1) /\ after # <<>> /\ Head(after) = "fin"
  IN [step |-> IF fin THEN 2 ELSE IF hello THEN 1 ELSE step,
      buf  |-> IF fin THEN Tail(after) ELSE after,
      out  |-> IF hello THEN <<"flight">> ELSE <<>>]

Done(buf) == [step |-> 2, buf |-> buf, out |-> <<>>]

\* ssl_session_connect and ssl_session_accept do nothing once established
ssl_session_connect(c) == IF cstep[c] = 2 THEN Done(cbuf[c]) ELSE ClientShake(cstep[c], cbuf[c])
ssl_session_accept(c) == IF sstep[c] = 2 THEN Done(sbuf[c]) ELSE ServerShake(sstep[c], sbuf[c])

\* do_ssl_connect and do_ssl_accept, called only until then
do_ssl_connect(c) == IF cstep[c] = 2 THEN Done(cbuf[c]) ELSE ClientShake(cstep[c], cbuf[c])
do_ssl_accept(c) == IF sstep[c] = 2 THEN Done(sbuf[c]) ELSE ServerShake(sstep[c], sbuf[c])

\* records for the other side, lost when the connection is down
ToServer(c, rs) ==
  /\ sbuf' = IF c \in down THEN sbuf ELSE [sbuf EXCEPT ![c] = @ \o rs]
  /\ sedge' = IF rs = <<>> \/ c \in down THEN sedge ELSE sedge \cup {c}

ToClient(c, rs) ==
  /\ cbuf' = IF c \in down THEN cbuf ELSE [cbuf EXCEPT ![c] = @ \o rs]
  /\ cedge' = IF rs = <<>> \/ c \in down THEN cedge ELSE cedge \cup {c}

-----------------------------------------------------------------------------
(* the client *)

\* conn_thread_routine tries until it is connected, adds the context, ends
conn_thread_routine ==
  /\ loop["client"] # "aborted" /\ loop["server"] # "aborted"
  /\ connecting > 0 /\ connecting' = connecting - 1
  /\ \E c \in Conns :
       /\ cctx[c] = "off" /\ \A d \in 1 .. (c - 1) : cctx[d] # "off"
       /\ cctx' = [cctx EXCEPT ![c] = "queued"]
  /\ UNCHANGED <<kind, cur, cstep, cbuf, cedge, sent, got, serverVars, bare, down, faults, loop>>

\* a session is created and the handshake begun
Begins(c, shake) ==
  /\ cur' = c /\ cstep' = [cstep EXCEPT ![c] = shake.step]
  /\ ToServer(c, shake.out) /\ UNCHANGED <<bare, down, faults>>

\* without a session the context stays in the loop, and in data->ctx
ssl_client_on_add_ctx(c) ==
  \/ Begins(c, ssl_session_connect(c))
  \/ /\ faults > 0 /\ faults' = faults - 1
     /\ bare' = bare \cup {<<"client", c>>} /\ cur' = c
     /\ UNCHANGED <<cstep, sbuf, sedge, down>>

\* without a session the connection is shut down
on_add_ctx(c) ==
  \/ Begins(c, do_ssl_connect(c))
  \/ /\ faults > 0 /\ faults' = faults - 1
     /\ bare' = bare \cup {<<"client", c>>} /\ down' = down \cup {c}
     /\ UNCHANGED <<cur, cstep, sbuf, sedge>>

Client_OnAdd(c) ==
  /\ loop["client"] = "runs"
  /\ cctx[c] = "queued" /\ cctx' = [cctx EXCEPT ![c] = "on"]
  /\ IF kind = "openssl" THEN ssl_client_on_add_ctx(c) ELSE on_add_ctx(c)
  /\ UNCHANGED <<kind, connecting, cbuf, cedge, sent, got, sctx, sstep, loop>>

\* the handshake, and once it is established every message that is there
ClientReads(c, shake) ==
  /\ cstep' = [cstep EXCEPT ![c] = shake.step]
  /\ IF shake.step = 2
       THEN got' = [got EXCEPT ![c] = @ \o shake.buf] /\ cbuf' = [cbuf EXCEPT ![c] = <<>>]
       ELSE UNCHANGED got /\ cbuf' = [cbuf EXCEPT ![c] = shake.buf]
  /\ ToServer(c, shake.out)

\* an ended connection is closed
ClientLeaves(c) ==
  /\ cctx' = IF c \in down THEN [cctx EXCEPT ![c] = "closing"] ELSE cctx
  /\ UNCHANGED loop

\* a context without a session is not read; the loop closes it at its end
Unread(c) == ClientLeaves(c) /\ UNCHANGED <<cstep, got, cbuf, sbuf, sedge>>

ssl_client_on_message(c) ==
  IF <<"client", c>> \in bare
    THEN Unread(c)
    ELSE ClientReads(c, ssl_session_connect(c)) /\ ClientLeaves(c)

\* do ... while (1) is left when wolfSSL_read returns -1, not when it returns 0
\* at the end of an established connection
ClientSpins(c, shake) ==
  /\ c \in down /\ shake.step = 2
  /\ loop' = [loop EXCEPT !["client"] = "spins"] /\ UNCHANGED cctx

\* MUGGLE_ASSERT_MSG, in a build that has it
ClientAborts ==
  /\ loop' = [loop EXCEPT !["client"] = "aborted"]
  /\ UNCHANGED <<cctx, cstep, got, cbuf, sbuf, sedge>>

on_message(c) ==
  IF <<"client", c>> \in bare
    THEN Unread(c) \/ ClientAborts
    ELSE /\ ClientReads(c, do_ssl_connect(c))
         /\ ClientLeaves(c) \/ ClientSpins(c, do_ssl_connect(c))

Client_OnMessage(c) ==
  /\ loop["client"] = "runs" /\ cctx[c] = "on" /\ c \in cedge \cup down
  /\ cedge' = cedge \ {c}
  /\ IF kind = "openssl" THEN ssl_client_on_message(c) ELSE on_message(c)
  /\ UNCHANGED <<kind, connecting, cur, sent, sctx, sstep, bare, down, faults>>

\* a context without a session returns before the thread is started
ssl_client_on_close(c) ==
  /\ cur' = IF cur = c THEN 0 ELSE cur
  /\ connecting' = IF <<"client", c>> \in bare THEN connecting ELSE connecting + 1

\* run_conn_thread whatever the context has
on_close(c) == cur' = 0 /\ connecting' = connecting + 1

\* on_close, then on_release deletes the session and the loop the context
Client_OnClose(c) ==
  /\ loop["client"] = "runs"
  /\ cctx[c] = "closing" /\ cctx' = [cctx EXCEPT ![c] = "gone"]
  /\ IF kind = "openssl" THEN ssl_client_on_close(c) ELSE on_close(c)
  /\ UNCHANGED <<kind, cstep, cbuf, cedge, sent, got, serverVars, bare, down, faults, loop>>

\* one message, while the bound lasts
Writes(c, rs) ==
  /\ Len(sent[c]) < SslMessages
  /\ \E m \in Messages :
       sent' = [sent EXCEPT ![c] = Append(@, m)] /\ ToServer(c, Append(rs, m))

\* the timer also carries on with a handshake, before it writes
ssl_client_on_timer ==
  LET shake == ssl_session_connect(cur)
  IN /\ cstep' = [cstep EXCEPT ![cur] = shake.step]
     /\ cbuf' = [cbuf EXCEPT ![cur] = shake.buf]
     /\ IF shake.step = 2 THEN Writes(cur, shake.out)
                          ELSE UNCHANGED sent /\ ToServer(cur, shake.out)

on_timer ==
  /\ cstep[cur] = 2 /\ Writes(cur, <<>>)
  /\ UNCHANGED <<cstep, cbuf>>

Client_OnTimer ==
  /\ loop["client"] = "runs"
  /\ cur # 0 /\ cur \notin down /\ <<"client", cur>> \notin bare
  /\ IF kind = "openssl" THEN ssl_client_on_timer ELSE on_timer
  /\ UNCHANGED <<kind, connecting, cur, cctx, cedge, got, sctx, sstep, bare, down, faults, loop>>

-----------------------------------------------------------------------------
(* the server *)

\* without a session the context stays in the loop
ssl_serv_on_connect(c) ==
  \/ LET shake == ssl_session_accept(c)
     IN /\ sstep' = [sstep EXCEPT ![c] = shake.step]
        /\ sbuf' = [sbuf EXCEPT ![c] = shake.buf]
        /\ ToClient(c, shake.out) /\ UNCHANGED <<bare, down, faults>>
  \/ /\ faults > 0 /\ faults' = faults - 1
     /\ bare' = bare \cup {<<"server", c>>}
     /\ UNCHANGED <<sstep, sbuf, cbuf, cedge, down>>

\* the handshake waits for the first message; without a session the
\* connection is shut down
on_connect(c) ==
  \/ UNCHANGED <<sstep, sbuf, cbuf, cedge, bare, down, faults>>
  \/ /\ faults > 0 /\ faults' = faults - 1
     /\ bare' = bare \cup {<<"server", c>>} /\ down' = down \cup {c}
     /\ UNCHANGED <<sstep, sbuf, cbuf, cedge>>

Serv_OnConnect(c) ==
  /\ loop["server"] = "runs"
  /\ sctx[c] = "off" /\ cctx[c] # "off" /\ sctx' = [sctx EXCEPT ![c] = "on"]
  /\ IF kind = "openssl" THEN ssl_serv_on_connect(c) ELSE on_connect(c)
  /\ UNCHANGED <<kind, connecting, cur, cctx, cstep, sent, got, sedge, loop>>

\* Mutant of EchoedAs: every server echoes to the end of an uncleared buffer
UpToEnd(ms, i) ==
  IF ms[i] = "short" /\ \E j \in 1 .. (i - 1) : ms[j] = "long" THEN "mixed" ELSE ms[i]

\* what the echo loop writes back.  wolfssl's buffer is cleared once, before
\* the loop, and written back up to its end: after a longer message a shorter
\* one has the longer one's tail.
EchoedAs(ms, i) ==
  IF kind = "wolfssl" /\ ms[i] = "short" /\ \E j \in 1 .. (i - 1) : ms[j] = "long"
    THEN "mixed" ELSE ms[i]

EchoLoop(ms) == [i \in 1 .. Len(ms) |-> EchoedAs(ms, i)]

\* Mutant of ServReads: the callback that ends the handshake reads nothing
ReadsNextTime(c, shake) ==
  /\ sstep' = [sstep EXCEPT ![c] = shake.step]
  /\ IF sstep[c] = 2
       THEN sbuf' = [sbuf EXCEPT ![c] = <<>>] /\ ToClient(c, EchoLoop(shake.buf))
       ELSE sbuf' = [sbuf EXCEPT ![c] = shake.buf] /\ ToClient(c, shake.out)

\* the handshake, and once it is established the echo loop
ServReads(c, shake) ==
  /\ sstep' = [sstep EXCEPT ![c] = shake.step]
  /\ IF shake.step = 2
       THEN sbuf' = [sbuf EXCEPT ![c] = <<>>] /\ ToClient(c, shake.out \o EchoLoop(shake.buf))
       ELSE sbuf' = [sbuf EXCEPT ![c] = shake.buf] /\ ToClient(c, shake.out)

\* an ended connection is closed: SSL_read, wolfSSL_read or the write after it
\* has failed
ServLeaves(c) ==
  /\ sctx' = IF c \in down THEN [sctx EXCEPT ![c] = "closing"] ELSE sctx
  /\ UNCHANGED <<down, loop>>

ServUnread(c) == ServLeaves(c) /\ UNCHANGED <<sstep, sbuf, cbuf, cedge>>

ssl_serv_on_message(c) ==
  IF <<"server", c>> \in bare
    THEN ServUnread(c)
    ELSE ServReads(c, ssl_session_accept(c)) /\ ServLeaves(c)

\* wolfSSL_read returns 0 at the end of an established connection and the
\* write of nothing succeeds, again and again
ServSpins(c, shake) ==
  /\ c \in down /\ shake.step = 2
  /\ loop' = [loop EXCEPT !["server"] = "spins"] /\ UNCHANGED <<sctx, down>>

\* MUGGLE_ASSERT_MSG, in a build that has it: every connection ends
ServAborts ==
  /\ loop' = [loop EXCEPT !["server"] = "aborted"]
  /\ down' = down \cup {d \in Conns : cctx[d] # "off"}
  /\ UNCHANGED <<sctx, sstep, sbuf, cbuf, cedge>>

serv_on_message(c) ==
  IF <<"server", c>> \in bare
    THEN ServUnread(c) \/ ServAborts
    ELSE /\ ServReads(c, do_ssl_accept(c))
         /\ ServLeaves(c) \/ ServSpins(c, do_ssl_accept(c))

Serv_OnMessage(c) ==
  /\ loop["server"] = "runs" /\ sctx[c] = "on" /\ c \in sedge \cup down
  /\ sedge' = sedge \ {c}
  /\ IF kind = "openssl" THEN ssl_serv_on_message(c) ELSE serv_on_message(c)
  /\ UNCHANGED <<kind, connecting, cur, cctx, cstep, sent, got, bare, faults>>

\* on_close and on_release: the session is deleted
Serv_OnClose(c) ==
  /\ loop["server"] = "runs"
  /\ sctx[c] = "closing" /\ sctx' = [sctx EXCEPT ![c] = "gone"]
  /\ UNCHANGED <<kind, clientVars, sstep, sbuf, sedge, bare, down, faults, loop>>

\* the network breaks, a handshake is refused or the other side closes
Breaks(c) ==
  /\ cctx[c] = "on" /\ sctx[c] # "off" /\ c \notin down /\ down' = down \cup {c}
  /\ UNCHANGED <<kind, clientVars, serverVars, bare, faults, loop>>

Next ==
  \/ conn_thread_routine \/ Client_OnTimer
  \/ \E c \in Conns :
       \/ Client_OnAdd(c) \/ Client_OnMessage(c) \/ Client_OnClose(c)
       \/ Serv_OnConnect(c) \/ Serv_OnMessage(c) \/ Serv_OnClose(c) \/ Breaks(c)

Spec == Init /\ [][Next]_vars

\* Both loops and the connecting thread keep running while their programs do.
\* Nothing is assumed of the timer.
Fairness ==
  /\ WF_vars(conn_thread_routine)
  /\ \A c \in Conns :
       /\ WF_vars(Client_OnAdd(c)) /\ WF_vars(Client_OnMessage(c)) /\ WF_vars(Client_OnClose(c))
       /\ WF_vars(Serv_OnConnect(c)) /\ WF_vars(Serv_OnMessage(c)) /\ WF_vars(Serv_OnClose(c))

FairSpec == Spec /\ Fairness

-----------------------------------------------------------------------------
\* Every message the client has written comes back, although on_message is
\* called once for any number of records: the handlers read on after the
\* handshake, and until nothing is left.  wolfssl's server stops to answer all
\* its clients once the end of one connection has caught it in the read loop.
Echoed ==
  \A c \in Conns :
    Len(got[c]) < Len(sent[c])
      ~> \/ Len(got[c]) = Len(sent[c]) \/ c \in down \/ <<"server", c>> \in bare
         \/ loop["server"] = "spins"

\* A loop is only caught by an established session whose connection has ended,
\* and an assertion only met for a session that could not be created: nothing
\* else stops the programs.
StopsAtEnds ==
  /\ loop["client"] = "spins" => \E c \in down : cctx[c] = "on" /\ cstep[c] = 2
  /\ loop["server"] = "spins" => \E c \in down : sctx[c] = "on" /\ sstep[c] = 2
  /\ \A side \in DOMAIN loop :
       /\ loop[side] = "aborted" => \E c \in Conns : <<side, c>> \in bare
       /\ loop[side] # "runs" => kind = "wolfssl"

\* What comes back is what was sent, in order; from wolfssl's server a message
\* after a longer one of the same callback may carry the longer one's tail.
EchoExact ==
  \A c \in Conns :
    /\ Len(got[c]) <= Len(sent[c])
    /\ \A i \in 1 .. Len(got[c]) :
         \/ got[c][i] = sent[c][i]
         \/ kind = "wolfssl" /\ \E j \in 1 .. (i - 1) : sent[c][j] = "long"

\* The client has one connection, or one thread that makes it, and the context
\* its timer uses is that connection's.
OneConnection ==
  /\ Cardinality({c \in Conns : cctx[c] \in {"queued", "on", "closing"}}) + connecting <= 1
  /\ cur # 0 => cctx[cur] \in {"on", "closing"}

\* A client that has lost its connection makes another while the bound lasts.
\* The exceptions: the on_close of an openssl client whose session could not be
\* created returns before it starts the thread; a wolfssl client may be caught
\* in its read loop by the end of the connection, and either of its programs
\* may have met the assertion of on_message.
Reconnects ==
  \A c \in 1 .. SslConns - 1 :
    c \in down /\ (kind = "openssl" => <<"client", c>> \notin bare)
      ~> \/ cctx[c + 1] # "off"
         \/ loop["client"] # "runs" \/ loop["server"] = "aborted"
====
