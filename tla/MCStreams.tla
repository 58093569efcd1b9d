----------------------------- MODULE MCStreams ------------------------------
(***************************************************************************)
(* What travels over TCP connections: the messages of the codecs, the N    *)
(* buffers of tcp_n_data and their echo, and the records of the TLS echo   *)
(* programs.  A behaviour is one of the three, the others rest in an       *)
(* initial state.                                                          *)
(***************************************************************************)
EXTENDS Framing

CONSTANTS N, D, Mss, MaxIovcnt, SndBuf, RcvBuf,
          SslKinds, SslConns, SslMessages, SslFaults

VARIABLES
  part,   \* "codec", "n_data" or "tls"
  method, calls, iov, offset, n_sent, sender, c2s, s2c, echo, rcv, client, ref, up,
  tls, connecting, cur, cctx, sctx, cstep, sstep, cbuf, sbuf, cedge, sedge, bare, down, faults, loop,
  t_sent, got

dataVars == <<method, calls, iov, offset, n_sent, sender, c2s, s2c, echo, rcv, client, ref, up>>
tlsVars == <<tls, connecting, cur, cctx, sctx, cstep, sstep, cbuf, sbuf, cedge, sedge, bare, down,
             faults, loop, t_sent, got>>

NData == INSTANCE TcpNData WITH sent <- n_sent
Tls == INSTANCE SslEcho WITH kind <- tls, sent <- t_sent

StreamsInit ==
  /\ part \in {"codec", "n_data", "tls"} /\ Init /\ NData!Init /\ Tls!Init
  \* one state each to rest in
  /\ part # "codec" => kind = "text"
  /\ part # "n_data" => method = "write"
  /\ part # "tls" => tls = "openssl"

StreamsNext == /\ \/ part = "codec" /\ Next /\ UNCHANGED <<dataVars, tlsVars>>
                  \/ part = "n_data" /\ NData!Next /\ UNCHANGED <<vars, tlsVars>>
                  \/ part = "tls" /\ Tls!Next /\ UNCHANGED <<vars, dataVars>>
               /\ UNCHANGED part

\* The fairness of FairSpec of the part that runs.
NDataFairness ==
  /\ WF_dataVars(part = "n_data" /\ (NData!snd_data_thread_routine \/ NData!NextWrite
                                       \/ NData!block_writev \/ NData!WriteFails))
  /\ WF_dataVars(part = "n_data" /\ NData!Server)
  /\ WF_dataVars(part = "n_data" /\ (NData!client_on_message \/ NData!AllReceived \/ NData!Report
                                       \/ NData!client_on_close))

TlsFairness ==
  /\ WF_tlsVars(part = "tls" /\ Tls!conn_thread_routine)
  /\ \A c \in Tls!Conns :
       /\ WF_tlsVars(part = "tls" /\ Tls!Client_OnAdd(c))
       /\ WF_tlsVars(part = "tls" /\ Tls!Client_OnMessage(c))
       /\ WF_tlsVars(part = "tls" /\ Tls!Client_OnClose(c))
       /\ WF_tlsVars(part = "tls" /\ Tls!Serv_OnConnect(c))
       /\ WF_tlsVars(part = "tls" /\ Tls!Serv_OnMessage(c))
       /\ WF_tlsVars(part = "tls" /\ Tls!Serv_OnClose(c))

StreamsSpec ==
  /\ StreamsInit /\ [][StreamsNext]_<<part, vars, dataVars, tlsVars>>
  /\ WF_vars(part = "codec" /\ Decoder)
  /\ NDataFairness
  /\ TlsFairness

-----------------------------------------------------------------------------
\* The decoders stay on message boundaries, and a session closed by the end of
\* its stream has taken every message that arrived whole.
Framed == Aligned /\ NothingLeft

\* tcp_n_data: what has left the sender is the beginning of the N buffers in
\* order, no byte lost, repeated or overtaken, whatever the method and however
\* the writes are cut.
StreamKept == NData!StreamKept

\* tcp_n_data: the context lives as long as the sender thread uses it, and the
\* client reports only after the last write.
ContextAlive == NData!ContextAlive /\ NData!ReportAfterSend

\* tcp_n_data: if the connection stays up the client gets everything back and
\* reports, and the sender thread ends in any case.
Completes == part = "n_data" => NData!Completes

\* TLS: what comes back is what was sent, in order, but for the tail of a
\* longer message in wolfssl's server; the client has one connection or one
\* thread that makes it; and a loop is stopped only by the end of an established
\* wolfssl connection or by the assertion for a session that was not created.
EchoExact == Tls!EchoExact /\ Tls!OneConnection /\ Tls!StopsAtEnds

\* TLS: every message the client has written comes back, although on_message
\* is called once for any number of records, and a client that has lost its
\* connection makes another, but where the end of a connection has caught a
\* wolfssl program in its read loop (see Echoed and Reconnects of SslEcho).
Echoed == part = "tls" => Tls!Echoed /\ Tls!Reconnects
=============================================================================
