------------------------------- MODULE PfpaTcp -------------------------------
(***************************************************************************)
(* The TCP session tracking of pfpa, a helper that parses capture files:   *)
(* play/c/pfpa/pfpa/pfpa_tcp_handle.c with the session table of            *)
(* pfpa_context.c.  The input is what a capture of one address pair holds: *)
(* the packets of TCP connections made one after the other, in the order   *)
(* the two ends sent them; packets of the two ends may cross, a FIN may    *)
(* carry data or be sent twice.  Each direction has a session of its own.  *)
(* remote_key is looked up with padding bytes that are never set, so the   *)
(* lookup may miss.                                                        *)
(***************************************************************************)
EXTENDS Integers

CONSTANTS
  SeqSpace,      \* number of sequence numbers (2^32)
  MaxLen,      \* bound: bytes of data in a packet
  MaxSent,     \* bound: packets with data of one end
  MaxConn      \* bound: connections in the capture

Ends == {"client", "server"}
Other(d) == IF d = "client" THEN "server" ELSE "client"
None == [status |-> "PFPA_TCP_STATUS_NULL", seq |-> 0]
ESTABLISHED == "PFPA_TCP_STATUS_ESTABLISHED"
FIN_SENT == "PFPA_TCP_STATUS_FIN_SENT"

VARIABLES
  \* the connection
  phase,    \* "closed", "syn", "synack" or "open"
  conns,    \* connections so far
  next,     \* sequence number each end sends next
  sent,     \* packets with data each end has sent
  fin,      \* ends that have sent their FIN
  heard,    \* ends that know of the other's FIN
  acked,    \* ends that have acknowledged the other's FIN
  \* pfpa
  session,  \* tcp_session_dict, by the sending end
  warned,   \* the end whose packet, in this step, was reported "unexpected seq"
  freed_use,\* a session was written in this step after it had been freed
  \* history
  odd,      \* what was unusual about the connection: FINs "crossing", one sent
            \* again ("retransmit"), a "missed" lookup of remote_key, or a session
            \* "stale" with the FIN of the connection before
  off       \* ends that since their last packet without SYN or FIN have sent a
            \* FIN with data or again, or began on a session left over

conn == <<phase, conns, next, sent, fin, heard, acked>>
pfpa == <<session, warned, freed_use>>
vars == <<conn, pfpa, odd, off>>

Init ==
  /\ phase = "closed" /\ conns = 0
  /\ next = [d \in Ends |-> 0] /\ sent = [d \in Ends |-> 0]
  /\ fin = {} /\ heard = {} /\ acked = {}
  /\ session = [d \in Ends |-> None] /\ warned = {} /\ freed_use = FALSE
  /\ odd = {} /\ off = {}

-----------------------------------------------------------------------------
\* The session a packet of d belongs to: the one found, or a new one.
FoundOrNew(d, seq) ==
  IF session[d] = None THEN [status |-> ESTABLISHED, seq |-> seq] ELSE session[d]

\* pfpa_ctx_find_tcp_session with remote_key: whether it finds the session
RemoteFound(d) == {session[Other(d)] # None, FALSE}

\* the sequence number expected after a packet
NextSeq(s, p) == IF p.syn \/ p.fin THEN (s.seq + 1) % SeqSpace ELSE (p.seq + p.len) % SeqSpace

\* Mutant of Disconnects: needs no acknowledging packet after the FINs
FinDisconnects(d, s, p, found) ==
  (s.status = FIN_SENT \/ p.fin) /\ p.ack /\ found /\ session[Other(d)].status = FIN_SENT

\* both ends have sent a FIN, and this packet acknowledges
Disconnects(d, s, p, found) ==
  s.status = FIN_SENT /\ p.ack /\ found /\ session[Other(d)].status = FIN_SENT

\* history: the lookup missed a session it would have removed
Missed(d, s, p, found) ==
  IF ~found /\ Disconnects(d, s, p, TRUE) THEN {"missed"} ELSE {}

\* find or create, compare the sequence number, update it, remove both
\* sessions on disconnect, note a FIN (also in a session just removed);
\* history: was and out are what `odd` and `off` are with this packet
pfpa_tcp_packet_handle(d, p, was, out) ==
  \E found \in RemoteFound(d) :
    LET s   == FoundOrNew(d, p.seq)
        end == Disconnects(d, s, p, found)
    IN  /\ warned' = {e \in {d} : s.seq # p.seq}
        /\ session' =
             IF end THEN [e \in Ends |-> None]
             ELSE [session EXCEPT ![d] = [status |-> IF p.fin THEN FIN_SENT ELSE s.status,
                                          seq |-> NextSeq(s, p)]]
        /\ freed_use' = (end /\ p.fin)
        /\ odd' = was \cup Missed(d, s, p, found)
        /\ off' = out

-----------------------------------------------------------------------------
(* the two ends; every packet is handled as it is captured *)

Packet(d, syn, f, ack, len) == [seq |-> next[d], syn |-> syn, fin |-> f, ack |-> ack, len |-> len]

Advance(d, n) == next' = [next EXCEPT ![d] = (@ + n) % SeqSpace]

\* an end acknowledges the other's FIN with every packet once it knows of it
Acks(d) == acked' = IF d \in heard THEN acked \cup {d} ELSE acked

Syn ==
  /\ phase = "closed" /\ conns < MaxConn
  /\ \E isn \in 0 .. (SeqSpace - 1) :
       /\ next' = [d \in Ends |-> IF d = "client" THEN (isn + 1) % SeqSpace ELSE isn]
       /\ pfpa_tcp_packet_handle("client",
            [seq |-> isn, syn |-> TRUE, fin |-> FALSE, ack |-> FALSE, len |-> 0],
            {h \in {"stale"} : \E d \in Ends : session[d].status = FIN_SENT},
            {d \in Ends : session[d] # None})
  /\ phase' = "syn" /\ conns' = conns + 1
  /\ sent' = [d \in Ends |-> 0] /\ fin' = {} /\ heard' = {} /\ acked' = {}

SynAck ==
  /\ phase = "syn" /\ phase' = "synack"
  /\ pfpa_tcp_packet_handle("server", Packet("server", TRUE, FALSE, TRUE, 0), odd, off)
  /\ Advance("server", 1)
  /\ UNCHANGED <<conns, sent, fin, heard, acked>>

HandshakeAck ==
  /\ phase = "synack" /\ phase' = "open"
  /\ pfpa_tcp_packet_handle("client", Packet("client", FALSE, FALSE, TRUE, 0), odd, off \ {"client"})
  /\ UNCHANGED <<conns, next, sent, fin, heard, acked>>

Data(d, len) ==
  /\ phase = "open" /\ d \notin fin /\ sent[d] < MaxSent
  /\ pfpa_tcp_packet_handle(d, Packet(d, FALSE, FALSE, TRUE, len), odd, off \ {d})
  /\ Advance(d, len) /\ Acks(d)
  /\ sent' = [sent EXCEPT ![d] = @ + 1]
  /\ UNCHANGED <<phase, conns, fin, heard>>

Fin(d, len) ==
  /\ phase = "open" /\ d \notin fin
  /\ pfpa_tcp_packet_handle(d, Packet(d, FALSE, TRUE, TRUE, len),
       odd \cup {h \in {"crossing"} : Other(d) \in fin /\ d \notin heard},
       off \cup {e \in {d} : len > 0})
  /\ Advance(d, len + 1) /\ Acks(d)
  /\ fin' = fin \cup {d}
  /\ UNCHANGED <<phase, conns, sent, heard>>

\* the same FIN again, not acknowledged in time
FinAgain(d) ==
  /\ phase = "open" /\ d \in fin /\ Other(d) \notin acked
  /\ pfpa_tcp_packet_handle(d, [Packet(d, FALSE, TRUE, TRUE, 0)
                                  EXCEPT !.seq = (next[d] + SeqSpace - 1) % SeqSpace],
       odd \cup {"retransmit"}, off \cup {d})
  /\ Acks(d)
  /\ UNCHANGED <<phase, conns, next, sent, fin, heard>>

Hear(d) ==
  /\ phase = "open" /\ Other(d) \in fin /\ d \notin heard
  /\ heard' = heard \cup {d}
  /\ warned' = {} /\ freed_use' = FALSE
  /\ UNCHANGED <<phase, conns, next, sent, fin, acked, session, odd, off>>

Ack(d) ==
  /\ phase = "open" /\ d \in heard \ acked
  /\ pfpa_tcp_packet_handle(d, Packet(d, FALSE, FALSE, TRUE, 0), odd, off \ {d})
  /\ Acks(d)
  /\ UNCHANGED <<phase, conns, next, sent, fin, heard>>

\* both FINs are sent and acknowledged
Close ==
  /\ phase = "open" /\ fin = Ends /\ acked = Ends
  /\ phase' = "closed"
  /\ warned' = {} /\ freed_use' = FALSE
  /\ UNCHANGED <<conns, next, sent, fin, heard, acked, session, odd, off>>

Next ==
  \/ Syn \/ SynAck \/ HandshakeAck \/ Close
  \/ \E d \in Ends : FinAgain(d) \/ Hear(d) \/ Ack(d)
  \/ \E d \in Ends, len \in 1 .. MaxLen : Data(d, len)
  \/ \E d \in Ends, len \in 0 .. MaxLen : Fin(d, len)

Spec == Init /\ [][Next]_vars

-----------------------------------------------------------------------------
\* A packet is reported as out of sequence ("unexpected seq: expected=%u,
\* actual=%u"), wherever the numbers start and wrap, only for an end that since
\* its last packet without SYN or FIN has sent a FIN again or one with data,
\* whose length is not counted, or began on a session left over: the next such
\* packet puts the number right.
SeqExpected == [][warned' \subseteq off \cup off']_vars

\* The sessions of a connection are removed together, and not before both
\* ends have sent their FIN, unless one was stale with the FIN of the
\* connection before.
RemovedTogether ==
  [][(\E d \in Ends : session[d] # None /\ session'[d] = None) =>
       /\ session' = [d \in Ends |-> None]
       /\ fin = Ends \/ "stale" \in odd]_vars

\* A session is written after it was freed only when a FIN was repeated, which
\* readme.md:4 sets aside, or a session was stale.
NoUseAfterFree == freed_use => odd \cap {"retransmit", "stale"} # {}

\* Once both ends have closed, no session of the connection is left ("handle
\* disconnect"), however the packets interleave, unless the FINs crossed, one
\* was repeated, a lookup of remote_key missed or a session was stale; data in
\* a FIN does not matter, nor does a session left over without a FIN.
SessionsEnd ==
  phase = "closed" /\ (\E d \in Ends : session[d] # None) =>
    odd \cap {"crossing", "retransmit", "missed", "stale"} # {}

====
