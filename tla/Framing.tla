------------------------------- MODULE Framing -------------------------------
(***************************************************************************)
(* The length-prefixed messages of the repository's codecs, decoded from a *)
(* byte stream that arrives in arbitrary pieces.  One codec per behaviour: *)
(*                                                                         *)
(*   obj_cli, obj_srv   use/c/use-libevent_2.1.8 object_client/object_server*)
(*   demo               use/cpp/use_mugglecpp CodecBytes                   *)
(*   go                 use/go/use_tcp BytesCodec                          *)
(*   pb_netty           use/cross/protobuf netty.ProtobufDecoder           *)
(*   pb_array, pb_file  use/cross/protobuf local.ProtobufDecoder, local.cpp*)
(*   text               use/java/use-netty MessageDecode                   *)
(*                                                                         *)
(* A stream is measured in cells; a length field is two cells, so that it  *)
(* too can arrive in two pieces.  Streams lose and reorder nothing, so the *)
(* state of one is three offsets: cells consumed, in the decoder's buffer, *)
(* and written by the sender.                                              *)
(*                                                                         *)
(* External: the event loop of demo is edge-triggered, its handler is      *)
(* called when bytes have come since the last call and, as in SslEcho,     *)
(* when the connection has ended.                                          *)
(***************************************************************************)
EXTENDS Integers, Sequences

CONSTANTS
  Kinds,    \* the codecs of the run
  MaxMsgs,  \* bound: messages a sender sends
  MaxBody,  \* bound: cells of a body
  Limit,    \* total length limit of the codecs that have one
  RecvUnit, \* CodecBytes: recv_unit_size_
  BufCap    \* CodecBytes: capacity of the session's bytes buffer

AllKinds == {"obj_cli", "obj_srv", "demo", "go", "pb_netty", "pb_array", "pb_file", "text"}

\* the examples' 4 KB unit, 32 KB limit and 4 MB buffer: a message within the
\* limit always fits beside one unit
ASSUME FramingAssumption ==
  /\ Kinds \subseteq AllKinds
  /\ {MaxMsgs, MaxBody, Limit, RecvUnit, BufCap} \subseteq Nat
  /\ RecvUnit > 0 /\ Limit + RecvUnit <= BufCap

Field == 2

VARIABLES
  kind,     \* the codec of this behaviour
  msgs,     \* messages sent on this connection: [from, whole, good]
  avail,    \* offset up to which the sender's cells reach the receiver
  end,      \* "open", "eof" or "reset": what the receiver finds after them
  filled,   \* offset up to which cells are in the decoder's buffer
  consumed, \* offset of the decoder's read position
  base,     \* text: offset of index 0 of the cumulation buffer
  pc,       \* "idle", "fill", "parse", "body", "closed" or "lost"
  idx,      \* go: payload cells read so far
  edge,     \* demo: bytes have come since the handler was last called
  \* history
  taken,    \* messages the decoder has removed from the stream
  out,      \* the messages it handed on
  cut,      \* a connection ended with part of a message in the buffer
  full      \* demo: the last call of the handler found the buffer full

loopVars == <<edge, full>>
vars == <<kind, msgs, avail, end, filled, consumed, base, pc, idx, taken, out, cut, loopVars>>

Sent == IF msgs = <<>> THEN 0 ELSE msgs[Len(msgs)].from + msgs[Len(msgs)].whole

Init ==
  /\ kind \in Kinds
  /\ msgs = <<>> /\ avail = 0 /\ end = "open"
  /\ filled = 0 /\ consumed = 0 /\ base = 0
  /\ pc = "idle" /\ idx = 0
  /\ edge = FALSE
  /\ taken = 0 /\ out = <<>> /\ cut = FALSE /\ full = FALSE

-----------------------------------------------------------------------------
(* the encoders: cells of a message with a body of n cells *)

encodeMsg(n) == Field + 1 + n            \* size, type and time; Foo, Bar or TimeRecord
CodecBytes_encode(n) == Field + 1 + n    \* msg_hdr_t, with magic and flags, and payload
BytesCodec_Encode(n) == Field + 1 + n    \* the same header, written by Go
NettyEncoder_encode(n) == Field + 1 + n  \* total length, name, data
LocalEncoder_encode(n) == Field + 2 + n  \* total length, version, name, data
Serialize(n) == Field + 2 + n            \* the same, written by C++
MessageEncode_encode(n) == Field + n     \* length and UTF-8 bytes

Encoded(n) ==
  CASE kind \in {"obj_cli", "obj_srv"} -> encodeMsg(n)
    [] kind = "demo" -> CodecBytes_encode(n)
    [] kind = "go" -> BytesCodec_Encode(n)
    [] kind = "pb_netty" -> NettyEncoder_encode(n)
    [] kind = "pb_array" -> LocalEncoder_encode(n)
    [] kind = "pb_file" -> Serialize(n)
    [] kind = "text" -> MessageEncode_encode(n)

\* A sender encodes a message and writes it.  One that is not good is refused
\* by the receiver's decode: an object whose text has no room for its
\* terminator, a message id or a protobuf name nobody registered.  Go and text
\* have no such message, and the local example writes none (its decoder would
\* throw); the text client's messages all have one length.
Send(n, good) ==
  /\ Len(msgs) < MaxMsgs /\ end = "open"
  /\ pc \notin {"closed", "lost"}
  /\ kind \in {"go", "text", "pb_array"} => good
  /\ kind = "pb_array" => Encoded(n) <= Limit
  /\ kind = "text" /\ msgs # <<>> => Encoded(n) = msgs[1].whole
  /\ msgs' = Append(msgs, [from |-> avail, whole |-> Encoded(n), good |-> good])
  /\ avail' = avail + Encoded(n)
  /\ edge' = (kind = "demo")
  /\ UNCHANGED <<kind, end, filled, consumed, base, pc, idx, taken, out, cut, full>>

\* The sender's end: what it wrote last may not all have left.  pb_file reads
\* a file the program itself has written and closed.
SenderEnds(how) ==
  /\ end = "open" /\ pc # "closed" /\ end' = how
  /\ kind \in {"pb_array", "pb_file"} => how = "eof"
  /\ avail' \in (IF msgs = <<>> \/ kind = "pb_file" THEN {avail} ELSE filled .. avail)
  /\ avail' > avail - (IF msgs = <<>> THEN 1 ELSE msgs[Len(msgs)].whole)
  /\ UNCHANGED <<kind, msgs, filled, consumed, base, pc, idx, taken, out, cut, loopVars>>

-----------------------------------------------------------------------------
(* the decoders *)

Readable == filled - consumed

\* the message whose first cell is at an offset
MsgAt(o) == {i \in 1 .. Len(msgs) : msgs[i].from = o}

\* a length is read where the decoder stands; what it finds inside a message
\* is no length
Lost ==
  /\ pc' = "lost"
  /\ UNCHANGED <<filled, consumed, idx, taken, out>>

Wait ==
  /\ pc' = "idle"
  /\ UNCHANGED <<filled, consumed, idx, taken, out>>

Close ==
  /\ pc' = "closed"
  /\ UNCHANGED <<filled, consumed, idx, taken, out>>

\* object_server echoes a message whether decodeMsg refuses it or not
HandsOn(m) == m.good \/ kind = "obj_srv"

\* a message leaves the buffer and is handed on if it is good
Take(m, i) ==
  /\ consumed' = consumed + m.whole
  /\ taken' = taken + 1
  /\ out' = IF HandsOn(m) THEN Append(out, i) ELSE out
  /\ UNCHANGED <<filled, idx>>

\* bytes arrive in the buffer of a bufferevent or a netty channel, and its
\* callback runs
Arrive ==
  /\ kind \in {"obj_cli", "obj_srv", "pb_netty", "text"}
  /\ pc = "idle" /\ filled < avail
  /\ filled' \in filled + 1 .. avail
  /\ pc' = "parse"
  /\ base' \in IF consumed = filled THEN {consumed} ELSE {base, consumed}
  /\ UNCHANGED <<kind, msgs, avail, end, consumed, idx, taken, out, cut, loopVars>>

\* Mutant of ObjectLoop: a message is taken as soon as its length is there
TakesEarly ==
  /\ pc = "parse"
  /\ IF Readable < Field THEN Wait
     ELSE IF MsgAt(consumed) = {} THEN Lost
     ELSE \E i \in MsgAt(consumed) :
            /\ consumed' = consumed + (IF Readable >= msgs[i].whole THEN msgs[i].whole ELSE Readable)
            /\ pc' = "parse" /\ taken' = taken + 1
            /\ out' = IF HandsOn(msgs[i]) THEN Append(out, i) ELSE out
            /\ UNCHANGED <<filled, idx>>

\* the loop of both read callbacks: peek at four bytes, take the message when
\* all of it is there
ObjectLoop ==
  /\ pc = "parse"
  /\ IF Readable < Field THEN Wait
     ELSE IF MsgAt(consumed) = {} THEN Lost
     ELSE \E i \in MsgAt(consumed) :
            IF Readable >= msgs[i].whole THEN Take(msgs[i], i) /\ pc' = "parse" ELSE Wait

\* object_client drops an object that decodeMsg refuses
myReadCb == kind = "obj_cli" /\ ObjectLoop /\ UNCHANGED <<kind, msgs, avail, end, base, cut, loopVars>>
myReadcb == kind = "obj_srv" /\ ObjectLoop /\ UNCHANGED <<kind, msgs, avail, end, base, cut, loopVars>>

\* object_client's peer loses its connection and makes another on the same
\* bufferevent, whose input buffer peerStartReconn leaves as it is: the new
\* stream is read after what is in it
Reconnected ==
  /\ kind = "obj_cli" /\ pc = "idle"
  /\ end' = "open" /\ end # "open" /\ filled = avail
  /\ msgs' = SubSeq(msgs, 1, taken)
  /\ avail' = filled
  /\ cut' = (cut \/ consumed < filled)
  /\ UNCHANGED <<kind, filled, consumed, base, pc, idx, taken, out, loopVars>>

\* the handler of demo is called, or goes on with its loop of reads
Reading ==
  /\ kind = "demo" /\ pc \in {"idle", "fill"}
  /\ pc = "idle" => edge \/ (end # "open" /\ filled < avail)

\* an edge that came while the handler was reading
NewEdge == pc = "fill" /\ edge

\* Mutant of FillBuffer: one unit a call
OneUnit ==
  /\ Reading /\ BufCap - Readable >= RecvUnit
  /\ \E n \in 0 .. RecvUnit :
       /\ n <= avail - filled
       /\ filled' = filled + n
       /\ edge' = (NewEdge \/ (n < RecvUnit /\ filled' < avail))
  /\ pc' = "parse" /\ full' = FALSE
  /\ UNCHANGED <<kind, msgs, avail, end, consumed, base, idx, taken, out, cut>>

\* CodecBytes::decode reads units until a short one or until none fits ...
\* After a short read the rest of what was written is under way and brings an
\* edge; what a full buffer leaves may be in the socket already.
FillBuffer ==
  /\ Reading
  /\ \/ /\ BufCap - Readable < RecvUnit
        /\ pc' = "parse" /\ UNCHANGED filled
        /\ edge' \in {NewEdge, NewEdge \/ filled < avail}
        /\ full' = TRUE
     \/ /\ BufCap - Readable >= RecvUnit
        /\ \E n \in 0 .. RecvUnit :
             /\ n <= avail - filled
             /\ n = 0 => pc = "fill" \/ filled = avail
             /\ filled' = filled + n
             /\ pc' = IF n < RecvUnit THEN "parse" ELSE "fill"
             /\ edge' = (NewEdge \/ (n < RecvUnit /\ filled' < avail))
        /\ full' = FALSE
  /\ UNCHANGED <<kind, msgs, avail, end, consumed, base, idx, taken, out, cut>>

\* Mutant of ParseBuffer: a message of exactly the limit is refused
LimitRefused ==
  /\ kind = "demo" /\ pc = "parse"
  /\ IF Readable < Field + 1 THEN Wait
     ELSE \E i \in MsgAt(consumed) :
            IF msgs[i].whole >= Limit THEN Close
            ELSE IF Readable < msgs[i].whole THEN Wait
            ELSE Take(msgs[i], i) /\ pc' = "parse"
  /\ UNCHANGED <<kind, msgs, avail, end, base, cut, loopVars>>

\* ... then takes whole messages; a wrong header and a message over the
\* limit end the session (handleMessage returns false: Shutdown), a message
\* without a callback is dropped
ParseBuffer ==
  /\ kind = "demo" /\ pc = "parse"
  /\ IF Readable < Field + 1 THEN Wait
     ELSE IF MsgAt(consumed) = {} THEN Close
     ELSE \E i \in MsgAt(consumed) :
            IF msgs[i].whole > Limit THEN Close
            ELSE IF Readable < msgs[i].whole THEN Wait
            ELSE Take(msgs[i], i) /\ pc' = "parse"
  /\ UNCHANGED <<kind, msgs, avail, end, base, cut, loopVars>>

\* BytesCodec.Decode: Peek blocks until a header is there or the stream ends;
\* bufio takes in whatever has arrived
Decode ==
  /\ kind = "go" /\ pc = "idle"
  /\ filled' \in filled .. avail
  /\ \/ /\ filled' - consumed >= Field + 1
        /\ \E i \in MsgAt(consumed) :
             IF msgs[i].whole > Limit
               THEN pc' = "closed" /\ UNCHANGED <<consumed, idx>>
               ELSE pc' = "body" /\ idx' = 0 /\ consumed' = consumed + Field + 1
     \/ /\ filled' = avail /\ avail - consumed < Field + 1 /\ end # "open"
        /\ pc' = "closed" /\ UNCHANGED <<consumed, idx>>
  /\ UNCHANGED <<kind, msgs, avail, end, base, taken, out, cut, loopVars>>

\* Mutant of DecodePayload: the end of the stream does not leave the loop
EofIgnored ==
  /\ kind = "go" /\ pc = "body"
  /\ filled' \in filled .. avail
  /\ \E i \in MsgAt(consumed - idx - Field - 1), n \in 0 .. filled' - consumed :
       LET need == msgs[i].whole - Field - 1 - idx
       IN /\ n <= need /\ (n > 0 \/ need = 0)
          /\ consumed' = consumed + n
          /\ IF n = need
               THEN pc' = "idle" /\ idx' = 0 /\ taken' = taken + 1 /\ out' = Append(out, i)
               ELSE pc' = "body" /\ idx' = idx + n /\ UNCHANGED <<taken, out>>
  /\ UNCHANGED <<kind, msgs, avail, end, base, cut, loopVars>>

\* the loop of Read: only io.EOF leaves it early; after any other error it
\* reads again
DecodePayload ==
  /\ kind = "go" /\ pc = "body"
  /\ filled' \in filled .. avail
  /\ \E i \in MsgAt(consumed - idx - Field - 1) :
       LET need == msgs[i].whole - Field - 1 - idx
       IN \/ \E n \in 0 .. filled' - consumed :
               /\ n <= need /\ (n > 0 \/ need = 0)
               /\ consumed' = consumed + n
               /\ IF n = need
                    THEN /\ pc' = "idle" /\ idx' = 0
                         /\ taken' = taken + 1 /\ out' = Append(out, i)
                    ELSE /\ pc' = "body" /\ idx' = idx + n
                         /\ UNCHANGED <<taken, out>>
          \/ /\ need > 0 /\ filled' = consumed /\ avail = consumed /\ end = "eof"
             /\ pc' = "closed" /\ UNCHANGED <<consumed, idx, taken, out>>
  /\ UNCHANGED <<kind, msgs, avail, end, base, cut, loopVars>>

\* an exception reaches exceptionCaught, which closes the channel: no more is
\* read, what is in the buffer is still decoded
Thrown == avail' = filled /\ end' = "reset"

\* the length of the name is refused: the rest of the message stays
NameRefused(m) ==
  /\ m.whole > Field + 1
  /\ consumed' = consumed + Field + 1 /\ cut' = TRUE
  /\ pc' = "parse"
  /\ UNCHANGED <<filled, idx, taken, out>>

\* netty.ProtobufDecoder.decode, called again while it takes something
NettyDecoder_decode ==
  /\ kind = "pb_netty" /\ pc = "parse"
  /\ \/ Readable < Field /\ Wait /\ UNCHANGED <<avail, end, cut>>
     \/ /\ Readable >= Field /\ MsgAt(consumed) = {}
        /\ Lost /\ UNCHANGED <<avail, end, cut>>
     \/ /\ Readable >= Field
        /\ \E i \in MsgAt(consumed) :
             \/ msgs[i].whole > Limit /\ Close /\ UNCHANGED <<avail, end, cut>>
             \/ /\ msgs[i].whole <= Limit /\ msgs[i].whole > Readable
                /\ Wait /\ UNCHANGED <<avail, end, cut>>
             \/ /\ msgs[i].whole <= Limit /\ msgs[i].whole <= Readable
                /\ Take(msgs[i], i) /\ pc' = "parse" /\ UNCHANGED cut
                /\ IF msgs[i].good THEN UNCHANGED <<avail, end>> ELSE Thrown
             \/ /\ msgs[i].whole <= Limit /\ msgs[i].whole <= Readable
                /\ ~msgs[i].good /\ NameRefused(msgs[i]) /\ Thrown
  /\ UNCHANGED <<kind, msgs, base, loopVars>>

\* MessageDecode.decode looks at index 0 of the buffer, not at its reader index
MessageDecode_decode ==
  /\ kind = "text" /\ pc = "parse"
  /\ IF Readable < Field THEN Wait
     ELSE \E i \in MsgAt(consumed), first \in MsgAt(base) :
            IF Readable < msgs[first].whole THEN Wait
            ELSE Take(msgs[i], i) /\ pc' = "parse"
  /\ UNCHANGED <<kind, msgs, avail, end, base, cut, loopVars>>

\* the local decoders are given everything at once
ReadAll ==
  /\ kind \in {"pb_array", "pb_file"} /\ pc = "idle" /\ end = "eof"
  /\ filled' = avail /\ pc' = "parse"
  /\ UNCHANGED <<kind, msgs, avail, end, consumed, base, idx, taken, out, cut, loopVars>>

\* local.ProtobufDecoder.decode: an incomplete last message ends the list
LocalDecoder_decode ==
  /\ kind = "pb_array" /\ pc = "parse"
  /\ IF Readable < Field THEN Close
     ELSE \E i \in MsgAt(consumed) :
            IF msgs[i].whole > Readable THEN Close ELSE Take(msgs[i], i) /\ pc' = "parse"
  /\ UNCHANGED <<kind, msgs, avail, end, base, cut, loopVars>>

\* local.cpp readSample: Parse returns the total length, which Deserialize
\* sets even when it fails, until the file is used up
readSample ==
  /\ kind = "pb_file" /\ pc = "parse"
  /\ IF consumed >= filled THEN Close
     ELSE \E i \in MsgAt(consumed) : Take(msgs[i], i) /\ pc' = "parse"
  /\ UNCHANGED <<kind, msgs, avail, end, base, cut, loopVars>>

\* the end of the stream closes a session once what came before it is read;
\* object_client's peer reconnects instead
EndSeen ==
  /\ kind \in {"obj_srv", "demo", "pb_netty", "text"}
  /\ pc = "idle" /\ end # "open" /\ filled = avail
  /\ pc' = "closed"
  /\ UNCHANGED <<kind, msgs, avail, end, filled, consumed, base, idx, taken, out, cut, loopVars>>

Decoder ==
  \/ Arrive \/ myReadCb \/ myReadcb
  \/ FillBuffer \/ ParseBuffer
  \/ Decode \/ DecodePayload
  \/ NettyDecoder_decode \/ MessageDecode_decode
  \/ ReadAll \/ LocalDecoder_decode \/ readSample
  \/ EndSeen

Next ==
  \/ \E n \in 0 .. MaxBody, good \in BOOLEAN : Send(n, good)
  \/ \E how \in {"eof", "reset"} : SenderEnds(how)
  \/ Reconnected
  \/ Decoder

Spec == Init /\ [][Next]_vars

\* The event loops call their handlers and written bytes arrive; nothing is
\* assumed of the senders.
FairSpec == Spec /\ WF_vars(Decoder)

-----------------------------------------------------------------------------
\* A decoder between two messages stands at the first cell of a message, or
\* behind the last: it never takes the inside of one for a length (libevent
\* myReadCb, CodecBytes::decode, BytesCodec.Decode, the protobuf decoders,
\* MessageDecode).  The exceptions are object_client after a reconnection in
\* the middle of a message, and the netty decoder when it has thrown for the
\* length of a name, 8 bytes into the message.
Aligned ==
  pc \notin {"body", "closed"} /\ ~cut =>
    consumed = IF taken < Len(msgs) THEN msgs[taken + 1].from ELSE Sent

\* What a message stream promises: see MessageStream.
Stream == INSTANCE MessageStream WITH
  sent <- [i \in 1 .. Len(msgs) |-> [good |-> HandsOn(msgs[i]), large |-> msgs[i].whole > Limit]],
  open <- pc # "closed", ended <- end # "open"

\* Every decoder implements it: messages are handed on in the order they were
\* sent, none twice, none left out but those decode refuses, and a session is
\* only closed for a message it must refuse or at the end of its stream.
ImplementsStream == Stream!Spec

\* The handler of demo has returned with bytes left in the socket, because its
\* buffer was full, and nothing calls it again until more bytes come.
Stalled == full /\ pc = "idle" /\ ~edge /\ filled < avail

\* A message that arrived whole is taken, however the stream was cut, unless
\* the session was closed or lost its place, or CodecBytes left bytes in the
\* socket because its buffer was full.  (The local decoders wait for the end of
\* the file.)
TakenAll ==
  \A i \in 1 .. MaxMsgs :
    (kind \notin {"pb_array", "pb_file"} /\ Len(msgs) >= i)
      ~> \/ taken >= i \/ Len(msgs) < i \/ pc \in {"closed", "lost"} \/ end # "open"
         \/ Stalled

\* The end of a stream ends its handler, in the middle of a message too.  (The
\* Go decoder goes on reading after an error that is not io.EOF; object_client
\* reconnects.)
EndsOnEof == end = "eof" /\ kind # "obj_cli" ~> pc \in {"closed", "lost"}

\* When a session is closed by the end of its stream, every message that
\* arrived whole has been taken.
NothingLeft ==
  pc = "closed" /\ end # "open" =>
    \A i \in taken + 1 .. Len(msgs) :
      \/ msgs[i].from + msgs[i].whole > avail
      \/ \E j \in 1 .. i : ~msgs[j].good \/ msgs[j].whole > Limit
====
