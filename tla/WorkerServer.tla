----------------------------- MODULE WorkerServer -----------------------------
(***************************************************************************)
(* The two mugglecpp servers, one that serves every connection in its      *)
(* listening event loop ("plain") and one whose listening loop hands a     *)
(* connection over to a worker's event loop when its user logs in          *)
(* ("worker"), and the client that reconnects to them.                     *)
(*                                                                         *)
(* Source: use/cpp/use_mugglecpp/tcp_custom_protocol/example               *)
(* (tcp_server, tcp_server_worker, tcp_client).  The server's one or two   *)
(* threads and the client's loop and connecting threads run concurrently.  *)
(* NetEventLoop is external and used as these handles rely on it: a        *)
(* context whose close flag is set or whose stream has ended is closed     *)
(* after the callback, OnClose first, then the loop drops its reference,   *)
(* and whoever drops the last one calls OnRelease of its own handle.       *)
(***************************************************************************)
EXTENDS Integers, Sequences, FiniteSets

CONSTANTS
  Servers,  \* the servers of the run
  MaxConns, \* bound: connections the client makes, one context each on either side
  MaxSends  \* bound: messages the client sends on its first connection (on
            \* the ones after it, the login)

ASSUME ConnsAssumption == MaxConns \in Nat

None == 0
Conns == 1 .. MaxConns
SendsOn(c) == IF c = 1 THEN MaxSends ELSE 1
Loops == {"listen", "worker"}

VARIABLES
  \* the client
  client,     \* per connection: "off", "queued", "on", "closing" or "gone"
  session_,   \* the connection OnTimer uses, or None
  connecting, \* threads of TcpClientHandle::connect that are running
  is_logined, \* connections whose login the client has seen answered
  sends,      \* messages sent on a connection
  \* the network
  inbox,      \* messages to the server, per connection
  answered,   \* connections on which a login response is under way
  down,       \* connections broken or shut down
  \* the server
  server,     \* which one it is
  ctxs,       \* contexts in each loop
  ctx_set_,   \* contexts in each handle's set
  queue,      \* contexts given to the worker with AddContext
  busy,       \* the context whose session a loop's OnMessage works with
  left,       \* messages it has read and not yet handed out
  closing,    \* the context a loop has called OnClose of, reference not dropped
  ref,        \* references to a context
  detached,   \* Session::isDetached
  closeFlag,  \* SetFlagClose
  idle,       \* sessions without a ping for more than 15 seconds
  released,   \* the loop whose OnRelease deleted the session, or "no"
  \* history
  moved       \* contexts handed over

clientVars == <<client, session_, connecting, is_logined, sends>>
netVars == <<inbox, answered, down>>
serverVars == <<server, ctxs, ctx_set_, queue, busy, left, closing, ref, detached, closeFlag, idle, released, moved>>
vars == <<clientVars, netVars, serverVars>>

Init ==
  /\ client = [c \in Conns |-> "off"] /\ session_ = None
  /\ connecting = 1 /\ is_logined = {} /\ sends = [c \in Conns |-> 0]
  /\ inbox = [c \in Conns |-> <<>>] /\ answered = {} /\ down = {}
  /\ server \in Servers
  /\ ctxs = [l \in Loops |-> {}] /\ ctx_set_ = [l \in Loops |-> {}]
  /\ queue = {} /\ closing = [l \in Loops |-> None]
  /\ busy = [l \in Loops |-> None] /\ left = [l \in Loops |-> 0]
  /\ ref = [c \in Conns |-> 0]
  /\ detached = {} /\ closeFlag = {} /\ idle = {}
  /\ released = [c \in Conns |-> "no"]
  /\ moved = {}

-----------------------------------------------------------------------------
(* the client *)

\* the connecting thread tries until it has a connection, then ends
connect ==
  /\ connecting > 0
  /\ \E c \in Conns :
       /\ client[c] = "off" /\ \A d \in 1 .. (c - 1) : client[d] \notin {"off", "queued"}
       /\ client' = [client EXCEPT ![c] = "queued"]
  /\ connecting' = connecting - 1
  /\ UNCHANGED <<session_, is_logined, sends, netVars, serverVars>>

\* messages leave in order
Post(c, kinds) ==
  /\ sends' = [sends EXCEPT ![c] = @ + Len(kinds)]
  /\ inbox' = [inbox EXCEPT ![c] = @ \o kinds]

\* TcpClientHandle::OnAddCtx, with ClientPeer::onConnection's login
Client_OnAddCtx(c) ==
  /\ client[c] = "queued" /\ client' = [client EXCEPT ![c] = "on"]
  /\ session_' = c
  /\ Post(c, <<"login">>)
  /\ UNCHANGED <<connecting, is_logined, answered, down, serverVars>>

\* OnTimer and ClientPeer::onTimer: a ping, and a sum once logged in
Client_OnTimer ==
  /\ session_ # None
  /\ LET kinds == IF session_ \in is_logined THEN <<"ping", "sum">> ELSE <<"ping">>
     IN /\ sends[session_] + Len(kinds) <= SendsOn(session_)
        /\ Post(session_, kinds)
  /\ UNCHANGED <<client, session_, connecting, is_logined, answered, down, serverVars>>

\* ClientPeer::onRspLogin
Client_OnMessage(c) ==
  /\ client[c] = "on" /\ c \in answered
  /\ answered' = answered \ {c} /\ is_logined' = is_logined \cup {c}
  /\ UNCHANGED <<client, session_, connecting, sends, inbox, down, serverVars>>

\* Mutant of Client_OnClose: no new connection is made
ClosesOnly(c) ==
  /\ client[c] = "on" /\ c \in down
  /\ client' = [client EXCEPT ![c] = "closing"]
  /\ session_' = None /\ UNCHANGED connecting

\* TcpClientHandle::OnClose starts a connecting thread
Client_OnClose(c) ==
  /\ client[c] = "on" /\ c \in down
  /\ client' = [client EXCEPT ![c] = "closing"]
  /\ session_' = None /\ connecting' = connecting + 1

ClientCloses(c) == Client_OnClose(c) /\ UNCHANGED <<is_logined, sends, netVars, serverVars>>

\* TcpClientHandle::OnRelease deletes the session
Client_OnRelease(c) ==
  /\ client[c] = "closing" /\ client' = [client EXCEPT ![c] = "gone"]
  /\ UNCHANGED <<session_, connecting, is_logined, sends, netVars, serverVars>>

-----------------------------------------------------------------------------
(* the server *)

\* a loop's thread is in no callback
Free(l) == busy[l] = None /\ closing[l] = None

\* TcpListenHandle::OnConnect
OnConnect(c) ==
  /\ Free("listen")
  /\ client[c] # "off" /\ ref[c] = 0 /\ released[c] = "no"
  /\ ctxs' = [ctxs EXCEPT !["listen"] = @ \cup {c}]
  /\ ctx_set_' = [ctx_set_ EXCEPT !["listen"] = @ \cup {c}]
  /\ ref' = [ref EXCEPT ![c] = 1]
  /\ UNCHANGED <<server, clientVars, netVars, queue, busy, left, closing, detached, closeFlag, idle, released, moved>>

\* Session::Close; a login or a sum that fails its checks is closed, and
\* handled all the same (the client here sends none that does)
Close(c) == down' = down \cup {c}
Checks(c) == UNCHANGED down \/ Close(c)

\* Mutant of onLogin: the worker is given the context in the callback
GivenAtOnce(c) ==
  /\ Checks(c) /\ answered' = answered \cup {c}
  /\ ref' = [ref EXCEPT ![c] = @ + 1]
  /\ queue' = queue \cup {c} /\ moved' = moved \cup {c}
  /\ UNCHANGED <<detached, closeFlag, idle>>

\* ServerPeer::onLogin of the worker server: detach from the listening loop
onLogin(c) ==
  /\ Checks(c) /\ answered' = answered \cup {c}
  /\ detached' = detached \cup {c}
  /\ closeFlag' = closeFlag \cup {c}
  /\ ref' = [ref EXCEPT ![c] = @ + 1]
  /\ UNCHANGED <<queue, moved, idle>>

\* the plain server only answers
Plain_onLogin(c) ==
  /\ Checks(c) /\ answered' = answered \cup {c}
  /\ UNCHANGED <<detached, closeFlag, ref, queue, moved, idle>>

\* a sum is only answered
onReqSum(c) == Checks(c) /\ UNCHANGED <<answered, detached, closeFlag, ref, queue, moved, idle>>

\* onPing keeps the session alive
onPing(c) == idle' = idle \ {c} /\ UNCHANGED <<answered, down, detached, closeFlag, ref, queue, moved>>

\* OnMessage reads what has arrived into the session's buffer
OnMessage(l, c) ==
  /\ Free(l) /\ c \in ctxs[l] \ closeFlag
  /\ \E n \in 1 .. Len(inbox[c]) : left' = [left EXCEPT ![l] = n]
  /\ busy' = [busy EXCEPT ![l] = c]
  /\ UNCHANGED <<server, clientVars, netVars, ctxs, ctx_set_, queue, closing, ref, detached, closeFlag, idle, released, moved>>

\* and hands it out, message by message: all of it, whatever a callback does
decode(l) ==
  /\ busy[l] # None /\ inbox[busy[l]] # <<>>
  /\ LET c == busy[l]
         kind == Head(inbox[c])
     IN /\ inbox' = [inbox EXCEPT ![c] = Tail(@)]
        /\ \/ kind = "ping" /\ onPing(c)
           \/ kind = "sum" /\ onReqSum(c)
           \/ kind = "login" /\ server = "worker" /\ onLogin(c)
           \/ kind = "login" /\ server = "plain" /\ Plain_onLogin(c)
  /\ left' = [left EXCEPT ![l] = @ - 1]
  /\ busy' = IF left[l] = 1 THEN [busy EXCEPT ![l] = None] ELSE busy
  /\ UNCHANGED <<server, clientVars, ctxs, ctx_set_, closing, released>>

\* a header that is not one: OnMessage shuts the connection down, and nothing
\* behind it is handed out
refuse(l) ==
  /\ busy[l] # None
  /\ inbox' = [inbox EXCEPT ![busy[l]] = <<>>] /\ Close(busy[l])
  /\ busy' = [busy EXCEPT ![l] = None] /\ left' = [left EXCEPT ![l] = 0]
  /\ UNCHANGED <<server, clientVars, answered, ctxs, ctx_set_, queue, closing, ref, detached, closeFlag, idle, released, moved>>

\* Mutant of ListenOnClose: the flags are not cleared for the worker
FlagsKept(c) ==
  IF c \in detached
    THEN /\ detached' = detached \ {c} /\ UNCHANGED closeFlag
         /\ queue' = queue \cup {c} /\ moved' = moved \cup {c}
         /\ ctx_set_' = [ctx_set_ EXCEPT !["listen"] = @ \ {c}]
    ELSE UNCHANGED <<detached, closeFlag, queue, moved, ctx_set_>>

\* TcpListenHandle::OnClose: a detached context is given to the worker, there
\* is one, and leaves the set
ListenOnClose(c) ==
  IF c \in detached
    THEN /\ detached' = detached \ {c} /\ closeFlag' = closeFlag \ {c}
         /\ queue' = queue \cup {c} /\ moved' = moved \cup {c}
         /\ ctx_set_' = [ctx_set_ EXCEPT !["listen"] = @ \ {c}]
    ELSE UNCHANGED <<detached, closeFlag, queue, moved, ctx_set_>>

\* a loop closes a context: flagged, or at the end of its stream
OnClose(l, c) ==
  /\ Free(l) /\ c \in ctxs[l]
  /\ c \in closeFlag \/ (c \in down /\ inbox[c] = <<>>)
  /\ ctxs' = [ctxs EXCEPT ![l] = @ \ {c}]
  /\ closing' = [closing EXCEPT ![l] = c]
  /\ IF l = "listen" THEN ListenOnClose(c)
                     ELSE UNCHANGED <<detached, closeFlag, queue, moved, ctx_set_>>
  /\ UNCHANGED <<server, clientVars, netVars, busy, left, ref, idle, released>>

\* Mutant of OnRelease: the handle's set keeps the context
SetKept(l) ==
  /\ closing[l] # None
  /\ LET c == closing[l]
     IN /\ ref' = [ref EXCEPT ![c] = @ - 1]
        /\ IF ref[c] = 1
             THEN released' = [released EXCEPT ![c] = l] /\ down' = down \cup {c}
             ELSE UNCHANGED <<released, down>>
  /\ closing' = [closing EXCEPT ![l] = None]
  /\ UNCHANGED <<server, clientVars, inbox, answered, ctxs, ctx_set_, queue, busy, left, detached, closeFlag, idle, moved>>

\* the loop drops its reference; the last one calls OnRelease of this handle,
\* which deletes peer and session and removes the context from its own set
OnRelease(l) ==
  /\ closing[l] # None
  /\ LET c == closing[l]
     IN /\ ref' = [ref EXCEPT ![c] = @ - 1]
        /\ IF ref[c] = 1
             THEN /\ released' = [released EXCEPT ![c] = l]
                  /\ ctx_set_' = [ctx_set_ EXCEPT ![l] = @ \ {c}]
                  /\ down' = down \cup {c}
             ELSE UNCHANGED <<released, ctx_set_, down>>
  /\ closing' = [closing EXCEPT ![l] = None]
  /\ UNCHANGED <<server, clientVars, inbox, answered, ctxs, queue, busy, left, detached, closeFlag, idle, moved>>

\* Mutant of Worker_OnAddCtx: the context is not entered into the worker's set
NotInSet(c) ==
  /\ Free("worker") /\ c \in queue /\ queue' = queue \ {c}
  /\ ctxs' = [ctxs EXCEPT !["worker"] = @ \cup {c}]
  /\ UNCHANGED <<server, clientVars, netVars, ctx_set_, busy, left, closing, ref, detached, closeFlag, idle, released, moved>>

\* the worker's loop takes a context it was given: TcpServerHandle::OnAddCtx
Worker_OnAddCtx(c) ==
  /\ Free("worker") /\ c \in queue /\ queue' = queue \ {c}
  /\ ctxs' = [ctxs EXCEPT !["worker"] = @ \cup {c}]
  /\ ctx_set_' = [ctx_set_ EXCEPT !["worker"] = @ \cup {c}]
  /\ UNCHANGED <<server, clientVars, netVars, busy, left, closing, ref, detached, closeFlag, idle, released, moved>>

\* OnTimer of both handles: idle sessions of the set are shut down
OnTimer(l) ==
  /\ Free(l)
  /\ (ctx_set_[l] \cap idle) \ down # {}
  /\ down' = down \cup (ctx_set_[l] \cap idle)
  /\ UNCHANGED <<clientVars, inbox, answered, serverVars>>

\* fifteen seconds without a ping
Quiet(c) ==
  /\ ref[c] > 0 /\ idle' = idle \cup {c} /\ c \notin idle
  /\ UNCHANGED <<server, clientVars, netVars, ctxs, ctx_set_, queue, busy, left, closing, ref, detached, closeFlag, released, moved>>

Breaks(c) ==
  /\ client[c] = "on" /\ c \notin down /\ down' = down \cup {c}
  /\ UNCHANGED <<clientVars, inbox, answered, serverVars>>

\* TcpServerHandle, the worker's handle
Worker_OnMessage(c) == OnMessage("worker", c)
Worker_decode == decode("worker") \/ refuse("worker")
Worker_OnClose(c) == OnClose("worker", c)
Worker_OnRelease == OnRelease("worker")
Worker_OnTimer == OnTimer("worker")

\* TcpListenHandle, and TcpServerHandle of the plain server
Listen_OnMessage(c) == OnMessage("listen", c)
Listen_decode == decode("listen") \/ refuse("listen")
Listen_OnClose(c) == OnClose("listen", c)
Listen_OnRelease == OnRelease("listen")
Listen_OnTimer == OnTimer("listen")

ServerStep ==
  \/ \E c \in Conns : Listen_OnMessage(c) \/ Listen_OnClose(c) \/ Worker_OnMessage(c) \/ Worker_OnClose(c)
  \/ Listen_decode \/ Worker_decode
  \/ Listen_OnRelease \/ Listen_OnTimer \/ Worker_OnRelease \/ Worker_OnTimer

Next ==
  \/ connect \/ Client_OnTimer
  \/ \E c \in Conns :
       \/ Client_OnAddCtx(c) \/ Client_OnMessage(c) \/ ClientCloses(c) \/ Client_OnRelease(c)
       \/ OnConnect(c) \/ Worker_OnAddCtx(c) \/ Quiet(c) \/ Breaks(c)
  \/ ServerStep

Spec == Init /\ [][Next]_vars

\* Every thread keeps running: each loop handles what it has, the connecting
\* thread is let in.  Nothing is assumed of the client's timer and the network.
FairSpec ==
  /\ Spec
  /\ WF_vars(connect)
  /\ \A c \in Conns :
       /\ WF_vars(Client_OnAddCtx(c)) /\ WF_vars(Client_OnMessage(c)) /\ WF_vars(ClientCloses(c))
       /\ WF_vars(OnConnect(c)) /\ WF_vars(Worker_OnAddCtx(c))
       /\ \A l \in Loops : WF_vars(OnMessage(l, c)) /\ WF_vars(OnClose(l, c))
  /\ \A l \in Loops : WF_vars(decode(l) \/ refuse(l)) /\ WF_vars(OnRelease(l)) /\ WF_vars(OnTimer(l))

-----------------------------------------------------------------------------
\* what each side of a handover holds
Held(c) ==
  (IF c \in ctxs["listen"] \/ closing["listen"] = c THEN 1 ELSE 0)
  + (IF c \in detached \cup queue \cup ctxs["worker"] \/ closing["worker"] = c THEN 1 ELSE 0)

\* The references to a context are exactly the loops that still work with it
\* (the one onLogin retains is the worker's, from the login on), and a session
\* that OnRelease has deleted is in no loop and in no set, except that the
\* worker's set keeps it when the listening loop drops the last reference of
\* a context it has handed over.
RefCounted ==
  \A c \in Conns :
    /\ ref[c] = Held(c)
    /\ released[c] # "no" =>
         /\ Held(c) = 0 /\ c \notin ctx_set_["listen"]
         /\ c \in ctx_set_["worker"] => released[c] = "listen" /\ c \in moved

\* A session is worked with by one thread at a time, through the handover too:
\* while a loop's OnMessage hands out its messages (the rest of what came with
\* a login included) the other loop neither does, nor has the context in the
\* set from which its timer reads the session's last active time.
OneThread ==
  \A c \in Conns : \A l \in Loops :
    busy[l] = c => \A k \in Loops \ {l} : busy[k] # c /\ c \notin ctx_set_[k]

\* A login ends with the connection in the worker's loop, or closed; and what
\* set the close flag in the listening loop does not follow it there: the
\* worker closes only a connection that broke or was silent for too long.
LoginMoves ==
  /\ \A c \in Conns :
       server = "worker" /\ client[c] = "on" ~> (c \in ctxs["worker"] \/ c \in down)
  /\ [](\A c \in Conns : closing["worker"] = c => c \in down)

\* A session that stays silent is released, wherever the silence finds it:
\* before, during or after the handover.
SilentReleased ==
  \A c \in Conns : c \in idle ~> (c \notin idle \/ released[c] # "no")

\* A client that has lost its connection makes another while it can.
Reconnects ==
  session_ = None ~> (session_ # None \/ \A c \in Conns : client[c] # "off")
====
