-------------------------- MODULE LibeventPrograms --------------------------
(***************************************************************************)
(* The programs of use-libevent_2.1.8 around the library that modules Peer *)
(* and BaseServer model: two servers and a client on plain bufferevents,   *)
(* three clients on Peer, and the server on BaseServer.  A program that    *)
(* runs an event loop is what it does before, and then for ever one of its *)
(* callbacks; one connection stands for all of them.                       *)
(***************************************************************************)
EXTENDS ProgramText

\* main(): Winsock where there is one, around run().
lev_main(run) == <<Alt(<< <<>>, <<Get("winsock", {}, <<Exit>>)>> >>),
                   Call(run, <<>>), PutIf("winsock")>>

\* What an event on a connection can do, once there is one.
lev_on(r, cb) == If(r, <<Call(cb, <<>>)>>, <<>>)

\* Base and listening socket of the two servers; both stay open when the
\* socket cannot be bound.
lev_listen == <<Get("base", {}, <<Return>>), New("listener", {}),
                Try({"listener"}, <<Return>>), Try({"listener"}, <<Return>>),
                New("listener_event", {"base", "listener"}), Do({"listener_event"})>>
lev_accept(enable) ==
    <<Get("fd", {"listener"}, <<Return>>), New("bev", {"base", "fd"}), Put("fd")>> \o enable

echo_readcb == <<Loop(<<Do({"bev"})>>)>>
echo_errorcb == <<Alt(<< <<>>, <<>>, <<>> >>), Put("bev")>>
echo_do_accept == lev_accept(<<Do({"bev"}), Do({"bev"}), Do({"bev"})>>)
echo_run == lev_listen
              \o <<Forever(<<Alt(<< <<If("bev", <<>>, <<Call(echo_do_accept, <<>>)>>)>>,
                                   <<lev_on("bev", echo_readcb)>>,
                                   <<lev_on("bev", echo_errorcb)>> >>)>>)>>
echo_server == Program(lev_main(echo_run), {"base", "listener"}, {})

\* The time server writes the time and frees the connection once it is sent.
time_writecb == <<Maybe(<<Put("bev")>>)>>
time_do_accept == lev_accept(<<Do({"bev"}), Do({"bev"}), Maybe(<<Do({"bev"})>>)>>)
time_run == lev_listen
              \o <<Forever(<<Alt(<< <<If("bev", <<>>, <<Call(time_do_accept, <<>>)>>)>>,
                                   <<lev_on("bev", time_writecb)>> >>)>>)>>
time_server == Program(lev_main(time_run), {"base", "listener"}, {})

(***************************************************************************)
(* simple_client: a timer is made when the connection is there and freed   *)
(* with it on an error; the end of the stream leaves both.                 *)
(***************************************************************************)
simple_readcb == <<Loop(<<Do({"bev"})>>)>>
simple_cb_func == <<Maybe(<<Do({"bev"})>>)>>

\* The connection is made at most once.
simple_eventcb ==
    <<Alt(<< <<If("connected", <<Return>>, <<>>), Set("connected"),
               Get("time_task_ev", {"base", "bev"}, <<Return>>),
               Try({"time_task_ev"}, <<Return>>), Set("ticking")>>,
             <<>>,
             <<If("time_task_ev", <<Put("time_task_ev"), Unset("ticking")>>, <<>>), Put("bev")>>,
             <<>> >>)>>
simple_run ==
    <<New("base", {}), Try({}, <<Return>>),
      Get("bev", {"base"}, <<Return>>), Do({"bev"}), Do({"bev"}),
      Try({"bev"}, <<Put("bev"), Return>>),
      Forever(<<Alt(<< <<lev_on("bev", simple_readcb)>>, <<lev_on("bev", simple_eventcb)>>,
                       <<lev_on("ticking", simple_cb_func)>> >>)>>)>>
simple_client == Program(lev_main(simple_run), {"base"}, {})

(***************************************************************************)
(* The objects on the wire (common/object.c).                              *)
(***************************************************************************)
lev_fn_encode(b) == <<Get(b, {}, <<Fail>>), Do({b})>>
lev_encodeMsg(b) == <<Alt(<< <<Fail>>, <<Call(lev_fn_encode(b), <<Fail>>), Do({b})>> >>)>>
lev_fn_decode(b, o) == <<Alt(<< <<Fail>>, <<Do({b, o})>> >>)>>
lev_decodeMsg(b, o) ==
    <<Alt(<< <<Fail>>, <<Get(o, {b}, <<Fail>>), Call(lev_fn_decode(b, o), <<Put(o), Fail>>),
                         Do({b, o})>> >>)>>

\* A message is encoded, written to the peer and freed.
lev_write(b, peer) ==
    <<Call(lev_encodeMsg(b), <<>>), If(b, <<Do({b, peer}), Put(b)>>, <<>>)>>

(***************************************************************************)
(* client: prints what a peer sends, with a heartbeat from the first       *)
(* connection on; Peer connects again by itself and is never freed.  That  *)
(* peerConnectTo() returns a peer is not looked at.                        *)
(***************************************************************************)
lev_peerConnectTo(peer) ==
    <<Try({}, <<Fail>>), Get("new_bev", {"base"}, <<Fail>>),
      Try({"new_bev"}, <<Put("new_bev"), Fail>>),
      Get(peer, {"new_bev"}, <<Put("new_bev"), Fail>>), Put("new_bev")>>

client_myHeartbeat == <<Maybe(<<Do({"peer"})>>)>>
client_myReadCb == <<Loop(<<Do({"peer"})>>)>>
client_myEventCb == <<Alt(<< <<Do({"peer"}), Set("heartbeat")>>, <<>>, <<>> >>)>>
client_run ==
    <<New("base", {}), Call(lev_peerConnectTo("peer"), <<>>), Blind({"peer"}), Blind({"peer"}),
      Forever(<<Alt(<< <<lev_on("peer", client_myReadCb)>>, <<lev_on("peer", client_myEventCb)>>,
                       <<lev_on("heartbeat", client_myHeartbeat)>> >>)>>)>>
peer_client == Program(lev_main(client_run), {}, {})

(***************************************************************************)
(* object_client: the same in a thread, while main writes to the peer that *)
(* the thread has published in g_peer.  A message that cannot be taken out *)
(* of the buffer leaves the memory for it behind.                          *)
(***************************************************************************)
objc_myHeartbeat == lev_write("beat", "g_peer")
objc_myReadCb ==
    <<Forever(<<Maybe(<<Return>>), Maybe(<<Return>>),
                Alt(<< <<New("stream_bytes", {}), Maybe(<<Return>>),
                         Call(lev_decodeMsg("stream_bytes", "obj"), <<>>),
                         If("obj", <<Do({"obj"}), Put("obj")>>, <<>>), Put("stream_bytes")>>,
                       <<Return>> >>)>>)>>
objc_myEventCb == <<Alt(<< <<Do({"g_peer"}), Set("heartbeat")>>, <<>>, <<>> >>)>>
objc_threadFunc ==
    <<New("base", {}), Call(lev_peerConnectTo("g_peer"), <<>>),
      Blind({"g_peer"}), Blind({"g_peer"}), Blind({"g_peer"}),
      Forever(<<Alt(<< <<lev_on("g_peer", objc_myReadCb)>>, <<lev_on("g_peer", objc_myEventCb)>>,
                       <<lev_on("heartbeat", objc_myHeartbeat)>> >>)>>)>>
objc_runManual == <<Forever(<<If("g_peer", lev_write("bar", "g_peer"), <<>>)>>)>>
objc_main ==
    Program(<<Alt(<< <<>>, <<Get("winsock", {}, <<Exit>>)>> >>), Try({}, <<Exit>>),
              Spawn("io", objc_threadFunc), Call(objc_runManual, <<>>)>>,
            {"stream_bytes"}, {"winsock"})

(***************************************************************************)
(* stress_client: a timer writes to every peer of the set `peers`, and     *)
(* adds or frees one; a connection that ends is erased from the set before *)
(* the library frees it.  One of the ten threads is modelled: each has a   *)
(* base and a set of its own.                                              *)
(***************************************************************************)
stress_myReadCb == objc_myReadCb
stress_send == lev_write("record", "peer")
stress_connect == <<Call(lev_peerConnectTo("peer"), <<>>),
                    If("peer", <<Do({"peer"}), Set("in_peers")>>, <<>>)>>

\* peerClose() only flags the peer; eventcb() of peer.c frees it after this.
stress_myEventCb == <<Alt(<< <<>>, <<Do({"peer"}), Unset("in_peers"), Put("peer")>> >>)>>
stress_TimeTask ==
    <<If("in_peers", <<Loop(stress_send)>>, <<>>),
      Alt(<< <<If("peer", <<>>, stress_connect)>>,
             <<If("in_peers", <<Put("peer"), Unset("in_peers")>>, <<>>)>>,
             <<>> >>)>>
stress_run ==
    <<New("base", {})>> \o stress_connect
      \o <<Get("ev", {"base"}, <<Return>>), Try({"ev"}, <<Put("ev"), Return>>),
           Forever(<<Alt(<< <<lev_on("peer", stress_myReadCb)>>,
                            <<lev_on("peer", stress_myEventCb)>>,
                            <<Call(stress_TimeTask, <<>>)>> >>)>>)>>
stress_main ==
    Program(<<Alt(<< <<>>, <<Get("winsock", {}, <<Exit>>)>> >>), Try({}, <<Exit>>),
              Call(stress_run, <<>>), PutIf("winsock")>>,
            {"base", "peer", "stream_bytes"}, {"winsock"})

LibeventPrograms ==
    [echo_server |-> echo_server, time_server |-> time_server, simple_client |-> simple_client,
     peer_client |-> peer_client, object_client |-> objc_main, stress_client |-> stress_main]
=============================================================================
