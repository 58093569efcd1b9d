------------------------- MODULE WorkerServerProofs -------------------------
(***************************************************************************)
(* The references of the servers' contexts, for any number of connections  *)
(* and messages: a context is freed by the loop that works with it last,   *)
(* and by no other, and its session is never worked with by two threads.   *)
(***************************************************************************)
EXTENDS WorkerServer, TLAPS

Kinds == {"login", "ping", "sum"}

TypeOK ==
  /\ client \in [Conns -> {"off", "queued", "on", "closing", "gone"}]
  /\ session_ \in Conns \cup {None}
  /\ inbox \in [Conns -> Seq(Kinds)]
  /\ ctxs \in [Loops -> SUBSET Conns]
  /\ ctx_set_ \in [Loops -> SUBSET Conns]
  /\ queue \subseteq Conns
  /\ busy \in [Loops -> Conns \cup {None}]
  /\ closing \in [Loops -> Conns \cup {None}]
  /\ ref \in [Conns -> Int]
  /\ detached \subseteq Conns /\ moved \subseteq Conns
  /\ released \in [Conns -> {"no", "listen", "worker"}]

\* a client says its login first, and once: a login that has not been handled
\* is the first message of its connection
Logins ==
  \A c \in Conns :
    /\ \A i \in 1 .. Len(inbox[c]) : inbox[c][i] = "login" => i = 1 /\ c \notin detached \cup moved
    /\ client[c] \in {"off", "queued"} => inbox[c] = <<>> /\ c \notin detached \cup moved /\ c # session_

\* the worker's side of a context is in one place
OnePlace(c) ==
  /\ c \in ctxs["listen"] => closing["listen"] # c /\ c \notin moved
  /\ c \in detached => c \in ctxs["listen"] /\ c \notin moved
  /\ c \in queue => c \notin ctxs["worker"] /\ closing["worker"] # c /\ c \in moved
  /\ c \in ctxs["worker"] => closing["worker"] # c /\ c \in moved
  /\ closing["worker"] = c => c \in moved

\* a context that was handed over is not connected again
Handed(c) ==
  /\ c \in moved => (ref[c] > 0 \/ released[c] # "no") /\ c \notin ctx_set_["listen"]
  /\ c \in ctx_set_["worker"] => c \in moved

Counted(c) ==
  /\ ref[c] = Held(c)
  /\ released[c] # "no" =>
       /\ Held(c) = 0 /\ c \notin ctx_set_["listen"]
       /\ c \in ctx_set_["worker"] => released[c] = "listen" /\ c \in moved

Places == \A c \in Conns : OnePlace(c) /\ Handed(c) /\ Counted(c)

\* a loop works with contexts it has, and closes none of them meanwhile
Working == \A l \in Loops : busy[l] # None => busy[l] \in ctxs[l]

IInv == TypeOK /\ Logins /\ Places /\ Working

\* Connections are positive numbers: None is none of them.
LEMMA ConnsAreSome == \A c \in Conns : c \in Nat /\ c # None
  BY ConnsAssumption DEF Conns, None

\* The actions, as one quantifier.
LEMMA Cases ==
  ASSUME Next
  PROVE  \/ connect \/ Client_OnTimer
         \/ \E c \in Conns :
              \/ Client_OnAddCtx(c) \/ Client_OnMessage(c) \/ ClientCloses(c) \/ Client_OnRelease(c)
              \/ OnConnect(c) \/ Worker_OnAddCtx(c) \/ Quiet(c) \/ Breaks(c)
         \/ \E l \in Loops :
              \/ decode(l) \/ refuse(l) \/ OnRelease(l) \/ OnTimer(l)
              \/ \E c \in Conns : OnMessage(l, c) \/ OnClose(l, c)
  BY DEF Next, ServerStep, Loops,
         Listen_OnMessage, Listen_decode, Listen_OnClose, Listen_OnRelease, Listen_OnTimer,
         Worker_OnMessage, Worker_decode, Worker_OnClose, Worker_OnRelease, Worker_OnTimer

\* Nothing is in any place before the first connection.
LEMMA InitHolds ==
  ASSUME Init
  PROVE  IInv
<1>1. TypeOK
  BY DEF Init, TypeOK, Loops
<1>2. Logins
  BY ConnsAreSome DEF Init, Logins
<1>3. Places
  <2> SUFFICES ASSUME NEW c \in Conns PROVE OnePlace(c) /\ Handed(c) /\ Counted(c)
    BY DEF Places
  <2>1. c # None
    BY ConnsAreSome
  <2>2. \A l \in Loops : ctxs[l] = {} /\ ctx_set_[l] = {} /\ closing[l] = None
    BY DEF Init
  <2>3. ref[c] = 0 /\ released[c] = "no" /\ queue = {} /\ detached = {} /\ moved = {}
    BY DEF Init
  <2>4. "listen" \in Loops /\ "worker" \in Loops
    BY DEF Loops
  <2>5. Held(c) = 0
    BY <2>1, <2>2, <2>3, <2>4 DEF Held
  <2> QED BY <2>1, <2>2, <2>3, <2>4, <2>5 DEF OnePlace, Handed, Counted
<1>4. Working
  BY DEF Init, Working
<1> QED BY <1>1, <1>2, <1>3, <1>4 DEF IInv

\* Sending appends messages of the kinds sent.
LEMMA PostType ==
  ASSUME TypeOK, NEW c \in Conns, NEW kinds \in Seq(Kinds), Post(c, kinds)
  PROVE  /\ inbox' \in [Conns -> Seq(Kinds)]
         /\ \A d \in Conns : d # c => inbox'[d] = inbox[d]
         /\ Len(inbox'[c]) = Len(inbox[c]) + Len(kinds)
         /\ \A i \in 1 .. Len(inbox[c]) : inbox'[c][i] = inbox[c][i]
         /\ \A i \in 1 .. Len(kinds) : inbox'[c][Len(inbox[c]) + i] = kinds[i]
<1> DEFINE old == inbox[c]
<1>1. old \in Seq(Kinds)
  BY DEF TypeOK
<1>2. inbox' = [inbox EXCEPT ![c] = old \o kinds]
  BY DEF Post, TypeOK
<1> HIDE DEF old
<1>3. old \o kinds \in Seq(Kinds)
  BY <1>1
<1>4. /\ Len(old \o kinds) = Len(old) + Len(kinds)
      /\ \A i \in 1 .. Len(old) : (old \o kinds)[i] = old[i]
      /\ \A i \in 1 .. Len(kinds) : (old \o kinds)[Len(old) + i] = kinds[i]
  BY <1>1
<1>5. inbox'[c] = old \o kinds
  BY <1>2 DEF TypeOK
<1>6. inbox' \in [Conns -> Seq(Kinds)] /\ \A d \in Conns : d # c => inbox'[d] = inbox[d]
  BY <1>2, <1>3 DEF TypeOK
<1> QED BY <1>4, <1>5, <1>6, Zenon DEF old

\* What is left behind the first message.
LEMMA Rest ==
  ASSUME NEW s \in Seq(Kinds), s # <<>>
  PROVE  /\ Tail(s) \in Seq(Kinds) /\ Len(s) \in Nat \ {0}
         /\ Len(Tail(s)) = Len(s) - 1 /\ Head(s) = s[1]
         /\ \A i \in 1 .. Len(s) - 1 : Tail(s)[i] = s[i + 1]
  OBVIOUS

\* decode takes the first message, and only a login changes a reference.
LEMMA MessageTaken ==
  ASSUME TypeOK, NEW l \in Loops, decode(l)
  PROVE  \E c \in Conns :
           /\ busy[l] = c /\ inbox[c] # <<>>
           /\ inbox' = [inbox EXCEPT ![c] = Tail(@)]
           /\ \/ UNCHANGED <<detached, ref>>
              \/ /\ Head(inbox[c]) = "login"
                 /\ detached' = detached \cup {c} /\ ref' = [ref EXCEPT ![c] = @ + 1]
           /\ UNCHANGED <<clientVars, ctxs, ctx_set_, queue, closing, released, moved>>
           /\ busy' = busy \/ busy' = [busy EXCEPT ![l] = None]
<1>1. busy[l] \in Conns
  BY DEF decode, TypeOK
<1> DEFINE c == busy[l]
           kind == Head(inbox[c])
<1>2. /\ inbox[c] # <<>> /\ inbox' = [inbox EXCEPT ![c] = Tail(@)]
      /\ UNCHANGED <<clientVars, ctxs, ctx_set_, closing, released>>
      /\ busy' = busy \/ busy' = [busy EXCEPT ![l] = None]
      /\ \/ onPing(c) \/ onReqSum(c) \/ Plain_onLogin(c)
         \/ kind = "login" /\ onLogin(c)
  BY Zenon DEF decode
<1>3. /\ UNCHANGED <<queue, moved>>
      /\ \/ UNCHANGED <<detached, ref>>
         \/ kind = "login" /\ detached' = detached \cup {c} /\ ref' = [ref EXCEPT ![c] = @ + 1]
  BY <1>2, Zenon DEF onPing, onReqSum, Plain_onLogin, onLogin
<1>4. UNCHANGED <<clientVars, ctxs, ctx_set_, queue, closing, released, moved>>
  BY <1>2, <1>3
<1> HIDE DEF c
<1> QED BY <1>1, <1>2, <1>3, <1>4, Zenon DEF c

\* The client's login, and its timer's messages, none of which is a login.
LEMMA Sent ==
  ASSUME TypeOK
  PROVE  /\ \A c \in Conns : Client_OnAddCtx(c) => <<"login">> \in Seq(Kinds) /\ Post(c, <<"login">>)
         /\ Client_OnTimer =>
              /\ session_ \in Conns
              /\ \E kinds \in Seq(Kinds) :
                   Post(session_, kinds) /\ \A i \in 1 .. Len(kinds) : kinds[i] # "login"
<1>1. <<"login">> \in Seq(Kinds) /\ <<"ping">> \in Seq(Kinds) /\ <<"ping", "sum">> \in Seq(Kinds)
  BY DEF Kinds
<1>2. ASSUME Client_OnTimer
      PROVE  /\ session_ \in Conns
             /\ \E kinds \in Seq(Kinds) :
                  Post(session_, kinds) /\ \A i \in 1 .. Len(kinds) : kinds[i] # "login"
  <2>1. session_ \in Conns
    BY <1>2 DEF Client_OnTimer, TypeOK
  <2>2. Post(session_, <<"ping", "sum">>) \/ Post(session_, <<"ping">>)
    BY <1>2 DEF Client_OnTimer
  <2>3. /\ \A i \in 1 .. Len(<<"ping", "sum">>) : <<"ping", "sum">>[i] # "login"
        /\ \A i \in 1 .. Len(<<"ping">>) : <<"ping">>[i] # "login"
    OBVIOUS
  <2> QED BY <1>1, <2>1, <2>2, <2>3, Zenon
<1> QED BY <1>1, <1>2 DEF Client_OnAddCtx

\* A loop's set with one context more, or one less.
LEMMA SetChanged ==
  ASSUME NEW f \in [Loops -> SUBSET Conns], NEW l \in Loops, NEW c \in Conns
  PROVE  /\ [f EXCEPT ![l] = @ \cup {c}] \in [Loops -> SUBSET Conns]
         /\ [f EXCEPT ![l] = @ \ {c}] \in [Loops -> SUBSET Conns]
<1>1. f[l] \cup {c} \in SUBSET Conns /\ f[l] \ {c} \in SUBSET Conns
  OBVIOUS
<1> QED BY <1>1

\* Every step keeps the types.
LEMMA TypeHolds ==
  ASSUME IInv, [Next]_vars
  PROVE  TypeOK'
<1> USE DEF serverVars, clientVars, netVars
<1>1. TypeOK
  BY DEF IInv
<1>2. CASE connect
  BY <1>1, <1>2 DEF connect, TypeOK
<1>3. CASE Client_OnTimer
  <2>1. PICK kinds \in Seq(Kinds) : Post(session_, kinds)
    BY <1>1, <1>3, Sent
  <2>2. session_ \in Conns
    BY <1>1, <1>3, Sent
  <2>3. inbox' \in [Conns -> Seq(Kinds)]
    BY <1>1, <2>1, <2>2, PostType
  <2> QED BY <1>1, <1>3, <2>3 DEF Client_OnTimer, TypeOK
<1>4. ASSUME NEW c \in Conns, Client_OnAddCtx(c)
      PROVE  TypeOK'
  <2>1. inbox' \in [Conns -> Seq(Kinds)]
    BY <1>1, <1>4, Sent, PostType, Zenon
  <2> QED BY <1>1, <1>4, <2>1, Zenon DEF Client_OnAddCtx, TypeOK
<1>5. ASSUME NEW c \in Conns, Client_OnMessage(c) \/ ClientCloses(c) \/ Client_OnRelease(c)
      PROVE  TypeOK'
  BY <1>1, <1>5, Zenon DEF Client_OnMessage, ClientCloses, Client_OnClose, Client_OnRelease, TypeOK
<1>6. ASSUME NEW c \in Conns, OnConnect(c) \/ Worker_OnAddCtx(c)
      PROVE  TypeOK'
  <2>1. "listen" \in Loops /\ "worker" \in Loops
    BY DEF Loops
  <2>2. ctxs \in [Loops -> SUBSET Conns] /\ ctx_set_ \in [Loops -> SUBSET Conns]
    BY <1>1 DEF TypeOK
  <2>3. CASE OnConnect(c)
    <3>1. ctxs' \in [Loops -> SUBSET Conns] /\ ctx_set_' \in [Loops -> SUBSET Conns]
      BY <2>1, <2>2, <2>3, SetChanged DEF OnConnect
    <3> QED BY <1>1, <2>3, <3>1 DEF OnConnect, TypeOK
  <2>4. CASE Worker_OnAddCtx(c)
    <3>1. ctxs' \in [Loops -> SUBSET Conns] /\ ctx_set_' \in [Loops -> SUBSET Conns]
      BY <2>1, <2>2, <2>4, SetChanged DEF Worker_OnAddCtx
    <3> QED BY <1>1, <2>4, <3>1 DEF Worker_OnAddCtx, TypeOK
  <2> QED BY <1>6, <2>3, <2>4
<1>7. ASSUME NEW c \in Conns, Quiet(c) \/ Breaks(c)
      PROVE  TypeOK'
  BY <1>1, <1>7 DEF Quiet, Breaks, TypeOK
<1>8. ASSUME NEW l \in Loops, OnTimer(l)
      PROVE  TypeOK'
  BY <1>1, <1>8 DEF OnTimer, TypeOK
<1>9. ASSUME NEW l \in Loops, OnRelease(l)
      PROVE  TypeOK'
  <2>1. closing[l] \in Conns /\ l \in {"listen", "worker"}
    BY <1>1, <1>9 DEF OnRelease, TypeOK, Loops
  <2>2. ref' \in [Conns -> Int] /\ closing' \in [Loops -> Conns \cup {None}]
    BY <1>1, <1>9, <2>1 DEF OnRelease, TypeOK
  <2>3. released' \in [Conns -> {"no", "listen", "worker"}]
    BY <1>1, <1>9, <2>1, Zenon DEF OnRelease, TypeOK
  <2>4. ctx_set_ \in [Loops -> SUBSET Conns]
    BY <1>1 DEF TypeOK
  <2>5. ctx_set_' = ctx_set_ \/ ctx_set_' = [ctx_set_ EXCEPT ![l] = @ \ {closing[l]}]
    BY <1>9 DEF OnRelease
  <2>6. ctx_set_' \in [Loops -> SUBSET Conns]
    BY <1>9, <2>1, <2>4, <2>5, SetChanged
  <2> QED BY <1>1, <1>9, <2>2, <2>3, <2>6 DEF OnRelease, TypeOK
<1>10. ASSUME NEW l \in Loops, NEW c \in Conns, OnMessage(l, c)
       PROVE  TypeOK'
  BY <1>1, <1>10 DEF OnMessage, TypeOK
<1>13. ASSUME NEW l \in Loops, decode(l)
       PROVE  TypeOK'
  <2>1. PICK c \in Conns :
           /\ busy[l] = c /\ inbox[c] # <<>>
           /\ inbox' = [inbox EXCEPT ![c] = Tail(@)]
           /\ \/ UNCHANGED <<detached, ref>>
              \/ detached' = detached \cup {c} /\ ref' = [ref EXCEPT ![c] = @ + 1]
           /\ UNCHANGED <<clientVars, ctxs, ctx_set_, queue, closing, released, moved>>
           /\ busy' = busy \/ busy' = [busy EXCEPT ![l] = None]
    BY <1>1, <1>13, MessageTaken, Zenon
  <2>2. Tail(inbox[c]) \in Seq(Kinds)
    BY <1>1, <2>1, Rest DEF TypeOK
  <2>3. inbox' \in [Conns -> Seq(Kinds)]
    BY <1>1, <2>1, <2>2 DEF TypeOK
  <2>4. detached' \subseteq Conns /\ ref' \in [Conns -> Int]
    BY <1>1, <2>1 DEF TypeOK
  <2>5. busy' \in [Loops -> Conns \cup {None}]
    BY <1>1, <2>1 DEF TypeOK
  <2> QED BY <1>1, <2>1, <2>3, <2>4, <2>5, Zenon DEF TypeOK
<1>14. ASSUME NEW l \in Loops, refuse(l)
       PROVE  TypeOK'
  <2>1. inbox' \in [Conns -> Seq(Kinds)]
    <3>1. <<>> \in Seq(Kinds) /\ inbox' = [inbox EXCEPT ![busy[l]] = <<>>]
      BY <1>14 DEF refuse
    <3> QED BY <1>1, <3>1 DEF TypeOK
  <2>2. busy' \in [Loops -> Conns \cup {None}]
    BY <1>1, <1>14 DEF refuse, TypeOK
  <2> QED BY <1>1, <1>14, <2>1, <2>2, Zenon DEF refuse, TypeOK
<1>11. ASSUME NEW l \in Loops, NEW c \in Conns, OnClose(l, c)
       PROVE  TypeOK'
  <2>1. ctxs' \in [Loops -> SUBSET Conns] /\ closing' \in [Loops -> Conns \cup {None}]
    BY <1>1, <1>11 DEF OnClose, TypeOK
  <2>2. detached' \subseteq Conns /\ queue' \subseteq Conns /\ moved' \subseteq Conns
    BY <1>1, <1>11 DEF OnClose, ListenOnClose, TypeOK
  <2>3. ctx_set_' \in [Loops -> SUBSET Conns]
    <3>1. ctx_set_' = ctx_set_ \/ ctx_set_' = [ctx_set_ EXCEPT !["listen"] = @ \ {c}]
      BY <1>11 DEF OnClose, ListenOnClose
    <3>2. ctx_set_ \in [Loops -> SUBSET Conns] /\ "listen" \in Loops
      BY <1>1 DEF TypeOK, Loops
    <3> QED BY <3>1, <3>2, SetChanged
  <2> QED BY <1>1, <1>11, <2>1, <2>2, <2>3 DEF OnClose, TypeOK
<1>12. CASE UNCHANGED vars
  BY <1>1, <1>12 DEF vars, TypeOK
<1> QED BY <1>2, <1>3, <1>4, <1>5, <1>6, <1>7, <1>8, <1>9, <1>10, <1>11, <1>12, <1>13, <1>14, Cases

\* A client's login stays the first message, and is handled once.
LEMMA LoginsHold ==
  ASSUME IInv, [Next]_vars
  PROVE  Logins'
<1> USE DEF serverVars, clientVars, netVars
<1>1. TypeOK /\ Logins
  BY DEF IInv
<1>2. CASE connect
  BY <1>1, <1>2 DEF connect, Logins, TypeOK
<1>3. CASE Client_OnTimer
  <2>1. PICK kinds \in Seq(Kinds) : Post(session_, kinds) /\ \A i \in 1 .. Len(kinds) : kinds[i] # "login"
    BY <1>1, <1>3, Sent
  <2>2. session_ \in Conns
    BY <1>1, <1>3, Sent
  <2> DEFINE c == session_
  <2>3. /\ \A d \in Conns : d # c => inbox'[d] = inbox[d]
        /\ Len(inbox'[c]) = Len(inbox[c]) + Len(kinds)
        /\ \A i \in 1 .. Len(inbox[c]) : inbox'[c][i] = inbox[c][i]
        /\ \A i \in 1 .. Len(kinds) : inbox'[c][Len(inbox[c]) + i] = kinds[i]
    BY <1>1, <2>1, <2>2, PostType
  <2>4. UNCHANGED <<client, session_, detached, moved>>
    BY <1>3 DEF Client_OnTimer
  <2>5. Len(inbox[c]) \in Nat /\ Len(kinds) \in Nat
    BY <1>1, <2>1, <2>2 DEF TypeOK
  <2>6. \A d \in Conns : d # c =>
          /\ \A i \in 1 .. Len(inbox'[d]) : inbox'[d][i] = "login" => i = 1 /\ d \notin detached \cup moved
          /\ client[d] \in {"off", "queued"} => inbox'[d] = <<>> /\ d \notin detached \cup moved
    BY <1>1, <2>3 DEF Logins
  <2>7. ASSUME NEW i \in 1 .. Len(inbox'[c]), inbox'[c][i] = "login"
        PROVE  i = 1 /\ c \notin detached \cup moved
    <3>1. CASE i \in 1 .. Len(inbox[c])
      BY <1>1, <2>2, <2>3, <2>7, <3>1, Zenon DEF Logins
    <3>2. CASE i \notin 1 .. Len(inbox[c])
      <4>1. i - Len(inbox[c]) \in 1 .. Len(kinds) /\ i = Len(inbox[c]) + (i - Len(inbox[c]))
        BY <2>3, <2>5, <3>2
      <4>2. inbox'[c][i] = kinds[i - Len(inbox[c])]
        BY <2>3, <4>1
      <4> QED BY <2>1, <2>7, <4>1, <4>2
    <3> QED BY <3>1, <3>2
  <2>8. client[c] \notin {"off", "queued"}
    BY <1>1, <2>2 DEF Logins
  <2> HIDE DEF c
  <2>9. \A d \in Conns : d # c => (client[d] \in {"off", "queued"} => d # session_)
    BY <1>1 DEF Logins
  <2> QED BY <2>4, <2>6, <2>7, <2>8, <2>9 DEF Logins
<1>4. ASSUME NEW c \in Conns, Client_OnAddCtx(c)
      PROVE  Logins'
  <2>1. /\ client[c] = "queued" /\ client' = [client EXCEPT ![c] = "on"] /\ session_' = c
        /\ UNCHANGED <<detached, moved>>
    BY <1>4 DEF Client_OnAddCtx
  <2>2. inbox[c] = <<>> /\ c \notin detached \cup moved
    BY <1>1, <2>1 DEF Logins
  <2>3. /\ \A d \in Conns : d # c => inbox'[d] = inbox[d]
        /\ Len(inbox'[c]) = Len(inbox[c]) + Len(<<"login">>)
    BY <1>1, <1>4, Sent, PostType, Zenon
  <2>4. Len(inbox'[c]) = 1
    BY <2>2, <2>3
  <2>5. \A d \in Conns : client'[d] = IF d = c THEN "on" ELSE client[d]
    BY <1>1, <2>1 DEF TypeOK
  <2>6. \A i \in 1 .. Len(inbox'[c]) : i = 1
    BY <2>4
  <2>7. \A d \in Conns : d # c =>
          /\ \A i \in 1 .. Len(inbox'[d]) : inbox'[d][i] = "login" => i = 1 /\ d \notin detached \cup moved
          /\ client[d] \in {"off", "queued"} => inbox'[d] = <<>> /\ d \notin detached \cup moved
    BY <1>1, <2>3 DEF Logins
  <2> QED BY <2>1, <2>2, <2>5, <2>6, <2>7 DEF Logins
<1>5. ASSUME NEW c \in Conns, Client_OnMessage(c) \/ ClientCloses(c) \/ Client_OnRelease(c)
      PROVE  Logins'
  <2>1. UNCHANGED <<inbox, detached, moved>> /\ session_' \in {session_, None}
    BY <1>5 DEF Client_OnMessage, ClientCloses, Client_OnClose, Client_OnRelease
  <2>2. \A d \in Conns : client'[d] \in {"off", "queued"} => client[d] = client'[d]
    BY <1>1, <1>5 DEF Client_OnMessage, ClientCloses, Client_OnClose, Client_OnRelease, TypeOK
  <2> QED BY <1>1, <2>1, <2>2, ConnsAreSome DEF Logins
<1>6. ASSUME NEW c \in Conns, OnConnect(c) \/ Worker_OnAddCtx(c) \/ Quiet(c) \/ Breaks(c)
      PROVE  Logins'
  <2>1. UNCHANGED <<inbox, detached, moved, client, session_>>
    BY <1>6 DEF OnConnect, Worker_OnAddCtx, Quiet, Breaks
  <2> QED BY <1>1, <2>1 DEF Logins
<1>7. ASSUME NEW l \in Loops, OnTimer(l) \/ OnRelease(l)
      PROVE  Logins'
  <2>1. UNCHANGED <<inbox, detached, moved, client, session_>>
    BY <1>7 DEF OnTimer, OnRelease
  <2> QED BY <1>1, <2>1 DEF Logins
<1>8. ASSUME NEW l \in Loops, decode(l)
      PROVE  Logins'
  <2>1. PICK c \in Conns :
           /\ inbox[c] # <<>> /\ inbox' = [inbox EXCEPT ![c] = Tail(@)]
           /\ detached' = detached \/ detached' = detached \cup {c}
           /\ UNCHANGED <<client, session_, moved>>
    BY <1>1, <1>8, MessageTaken, Zenon
  <2> DEFINE old == inbox[c]
  <2>2. old \in Seq(Kinds) /\ old # <<>>
    BY <1>1, <2>1 DEF TypeOK
  <2>3. inbox'[c] = Tail(old) /\ \A d \in Conns : d # c => inbox'[d] = inbox[d]
    BY <1>1, <2>1 DEF TypeOK
  <2>4. \A i \in 1 .. Len(old) : old[i] = "login" => i = 1
    BY <1>1, <2>1 DEF Logins
  <2>5. client[c] \notin {"off", "queued"}
    BY <1>1, <2>1 DEF Logins
  <2> HIDE DEF old
  <2>6. ASSUME NEW i \in 1 .. Len(Tail(old))
        PROVE  Tail(old)[i] # "login"
    <3>1. /\ Len(old) \in Nat \ {0} /\ Len(Tail(old)) = Len(old) - 1
          /\ \A j \in 1 .. Len(old) - 1 : Tail(old)[j] = old[j + 1]
      BY <2>2, Rest
    <3>2. i + 1 \in 1 .. Len(old) /\ i + 1 # 1 /\ Tail(old)[i] = old[i + 1]
      BY <3>1
    <3> QED BY <2>4, <3>2
  <2>7. \A d \in Conns : d # c =>
          /\ \A i \in 1 .. Len(inbox'[d]) : inbox'[d][i] = "login" => i = 1 /\ d \notin detached' \cup moved
          /\ client[d] \in {"off", "queued"} => inbox'[d] = <<>> /\ d \notin detached' \cup moved /\ d # session_
    BY <1>1, <2>1, <2>3 DEF Logins
  <2> QED BY <2>1, <2>3, <2>5, <2>6, <2>7 DEF Logins
<1>11. ASSUME NEW l \in Loops, refuse(l)
       PROVE  Logins'
  <2>1. inbox' = [inbox EXCEPT ![busy[l]] = <<>>] /\ UNCHANGED <<client, session_, detached, moved>>
    BY <1>11 DEF refuse
  <2>2. \A d \in Conns : inbox'[d] = inbox[d] \/ inbox'[d] = <<>>
    BY <1>1, <2>1 DEF TypeOK
  <2>3. \A d \in Conns : inbox'[d] = <<>> => 1 .. Len(inbox'[d]) = {}
    OBVIOUS
  <2> QED BY <1>1, <2>1, <2>2, <2>3, Zenon DEF Logins
<1>12. ASSUME NEW l \in Loops, NEW c \in Conns, OnMessage(l, c)
       PROVE  Logins'
  <2>1. UNCHANGED <<inbox, detached, moved, client, session_>>
    BY <1>12 DEF OnMessage
  <2> QED BY <1>1, <2>1 DEF Logins
<1>9. ASSUME NEW l \in Loops, NEW c \in Conns, OnClose(l, c)
      PROVE  Logins'
  <2>1. UNCHANGED <<inbox, client, session_>> /\ detached' \cup moved' \subseteq detached \cup moved
    BY <1>9 DEF OnClose, ListenOnClose
  <2> QED BY <1>1, <2>1 DEF Logins
<1>10. CASE UNCHANGED vars
  BY <1>1, <1>10 DEF vars, Logins
<1> QED BY <1>2, <1>3, <1>4, <1>5, <1>6, <1>7, <1>8, <1>9, <1>10, <1>11, <1>12, Cases

placeVars == <<ctxs, ctx_set_, queue, closing, ref, detached, released, moved>>

\* A step that touches none of the places keeps them.
LEMMA PlacesKept ==
  ASSUME Places, UNCHANGED placeVars
  PROVE  Places'
  BY DEF Places, placeVars, OnePlace, Handed, Counted, Held

\* A new context has one reference, the listening loop's.
LEMMA ConnectPlaces ==
  ASSUME TypeOK, Places, NEW c \in Conns, OnConnect(c)
  PROVE  Places'
<1>1. /\ ref[c] = 0 /\ released[c] = "no"
      /\ UNCHANGED <<queue, closing, detached, released, moved>>
      /\ ref' = [ref EXCEPT ![c] = 1]
      /\ ctxs' = [ctxs EXCEPT !["listen"] = @ \cup {c}]
      /\ ctx_set_' = [ctx_set_ EXCEPT !["listen"] = @ \cup {c}]
  BY DEF OnConnect
<1>2. /\ ctxs'["listen"] = ctxs["listen"] \cup {c} /\ ctxs'["worker"] = ctxs["worker"]
      /\ ctx_set_'["listen"] = ctx_set_["listen"] \cup {c} /\ ctx_set_'["worker"] = ctx_set_["worker"]
      /\ ref'[c] = 1 /\ \A d \in Conns : d # c => ref'[d] = ref[d]
  BY <1>1 DEF TypeOK, Loops
<1>3. c \notin moved /\ Held(c) = 0
  BY <1>1 DEF Places, Handed, Counted
<1>4. ASSUME NEW d \in Conns, d # c
      PROVE  OnePlace(d)' /\ Handed(d)' /\ Counted(d)'
  <2>1. OnePlace(d) /\ Handed(d) /\ Counted(d)
    BY DEF Places
  <2>2. Held(d)' = Held(d)
    BY <1>1, <1>2, <1>4 DEF Held
  <2> QED BY <1>1, <1>2, <1>4, <2>1, <2>2 DEF OnePlace, Handed, Counted
<1>5. OnePlace(c)' /\ Handed(c)' /\ Counted(c)'
  <2>1. OnePlace(c) /\ Handed(c) /\ Counted(c)
    BY DEF Places
  <2>2. /\ closing["listen"] # c /\ c \notin detached /\ c \notin queue
        /\ c \notin ctxs["worker"] /\ closing["worker"] # c
    BY <1>3 DEF Held
  <2>3. Held(c)' = 1
    BY <1>1, <1>2, <2>2 DEF Held
  <2> QED BY <1>1, <1>2, <1>3, <2>1, <2>2, <2>3 DEF OnePlace, Handed, Counted
<1> QED BY <1>4, <1>5 DEF Places

\* The worker's loop takes a context over: its reference goes from the queue to
\* the loop.
LEMMA AddPlaces ==
  ASSUME TypeOK, Places, NEW c \in Conns, Worker_OnAddCtx(c)
  PROVE  Places'
<1>1. /\ c \in queue /\ queue' = queue \ {c} /\ closing["worker"] = None
      /\ UNCHANGED <<closing, ref, detached, released, moved>>
      /\ ctxs' = [ctxs EXCEPT !["worker"] = @ \cup {c}]
      /\ ctx_set_' = [ctx_set_ EXCEPT !["worker"] = @ \cup {c}]
  BY DEF Worker_OnAddCtx, Free
<1>2. /\ ctxs'["listen"] = ctxs["listen"] /\ ctxs'["worker"] = ctxs["worker"] \cup {c}
      /\ ctx_set_'["listen"] = ctx_set_["listen"] /\ ctx_set_'["worker"] = ctx_set_["worker"] \cup {c}
  BY <1>1 DEF TypeOK, Loops
<1>3. c # None
  BY ConnsAreSome
<1> SUFFICES ASSUME NEW d \in Conns PROVE OnePlace(d)' /\ Handed(d)' /\ Counted(d)'
  BY DEF Places
<1>4. OnePlace(d) /\ Handed(d) /\ Counted(d)
  BY DEF Places
<1>5. Held(d)' = Held(d)
  BY <1>1, <1>2 DEF Held
<1>6. d = c => Held(d) # 0 /\ released[d] = "no" /\ d \in moved
  <2>1. d = c => Held(d) # 0
    BY <1>1 DEF Held
  <2> QED BY <1>1, <1>4, <2>1 DEF Counted, OnePlace
<1>7. OnePlace(d)'
  BY <1>1, <1>2, <1>3, <1>4 DEF OnePlace
<1>8. Handed(d)'
  BY <1>1, <1>2, <1>4, <1>6 DEF Handed
<1>9. Counted(d)'
  BY <1>1, <1>2, <1>4, <1>5, <1>6 DEF Counted
<1> QED BY <1>7, <1>8, <1>9

\* A login adds the worker's reference, in the listening loop and once.
LEMMA MessagePlaces ==
  ASSUME TypeOK, Logins, Places, Working, NEW l \in Loops, decode(l)
  PROVE  Places'
<1>c. PICK c \in Conns :
        /\ busy[l] = c /\ inbox[c] # <<>>
        /\ \/ UNCHANGED <<detached, ref>>
           \/ /\ Head(inbox[c]) = "login"
              /\ detached' = detached \cup {c} /\ ref' = [ref EXCEPT ![c] = @ + 1]
        /\ UNCHANGED <<ctxs, ctx_set_, queue, closing, released, moved>>
  BY MessageTaken, Zenon
<1>1. c \in ctxs[l] /\ UNCHANGED <<ctxs, ctx_set_, queue, closing, released, moved>>
  BY <1>c, ConnsAreSome DEF Working
<1>2. CASE UNCHANGED <<detached, ref>>
  BY <1>1, <1>2, PlacesKept DEF placeVars
<1>3. CASE /\ Head(inbox[c]) = "login"
           /\ detached' = detached \cup {c} /\ ref' = [ref EXCEPT ![c] = @ + 1]
  <2>1. c \notin detached /\ c \notin moved
    <3> DEFINE old == inbox[c]
    <3>1. old \in Seq(Kinds) /\ old # <<>>
      BY <1>c DEF TypeOK
    <3> HIDE DEF old
    <3>2. Head(old) = old[1] /\ 1 \in 1 .. Len(old)
      BY <3>1
    <3> QED BY <1>3, <3>2 DEF Logins, old
  <2>2. OnePlace(c) /\ Handed(c) /\ Counted(c)
    BY DEF Places
  <2>3. /\ c \notin queue /\ c \notin ctxs["worker"] /\ closing["worker"] # c /\ c \in ctxs["listen"]
    BY <1>1, <2>1, <2>2, Zenon DEF OnePlace, Loops
  <2>4. ref'[c] = ref[c] + 1 /\ \A d \in Conns : d # c => ref'[d] = ref[d]
    BY <1>3 DEF TypeOK
  <2>5. Held(c) = 1 /\ Held(c)' = 2
    BY <1>1, <1>3, <2>1, <2>3 DEF Held
  <2>6. OnePlace(c)' /\ Handed(c)' /\ Counted(c)'
    <3>1. OnePlace(c)'
      BY <1>1, <1>3, <2>1, <2>2, <2>3, Zenon DEF OnePlace
    <3>2. ref[c] = 1 /\ released[c] = "no"
      BY <2>2, <2>5 DEF Counted
    <3>3. ref'[c] = 2
      BY <2>4, <3>2
    <3>4. Handed(c)'
      BY <1>1, <2>1, <2>2 DEF Handed
    <3>5. Counted(c)'
      BY <1>1, <2>5, <3>2, <3>3 DEF Counted
    <3> QED BY <3>1, <3>4, <3>5
  <2>7. ASSUME NEW d \in Conns, d # c
        PROVE  OnePlace(d)' /\ Handed(d)' /\ Counted(d)'
    <3>1. OnePlace(d) /\ Handed(d) /\ Counted(d)
      BY DEF Places
    <3>2. Held(d)' = Held(d)
      BY <1>1, <1>3, <2>7 DEF Held
    <3> QED BY <1>1, <1>3, <2>4, <2>7, <3>1, <3>2 DEF OnePlace, Handed, Counted
  <2> QED BY <2>6, <2>7 DEF Places
<1> QED BY <1>c, <1>2, <1>3

\* The listening loop gives the worker's reference to the worker's queue.
LEMMA ClosePlaces ==
  ASSUME TypeOK, Places, NEW l \in Loops, NEW c \in Conns, OnClose(l, c)
  PROVE  Places'
<1>1. /\ closing[l] = None /\ c \in ctxs[l] /\ UNCHANGED <<ref, released>>
      /\ ctxs' = [ctxs EXCEPT ![l] = @ \ {c}] /\ closing' = [closing EXCEPT ![l] = c]
  BY DEF OnClose, Free
<1>2. /\ ctxs'[l] = ctxs[l] \ {c} /\ closing'[l] = c
      /\ \A k \in Loops : k # l => ctxs'[k] = ctxs[k] /\ closing'[k] = closing[k]
  BY <1>1 DEF TypeOK
<1>3. c # None /\ "listen" \in Loops /\ "worker" \in Loops /\ l \in {"listen", "worker"}
  BY ConnsAreSome DEF Loops
<1>4. CASE l = "listen" /\ c \in detached
  <2>1. /\ detached' = detached \ {c} /\ queue' = queue \cup {c} /\ moved' = moved \cup {c}
        /\ ctx_set_' = [ctx_set_ EXCEPT !["listen"] = @ \ {c}]
    BY <1>4 DEF OnClose, ListenOnClose
  <2>2. ctx_set_'["listen"] = ctx_set_["listen"] \ {c} /\ ctx_set_'["worker"] = ctx_set_["worker"]
    BY <2>1 DEF TypeOK, Loops
  <2>3. /\ ctxs'["listen"] = ctxs["listen"] \ {c} /\ closing'["listen"] = c /\ closing["listen"] = None
        /\ ctxs'["worker"] = ctxs["worker"] /\ closing'["worker"] = closing["worker"]
    BY <1>1, <1>2, <1>3, <1>4
  <2> SUFFICES ASSUME NEW d \in Conns PROVE OnePlace(d)' /\ Handed(d)' /\ Counted(d)'
    BY DEF Places
  <2>4. OnePlace(d) /\ Handed(d) /\ Counted(d) /\ d # None
    BY ConnsAreSome DEF Places
  <2>5. Held(d)' = Held(d)
    BY <1>1, <1>4, <2>1, <2>3, <2>4 DEF Held
  <2>6. d = c => Held(d) = 2 /\ d \notin moved
    BY <1>1, <1>4, <2>4 DEF Held, OnePlace
  <2>7. OnePlace(d)'
    BY <1>3, <1>4, <2>1, <2>3, <2>4, <2>6 DEF OnePlace
  <2>8. Handed(d)'
    <3>1. d = c => ref[d] = 2
      BY <2>4, <2>6 DEF Counted
    <3>2. d = c => ref'[d] > 0
      BY <1>1, <3>1
    <3> QED BY <1>1, <2>1, <2>2, <2>4, <3>2 DEF Handed
  <2>9. Counted(d)'
    BY <1>1, <2>1, <2>2, <2>4, <2>5, <2>6 DEF Counted
  <2> QED BY <2>7, <2>8, <2>9
<1>5. CASE ~(l = "listen" /\ c \in detached)
  <2>1. UNCHANGED <<detached, queue, moved, ctx_set_>>
    BY <1>5 DEF OnClose, ListenOnClose
  <2> SUFFICES ASSUME NEW d \in Conns PROVE OnePlace(d)' /\ Handed(d)' /\ Counted(d)'
    BY DEF Places
  <2>2. OnePlace(d) /\ Handed(d) /\ Counted(d) /\ d # None
    BY ConnsAreSome DEF Places
  <2>3. CASE l = "listen"
    <3>1. /\ ctxs'["listen"] = ctxs["listen"] \ {c} /\ closing'["listen"] = c /\ closing["listen"] = None
          /\ ctxs'["worker"] = ctxs["worker"] /\ closing'["worker"] = closing["worker"]
          /\ c \in ctxs["listen"] /\ c \notin detached
      BY <1>1, <1>2, <1>3, <1>5, <2>3
    <3>2. Held(d)' = Held(d)
      BY <2>1, <2>2, <3>1 DEF Held
    <3> QED BY <1>1, <2>1, <2>2, <3>1, <3>2, Zenon DEF OnePlace, Handed, Counted
  <2>4. CASE l = "worker"
    <3>1. /\ ctxs'["worker"] = ctxs["worker"] \ {c} /\ closing'["worker"] = c /\ closing["worker"] = None
          /\ ctxs'["listen"] = ctxs["listen"] /\ closing'["listen"] = closing["listen"]
          /\ c \in ctxs["worker"]
      BY <1>1, <1>2, <1>3, <2>4
    <3>2. Held(d)' = Held(d)
      BY <2>1, <2>2, <3>1 DEF Held
    <3> QED BY <1>1, <2>1, <2>2, <3>1, <3>2 DEF OnePlace, Handed, Counted
  <2> QED BY <1>3, <2>3, <2>4
<1> QED BY <1>4, <1>5

\* A loop gives its reference back, and deletes the session with the last one.
LEMMA ReleasePlaces ==
  ASSUME TypeOK, Places, NEW l \in Loops, OnRelease(l)
  PROVE  Places'
<1>c. PICK c \in Conns : closing[l] = c
  BY DEF OnRelease, TypeOK
<1>1. c \in Conns /\ c # None /\ l \in {"listen", "worker"} /\ "listen" \in Loops /\ "worker" \in Loops
  BY <1>c, ConnsAreSome DEF Loops
<1>2. /\ ref' = [ref EXCEPT ![c] = @ - 1] /\ closing' = [closing EXCEPT ![l] = None]
      /\ UNCHANGED <<ctxs, queue, detached, moved>>
  BY <1>c DEF OnRelease
<1>3. /\ ref'[c] = ref[c] - 1 /\ (\A d \in Conns : d # c => ref'[d] = ref[d])
      /\ closing'[l] = None /\ \A k \in Loops : k # l => closing'[k] = closing[k]
  BY <1>1, <1>2 DEF TypeOK
<1>4. \/ ref[c] # 1 /\ UNCHANGED <<released, ctx_set_>>
      \/ ref[c] = 1 /\ released' = [released EXCEPT ![c] = l] /\ ctx_set_' = [ctx_set_ EXCEPT ![l] = @ \ {c}]
  BY <1>c DEF OnRelease
<1>5. /\ \A d \in Conns : d # c => released'[d] = released[d]
      /\ \A d \in Conns : d # c => \A k \in Loops : d \in ctx_set_'[k] <=> d \in ctx_set_[k]
      /\ ref[c] = 1 => /\ released'[c] = l /\ c \notin ctx_set_'[l]
                       /\ \A k \in Loops : k # l => ctx_set_'[k] = ctx_set_[k]
      /\ ref[c] # 1 => released'[c] = released[c] /\ ctx_set_' = ctx_set_
  <2>1. CASE ref[c] # 1 /\ UNCHANGED <<released, ctx_set_>>
    BY <2>1
  <2>2. CASE ref[c] = 1 /\ released' = [released EXCEPT ![c] = l] /\ ctx_set_' = [ctx_set_ EXCEPT ![l] = @ \ {c}]
    <3>1. ctx_set_'[l] = ctx_set_[l] \ {c} /\ \A k \in Loops : k # l => ctx_set_'[k] = ctx_set_[k]
      BY <2>2 DEF TypeOK
    <3>2. released'[c] = l /\ \A d \in Conns : d # c => released'[d] = released[d]
      BY <1>1, <2>2 DEF TypeOK
    <3> QED BY <2>2, <3>1, <3>2
  <2> QED BY <1>4, <2>1, <2>2
<1>6. ASSUME NEW d \in Conns, d # c
      PROVE  OnePlace(d)' /\ Handed(d)' /\ Counted(d)'
  <2>1. OnePlace(d) /\ Handed(d) /\ Counted(d) /\ d # None
    BY ConnsAreSome DEF Places
  <2>2. \A k \in Loops : closing'[k] = d <=> closing[k] = d
    BY <1>3, <1>6, <2>1, <1>c, Zenon
  <2>3. Held(d)' = Held(d)
    BY <1>1, <1>2, <2>2 DEF Held
  <2>4. OnePlace(d)'
    BY <1>1, <1>2, <2>1, <2>2 DEF OnePlace
  <2> QED BY <1>1, <1>2, <1>3, <1>5, <1>6, <2>1, <2>3, <2>4, Zenon DEF Handed, Counted
<1>7. ref'[c] = ref[c] - 1
  BY <1>3, Zenon
<1>8. OnePlace(c)' /\ Handed(c)' /\ Counted(c)'
  <2>1. OnePlace(c) /\ Handed(c) /\ Counted(c)
    BY <1>1 DEF Places
  <2>2. CASE l = "listen"
    <3>1. closing["listen"] = c /\ closing'["listen"] = None /\ closing'["worker"] = closing["worker"]
      BY <1>c, <1>1, <1>3, <2>2
    <3>2. c \notin ctxs["listen"] /\ c \notin detached
      BY <2>1, <3>1, Zenon DEF OnePlace
    <3>3. Held(c)' = Held(c) - 1 /\ (Held(c) = 1 \/ Held(c) = 2)
      BY <1>1, <1>2, <3>1, <3>2 DEF Held
    <3>4. OnePlace(c)'
      BY <1>1, <1>2, <2>1, <3>1, <3>2 DEF OnePlace
    <3>5. ref[c] = Held(c) /\ released[c] = "no"
      BY <2>1, <3>3 DEF Counted
    <3>6. CASE ref[c] = 1
      <4>1. released'[c] = "listen" /\ c \notin ctx_set_'["listen"] /\ ctx_set_'["worker"] = ctx_set_["worker"]
        BY <1>1, <1>5, <2>2, <3>6, Zenon
      <4>2. Held(c)' = 0 /\ ref'[c] = 0
        BY <1>7, <3>3, <3>5, <3>6
      <4> QED BY <1>2, <2>1, <3>4, <4>1, <4>2 DEF Handed, Counted
    <3>7. CASE ref[c] = 2
      <4>1. ref[c] # 1 /\ ref'[c] = 1 /\ Held(c)' = 1
        BY <1>7, <3>3, <3>5, <3>7
      <4>2. released'[c] = "no" /\ ctx_set_' = ctx_set_
        BY <1>5, <3>5, <4>1
      <4>3. Counted(c)'
        BY <4>1, <4>2 DEF Counted
      <4>4. Handed(c)'
        BY <1>2, <2>1, <4>1, <4>2 DEF Handed
      <4> QED BY <3>4, <4>3, <4>4
    <3> QED BY <3>3, <3>5, <3>6, <3>7, Zenon
  <2>3. CASE l = "worker"
    <3>1. closing["worker"] = c /\ closing'["worker"] = None /\ closing'["listen"] = closing["listen"]
      BY <1>c, <1>1, <1>3, <2>3
    <3>2. c \in moved /\ c \notin ctxs["worker"] /\ c \notin queue /\ c \notin detached
      BY <2>1, <3>1 DEF OnePlace
    <3>3. Held(c)' = Held(c) - 1 /\ (Held(c) = 1 \/ Held(c) = 2)
      BY <1>1, <1>2, <3>1, <3>2 DEF Held
    <3>4. OnePlace(c)'
      BY <1>1, <1>2, <2>1, <3>1, <3>2 DEF OnePlace
    <3>5. ref[c] = Held(c) /\ released[c] = "no" /\ c \notin ctx_set_["listen"]
      BY <2>1, <3>2, <3>3 DEF Counted, Handed
    <3>6. CASE ref[c] = 1
      <4>1. released'[c] = "worker" /\ c \notin ctx_set_'["worker"] /\ ctx_set_'["listen"] = ctx_set_["listen"]
        BY <1>1, <1>5, <2>3, <3>6
      <4>2. Held(c)' = 0 /\ ref'[c] = 0
        BY <1>7, <3>3, <3>5, <3>6
      <4> QED BY <1>2, <3>4, <3>5, <4>1, <4>2 DEF Handed, Counted
    <3>7. CASE ref[c] = 2
      <4>1. ref[c] # 1 /\ ref'[c] = 1 /\ Held(c)' = 1
        BY <1>7, <3>3, <3>5, <3>7
      <4>2. released'[c] = "no" /\ ctx_set_' = ctx_set_
        BY <1>5, <3>5, <4>1
      <4>3. Counted(c)'
        BY <4>1, <4>2 DEF Counted
      <4>4. Handed(c)'
        BY <1>2, <2>1, <4>1, <4>2 DEF Handed
      <4> QED BY <3>4, <4>3, <4>4
    <3> QED BY <3>3, <3>5, <3>6, <3>7
  <2> QED BY <1>1, <2>2, <2>3
<1> QED BY <1>6, <1>8 DEF Places

\* Every step keeps the references and the places they stand for.
LEMMA PlacesHold ==
  ASSUME IInv, [Next]_vars
  PROVE  Places'
<1> USE DEF serverVars, clientVars, netVars
<1>1. TypeOK /\ Logins /\ Places /\ Working
  BY DEF IInv
<1>2. CASE connect \/ Client_OnTimer
  BY <1>1, <1>2, PlacesKept DEF placeVars, connect, Client_OnTimer
<1>3. ASSUME NEW c \in Conns,
             \/ Client_OnAddCtx(c) \/ Client_OnMessage(c) \/ ClientCloses(c) \/ Client_OnRelease(c)
             \/ Quiet(c) \/ Breaks(c)
      PROVE  Places'
  BY <1>1, <1>3, PlacesKept, Zenon
     DEF placeVars, Client_OnAddCtx, Client_OnMessage, ClientCloses, Client_OnRelease, Quiet, Breaks
<1>4. ASSUME NEW c \in Conns, OnConnect(c) \/ Worker_OnAddCtx(c)
      PROVE  Places'
  BY <1>1, <1>4, ConnectPlaces, AddPlaces
<1>5. ASSUME NEW l \in Loops, OnTimer(l)
      PROVE  Places'
  BY <1>1, <1>5, PlacesKept, Zenon DEF placeVars, OnTimer
<1>6. ASSUME NEW l \in Loops, OnRelease(l)
      PROVE  Places'
  BY <1>1, <1>6, ReleasePlaces
<1>7. ASSUME NEW l \in Loops, NEW c \in Conns, OnClose(l, c)
      PROVE  Places'
  BY <1>1, <1>7, ClosePlaces
<1>9. ASSUME NEW l \in Loops, decode(l)
      PROVE  Places'
  BY <1>1, <1>9, MessagePlaces
<1>10. ASSUME NEW l \in Loops, refuse(l) \/ \E c \in Conns : OnMessage(l, c)
       PROVE  Places'
  BY <1>1, <1>10, PlacesKept, Zenon DEF placeVars, refuse, OnMessage
<1>8. CASE UNCHANGED vars
  BY <1>1, <1>8, PlacesKept DEF placeVars, vars
<1> QED BY <1>2, <1>3, <1>4, <1>5, <1>6, <1>7, <1>8, <1>9, <1>10, Cases

\* A loop's thread is in one callback: a context leaves a loop in OnClose, and
\* none of them is worked with then.
LEMMA WorkingHolds ==
  ASSUME IInv, [Next]_vars
  PROVE  Working'
<1> USE DEF serverVars, clientVars, netVars
<1>1. TypeOK /\ Working
  BY DEF IInv
<1>2. ASSUME UNCHANGED <<busy, ctxs>>
      PROVE  Working'
  BY <1>1, <1>2 DEF Working
<1>3. CASE connect \/ Client_OnTimer
  BY <1>2, <1>3 DEF connect, Client_OnTimer
<1>4. ASSUME NEW c \in Conns,
             \/ Client_OnAddCtx(c) \/ Client_OnMessage(c) \/ ClientCloses(c) \/ Client_OnRelease(c)
             \/ Quiet(c) \/ Breaks(c)
      PROVE  Working'
  BY <1>2, <1>4, Zenon
     DEF Client_OnAddCtx, Client_OnMessage, ClientCloses, Client_OnRelease, Quiet, Breaks
<1>5. ASSUME NEW c \in Conns, OnConnect(c) \/ Worker_OnAddCtx(c)
      PROVE  Working'
  <2>1. UNCHANGED busy /\ \E k \in {"listen", "worker"} : ctxs' = [ctxs EXCEPT ![k] = @ \cup {c}]
    BY <1>5, Zenon DEF OnConnect, Worker_OnAddCtx
  <2>2. \A l \in Loops : ctxs[l] \subseteq ctxs'[l]
    BY <1>1, <2>1 DEF TypeOK
  <2> QED BY <1>1, <2>1, <2>2 DEF Working
<1>6. ASSUME NEW l \in Loops, OnTimer(l) \/ OnRelease(l)
      PROVE  Working'
  BY <1>2, <1>6, Zenon DEF OnTimer, OnRelease
<1>7. ASSUME NEW l \in Loops, NEW c \in Conns, OnMessage(l, c)
      PROVE  Working'
  <2>1. c \in ctxs[l] /\ ctxs' = ctxs /\ busy' = [busy EXCEPT ![l] = c]
    BY <1>7 DEF OnMessage
  <2> QED BY <1>1, <2>1 DEF Working, TypeOK
<1>8. ASSUME NEW l \in Loops, decode(l) \/ refuse(l)
      PROVE  Working'
  <2>1. ctxs' = ctxs /\ (busy' = busy \/ busy' = [busy EXCEPT ![l] = None])
    BY <1>8, Zenon DEF decode, refuse
  <2> QED BY <1>1, <2>1 DEF Working, TypeOK
<1>9. ASSUME NEW l \in Loops, NEW c \in Conns, OnClose(l, c)
      PROVE  Working'
  <2>1. busy[l] = None /\ busy' = busy /\ ctxs' = [ctxs EXCEPT ![l] = @ \ {c}]
    BY <1>9 DEF OnClose, Free
  <2>2. \A k \in Loops : k # l => ctxs'[k] = ctxs[k]
    BY <1>1, <2>1 DEF TypeOK
  <2> QED BY <1>1, <2>1, <2>2 DEF Working
<1>10. CASE UNCHANGED vars
  BY <1>2, <1>10 DEF vars
<1> QED BY <1>3, <1>4, <1>5, <1>6, <1>7, <1>8, <1>9, <1>10, Cases

\* The invariant is inductive.
LEMMA Inductive == IInv /\ [Next]_vars => IInv'
  BY TypeHolds, LoginsHold, PlacesHold, WorkingHolds DEF IInv

\* For any number of connections and messages, the references to a context are
\* the loops that work with it, and OnRelease deletes a session when none does.
THEOREM ReferencesCounted == Spec => []RefCounted
<1>1. Init => IInv
  BY InitHolds
<1>2. IInv => RefCounted
  BY DEF IInv, Places, Counted, RefCounted
<1> QED BY <1>1, <1>2, Inductive, PTL DEF Spec

\* For any number of connections and messages, the two loops never work with
\* one session at a time: a login takes its context out of the listening loop
\* before the worker is given it, and the loop that has it no longer, or not
\* yet, does not find it in the set its timer walks.
THEOREM OneThreadAtATime == Spec => []OneThread
<1>1. Init => IInv
  BY InitHolds
<1>2. IInv => OneThread
  <2> SUFFICES ASSUME IInv, NEW c \in Conns, NEW l \in Loops, busy[l] = c, NEW k \in Loops \ {l}
               PROVE  busy[k] # c /\ c \notin ctx_set_[k]
    BY DEF OneThread
  <2>1. c \in ctxs[l] /\ (busy[k] = c => c \in ctxs[k])
    BY ConnsAreSome DEF IInv, Working
  <2>2. OnePlace(c) /\ Handed(c)
    BY DEF IInv, Places
  <2>3. CASE l = "listen" /\ k = "worker"
    BY <2>1, <2>2, <2>3 DEF OnePlace, Handed
  <2>4. CASE l = "worker" /\ k = "listen"
    BY <2>1, <2>2, <2>4 DEF OnePlace, Handed
  <2> QED BY <2>3, <2>4 DEF Loops
<1> QED BY <1>1, <1>2, Inductive, PTL DEF Spec
=============================================================================
