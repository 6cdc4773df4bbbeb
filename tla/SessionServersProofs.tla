------------------------ MODULE SessionServersProofs ------------------------
(* The safety properties of the servers, for any number of users, sessions *)
(* and messages.                                                           *)
EXTENDS SessionServers, FiniteSetTheorems, SequenceTheorems, TLAPS

USE ServersAssumption

(* A token that is accepted gives the session that is in it: one that has  *)
(* been made here, or that another has put there.                          *)
LEMMA AcceptedToken ==
  ASSUME NEW t \in Tokens, isRS256Authenticated(t)
  PROVE  t.sid \in Created \cup Others /\ from_json(jwtObjectToJson(t)) = t.sid
<1>1. t.alg \in {"rs256", "hs256"}
  BY DEF isRS256Authenticated, decryptJwt
<1>2. t.sid \in Created \cup Others
  BY <1>1 DEF Tokens, Token, NoToken, Forged
<1>3. from_json(jwtObjectToJson(t)) = t.sid
  BY DEF from_json, jwtObjectToJson
<1> QED
  BY <1>2, <1>3

LEMMA SessionOfLine ==
  ASSUME NEW path \in BOOLEAN, NEW t \in Tokens
  PROVE  parseQuerystringForAuthentication(parseWebRequestLine(path, t))
            \in Created \cup Others \cup {None}
<1>1. parseWebRequestLine(path, t) \in Tokens
  BY DEF parseWebRequestLine, Tokens
<1> QED
  BY <1>1, AcceptedToken DEF parseQuerystringForAuthentication

LEMMA NoneIsNoSession == None \notin Sessions /\ Created \subseteq Sessions /\ Others \subseteq Sessions
BY DEF None, Created

(* Messages are published only to sessions.                                *)
LEMMA PublishedToSessions ==
  /\ \A s \in Sessions : Announce(s) => publish(s)
  /\ \A header, query \in Tokens : ProcessRequest(header, query) => \E s \in Sessions : publish(s)
<1>1. ASSUME NEW header \in Tokens, NEW query \in Tokens, ProcessRequest(header, query)
      PROVE  \E s \in Sessions : publish(s)
  <2>1. RequestToken(header, query) \in Tokens
    BY DEF RequestToken
  <2> DEFINE t == RequestToken(header, query)
  <2>2. isRS256Authenticated(t) /\ publish(from_json(jwtObjectToJson(t)))
    BY <1>1 DEF ProcessRequest
  <2> HIDE DEF t
  <2>3. t \in Tokens
    BY <2>1 DEF t
  <2>4. from_json(jwtObjectToJson(t)) \in Sessions
    BY <2>2, <2>3, AcceptedToken, NoneIsNoSession
  <2> QED
    BY <2>2, <2>4
<1> QED
  BY <1>1 DEF Announce

-----------------------------------------------------------------------------
(* The inductive invariant, one lemma per action.                          *)

LEMMA Steps ==
  [Next]_vars => \/ UNCHANGED vars \/ Tick \/ Subscriber \/ Dropped \/ Undefined
                 \/ \E u \in Users : Loop(u)
                 \/ \E s \in Sessions : createJwt(s) \/ publish(s)
BY PublishedToSessions DEF Next

LEMMA InitInv == Init => IInv
<1> SUFFICES ASSUME Init PROVE IInv
  OBVIOUS
<1> USE DEF Init
<1>1. Shapes
  BY DEF Shapes
<1>2. Genuine /\ Matched
  BY DEF Genuine, Matched
<1>3. \A u \in Users : Unready(u)
  BY DEF Unready
<1>4. MessagesWhole /\ OnlyToSession
  BY DEF MessagesWhole, OnlyToSession
<1> QED
  BY <1>1, <1>2, <1>3, <1>4 DEF IInv

LEMMA TickInv == ASSUME IInv, Tick PROVE IInv'
<1>0. Shapes /\ Genuine /\ Matched /\ MessagesWhole /\ OnlyToSession
  BY DEF IInv
<1>a. ASSUME NEW v \in Users PROVE Unready(v)
  BY DEF IInv
<1> USE DEF Tick, tokens, list, messages, redis, broadcast
<1>1. Shapes'
  BY <1>0 DEF Shapes
<1>2. Genuine'
  BY <1>0 DEF Genuine, Shapes
<1>3. Matched'
  BY <1>0 DEF Matched, Matches, Shapes
<1>4. ASSUME NEW v \in Users PROVE Unready(v)'
  BY <1>0, <1>a DEF Unready, Shapes
<1>5. MessagesWhole'
  BY <1>0, <1>a DEF MessagesWhole, Unready, Shapes
<1>6. OnlyToSession'
  BY <1>0, <1>a, NoneIsNoSession DEF OnlyToSession, Unready, Shapes, Genuine
<1> QED
  BY <1>1, <1>2, <1>3, <1>4, <1>5, <1>6 DEF IInv

LEMMA CreateJwtInv == ASSUME IInv, NEW s \in Sessions, createJwt(s) PROVE IInv'
<1>0. Shapes /\ Genuine /\ Matched /\ MessagesWhole /\ OnlyToSession
  BY DEF IInv
<1>a. ASSUME NEW v \in Users PROVE Unready(v)
  BY DEF IInv
<1> USE DEF createJwt, tokens, list, messages, redis, broadcast
<1>1. Shapes'
  BY <1>0 DEF Shapes
<1>2. Genuine'
  BY <1>0 DEF Genuine, Shapes
<1>3. Matched'
  BY <1>0 DEF Matched, Matches, Shapes
<1>4. ASSUME NEW v \in Users PROVE Unready(v)'
  BY <1>0, <1>a DEF Unready, Shapes
<1>5. MessagesWhole'
  BY <1>0, <1>a DEF MessagesWhole, Unready, Shapes
<1>6. OnlyToSession'
  BY <1>0, <1>a, NoneIsNoSession DEF OnlyToSession, Unready, Shapes, Genuine
<1> QED
  BY <1>1, <1>2, <1>3, <1>4, <1>5, <1>6 DEF IInv

LEMMA ListencbInv == ASSUME IInv, NEW u \in Users, listencb(u) PROVE IInv'
<1>0. Shapes /\ Genuine /\ Matched /\ MessagesWhole /\ OnlyToSession
  BY DEF IInv
<1>a. ASSUME NEW v \in Users PROVE Unready(v)
  BY DEF IInv
<1> USE DEF listencb, tokens, list, messages, redis, broadcast, loopUnchanged, Disturb
<1>1. Shapes'
  BY <1>0 DEF Shapes
<1>2. Genuine'
  BY <1>0 DEF Genuine, Shapes
<1>3. Matched'
  BY <1>0 DEF Matched, Matches, Shapes
<1>4. ASSUME NEW v \in Users PROVE Unready(v)'
  BY <1>0, <1>a DEF Unready, Shapes
<1>5. MessagesWhole'
  BY <1>0, <1>a DEF MessagesWhole, Unready, Shapes
<1>6. OnlyToSession'
  BY <1>0, <1>a, NoneIsNoSession DEF OnlyToSession, Unready, Shapes, Genuine
<1> QED
  BY <1>1, <1>2, <1>3, <1>4, <1>5, <1>6 DEF IInv

LEMMA HandshakeInv == ASSUME IInv, NEW u \in Users, handshake_cb_handler(u) PROVE IInv'
<1>0. Shapes /\ Genuine /\ Matched /\ MessagesWhole /\ OnlyToSession
  BY DEF IInv
<1>a. ASSUME NEW v \in Users PROVE Unready(v)
  BY DEF IInv
<1> USE DEF handshake_cb_handler, tokens, list, messages, redis, broadcast, loopUnchanged, Disturb
<1>e. PICK path \in BOOLEAN, t \in Tokens :
         sess' = [sess EXCEPT ![u] = parseQuerystringForAuthentication(parseWebRequestLine(path, t))]
  OBVIOUS
<1>s. parseQuerystringForAuthentication(parseWebRequestLine(path, t)) \in Sessions \cup {None}
  BY SessionOfLine, NoneIsNoSession
<1>1. Shapes'
  BY <1>0, <1>e, <1>s DEF Shapes
<1>2. Genuine'
  BY <1>0 DEF Genuine, Shapes
<1>3. Matched'
  BY <1>0 DEF Matched, Matches, Shapes
<1>4. ASSUME NEW v \in Users PROVE Unready(v)'
  BY <1>0, <1>a DEF Unready, Shapes
<1>5. MessagesWhole'
  BY <1>0, <1>a, <1>e DEF MessagesWhole, Unready, Shapes
<1>6. OnlyToSession'
  BY <1>0, <1>a, NoneIsNoSession, <1>e DEF OnlyToSession, Unready, Shapes, Genuine
<1> QED
  BY <1>1, <1>2, <1>3, <1>4, <1>5, <1>6 DEF IInv

LEMMA FrameRecvInv == ASSUME IInv, NEW u \in Users, frame_recv_cb(u) PROVE IInv'
<1>0. Shapes /\ Genuine /\ Matched /\ MessagesWhole /\ OnlyToSession
  BY DEF IInv
<1>a. ASSUME NEW v \in Users PROVE Unready(v)
  BY DEF IInv
<1> USE DEF frame_recv_cb, tokens, list, messages, redis, broadcast, loopUnchanged, NextMsg
<1>e. PICK fin \in BOOLEAN :
         /\ size' = [size EXCEPT ![u] = IF fin THEN 0 ELSE @ + 1]
         /\ sent' = IF fin THEN [sent EXCEPT ![u] = Append(@, size[u] + 1)] ELSE sent
         /\ \/ sess[u] = None /\ UNCHANGED <<msg, received>>
            \/ /\ sess[u] # None
               /\ received' = IF fin THEN [received EXCEPT ![u] = Append(@, msg[u] + 1)]
                                     ELSE received
               /\ msg' = [msg EXCEPT ![u] = IF fin THEN 0 ELSE @ + 1]
  OBVIOUS
<1>f. state[u] = "ready" /\ UNCHANGED <<list, loopUnchanged>>
  OBVIOUS
<1> HIDE DEF frame_recv_cb, NextMsg
<1>1. Shapes'
  <2>1. size' \in [Users -> Nat] /\ msg' \in [Users -> Nat]
    <3>1. size[u] + 1 \in Nat /\ msg[u] + 1 \in Nat
      BY <1>0 DEF Shapes
    <3>2. CASE fin
      BY <1>0, <1>e, <3>2 DEF Shapes
    <3>3. CASE ~fin
      <4>1. size' = [size EXCEPT ![u] = size[u] + 1] /\ size' \in [Users -> Nat]
        BY <1>0, <1>e, <3>1, <3>3 DEF Shapes
      <4>2. msg' = msg \/ msg' = [msg EXCEPT ![u] = msg[u] + 1]
        BY <1>e, <3>3
      <4>3. msg' \in [Users -> Nat]
        BY <1>0, <3>1, <4>2 DEF Shapes
      <4> QED
        BY <4>1, <4>3
    <3> QED
      BY <3>2, <3>3
  <2>2. sent' \in [Users -> Seq(Nat)]
    <3>1. Append(sent[u], size[u] + 1) \in Seq(Nat)
      BY <1>0 DEF Shapes
    <3> QED
      BY <1>0, <1>e, <3>1 DEF Shapes
  <2>3. received' \in [Users -> Seq(Nat)]
    <3>1. Append(received[u], msg[u] + 1) \in Seq(Nat)
      BY <1>0 DEF Shapes
    <3> QED
      BY <1>0, <1>e, <3>1 DEF Shapes
  <2> QED
    BY <1>0, <1>f, <2>1, <2>2, <2>3 DEF Shapes
<1>2. Genuine'
  BY <1>0, <1>f DEF Genuine, Shapes
<1>3. Matched'
  BY <1>0, <1>f DEF Matched, Matches, Shapes
<1>4. ASSUME NEW v \in Users PROVE Unready(v)'
  BY <1>0, <1>a, <1>e, <1>f DEF Unready, Shapes
<1>5. MessagesWhole'
  <2>1. \A v \in Users : v # u => /\ size'[v] = size[v] /\ sent'[v] = sent[v]
                                 /\ msg'[v] = msg[v] /\ received'[v] = received[v]
    BY <1>0, <1>e DEF Shapes
  <2>2. CASE sess[u] = None
    BY <1>0, <1>e, <1>f, <2>1, <2>2 DEF MessagesWhole
  <2>3. CASE sess[u] # None
    <3>1. received[u] = sent[u] /\ msg[u] = size[u]
      BY <1>0, <2>3 DEF MessagesWhole
    <3>2. received'[u] = sent'[u] /\ msg'[u] = size'[u]
      <4>1. CASE fin
        BY <1>0, <1>e, <2>3, <3>1, <4>1 DEF Shapes
      <4>2. CASE ~fin
        BY <1>0, <1>e, <2>3, <3>1, <4>2 DEF Shapes
      <4> QED
        BY <4>1, <4>2
    <3> QED
      BY <1>0, <1>f, <2>1, <2>3, <3>2 DEF MessagesWhole
  <2> QED
    BY <2>2, <2>3
<1>6. OnlyToSession'
  BY <1>0, <1>f DEF OnlyToSession
<1> QED
  BY <1>1, <1>2, <1>3, <1>4, <1>5, <1>6 DEF IInv

LEMMA DisconnectInv == ASSUME IInv, NEW u \in Users, user_disconnect(u) PROVE IInv'
<1>0. Shapes /\ Genuine /\ Matched /\ MessagesWhole /\ OnlyToSession
  BY DEF IInv
<1>a. ASSUME NEW v \in Users PROVE Unready(v)
  BY DEF IInv
<1> USE DEF user_disconnect, tokens, list, messages, redis, broadcast, user_destroy, Disturb
<1>1. Shapes'
  BY <1>0 DEF Shapes
<1>2. Genuine'
  BY <1>0 DEF Genuine, Shapes
<1>3. Matched'
  BY <1>0 DEF Matched, Matches, Shapes
<1>4. ASSUME NEW v \in Users PROVE Unready(v)'
  BY <1>0, <1>a DEF Unready, Shapes
<1>5. MessagesWhole'
  BY <1>0, <1>a DEF MessagesWhole, Unready, Shapes
<1>6. OnlyToSession'
  BY <1>0, <1>a, NoneIsNoSession DEF OnlyToSession, Unready, Shapes, Genuine
<1> QED
  BY <1>1, <1>2, <1>3, <1>4, <1>5, <1>6 DEF IInv

LEMMA PublishInv == ASSUME IInv, NEW s \in Sessions, publish(s) PROVE IInv'
<1>0. Shapes /\ Genuine /\ Matched /\ MessagesWhole /\ OnlyToSession
  BY DEF IInv
<1>a. ASSUME NEW v \in Users PROVE Unready(v)
  BY DEF IInv
<1> USE DEF publish, tokens, list, messages, redis, broadcast, subscriberUnchanged
<1>1. Shapes'
  BY <1>0 DEF Shapes
<1>2. Genuine'
  BY <1>0 DEF Genuine, Shapes
<1>3. Matched'
  <2>1. chan # 0 => published'[chan] = published[chan]
    BY <1>0 DEF Genuine, Shapes
  <2> QED
    BY <1>0, <2>1 DEF Matched, Matches
<1>4. ASSUME NEW v \in Users PROVE Unready(v)'
  BY <1>0, <1>a DEF Unready, Shapes
<1>5. MessagesWhole'
  BY <1>0, <1>a DEF MessagesWhole, Unready, Shapes
<1>6. OnlyToSession'
  BY <1>0, <1>a, NoneIsNoSession DEF OnlyToSession, Unready, Shapes, Genuine
<1> QED
  BY <1>1, <1>2, <1>3, <1>4, <1>5, <1>6 DEF IInv

LEMMA DroppedInv == ASSUME IInv, Dropped PROVE IInv'
<1>0. Shapes /\ Genuine /\ Matched /\ MessagesWhole /\ OnlyToSession
  BY DEF IInv
<1>a. ASSUME NEW v \in Users PROVE Unready(v)
  BY DEF IInv
<1> USE DEF Dropped, tokens, list, messages, redis, broadcast, subscriberUnchanged
<1>1. Shapes'
  BY <1>0 DEF Shapes
<1>2. Genuine'
  BY <1>0 DEF Genuine, Shapes
<1>3. Matched'
  BY <1>0 DEF Matched, Matches, Shapes
<1>4. ASSUME NEW v \in Users PROVE Unready(v)'
  BY <1>0, <1>a DEF Unready, Shapes
<1>5. MessagesWhole'
  BY <1>0, <1>a DEF MessagesWhole, Unready, Shapes
<1>6. OnlyToSession'
  BY <1>0, <1>a, NoneIsNoSession DEF OnlyToSession, Unready, Shapes, Genuine
<1> QED
  BY <1>1, <1>2, <1>3, <1>4, <1>5, <1>6 DEF IInv

LEMMA TakeInv == ASSUME IInv, Take PROVE IInv'
<1>0. Shapes /\ Genuine /\ Matched /\ MessagesWhole /\ OnlyToSession
  BY DEF IInv
<1>a. ASSUME NEW v \in Users PROVE Unready(v)
  BY DEF IInv
<1> USE DEF Take, tokens, list, messages, redis, broadcast, subscriberUnchanged
<1>1. Shapes'
  BY <1>0 DEF Shapes
<1>2. Genuine'
  BY <1>0 DEF Genuine, Shapes
<1>3. Matched'
  BY <1>0 DEF Matched, Matches, Shapes
<1>4. ASSUME NEW v \in Users PROVE Unready(v)'
  BY <1>0, <1>a DEF Unready, Shapes
<1>5. MessagesWhole'
  BY <1>0, <1>a DEF MessagesWhole, Unready, Shapes
<1>6. OnlyToSession'
  BY <1>0, <1>a, NoneIsNoSession DEF OnlyToSession, Unready, Shapes, Genuine
<1> QED
  BY <1>1, <1>2, <1>3, <1>4, <1>5, <1>6 DEF IInv

LEMMA TestInv == ASSUME IInv, Test PROVE IInv'
<1>0. Shapes /\ Genuine /\ Matched /\ MessagesWhole /\ OnlyToSession
  BY DEF IInv
<1>a. ASSUME NEW v \in Users PROVE Unready(v)
  BY DEF IInv
<1> USE DEF Test, tokens, list, messages, redis, broadcast, subscriberUnchanged
<1>1. Shapes'
  BY <1>0 DEF Shapes
<1>2. Genuine'
  BY <1>0 DEF Genuine, Shapes
<1>3. Matched'
  <2>1. CASE /\ Matches(user_vec[i]) /\ chan > 0 /\ UNCHANGED <<chan, i>>
             /\ UNCHANGED <<user_vec, sess, published, disturbed>>
    BY <1>0, <2>1 DEF Matched, Matches, Shapes
  <2>2. CASE ~found'
    BY <2>2 DEF Matched
  <2> QED
    BY <2>1, <2>2
<1>4. ASSUME NEW v \in Users PROVE Unready(v)'
  BY <1>0, <1>a DEF Unready, Shapes
<1>5. MessagesWhole'
  BY <1>0, <1>a DEF MessagesWhole, Unready, Shapes
<1>6. OnlyToSession'
  BY <1>0, <1>a, NoneIsNoSession DEF OnlyToSession, Unready, Shapes, Genuine
<1> QED
  BY <1>1, <1>2, <1>3, <1>4, <1>5, <1>6 DEF IInv

LEMMA SendInv == ASSUME IInv, Send PROVE IInv'
<1>0. Shapes /\ Genuine /\ Matched /\ MessagesWhole /\ OnlyToSession
  BY DEF IInv
<1>a. ASSUME NEW v \in Users PROVE Unready(v)
  BY DEF IInv
<1> USE DEF Send, tokens, list, messages, redis, broadcast, subscriberUnchanged
<1>1. Shapes'
  BY <1>0 DEF Shapes
<1>2. Genuine'
  BY <1>0 DEF Genuine, Shapes
<1>3. Matched'
  BY <1>0 DEF Matched, Matches, Shapes
<1>4. ASSUME NEW v \in Users PROVE Unready(v)'
  BY <1>0, <1>a DEF Unready, Shapes
<1>5. MessagesWhole'
  BY <1>0, <1>a DEF MessagesWhole, Unready, Shapes
<1>6. OnlyToSession'
  <2>1. ASSUME NEW v \in Users, NEW n \in got'[v] \ disturbed PROVE sess[v] = published[n]
    <3>1. CASE n \in got[v]
      BY <1>0, <3>1 DEF OnlyToSession
    <3>2. CASE n \notin got[v]
      <4>1. v = user_vec[i] /\ n = chan
        BY <1>0, <3>2 DEF Shapes
      <4> QED
        BY <1>0, <4>1 DEF Matched, Matches
    <3> QED
      BY <3>1, <3>2
  <2>2. UNCHANGED <<sess, published, disturbed>>
    OBVIOUS
  <2> QED
    BY <2>1, <2>2 DEF OnlyToSession
<1> QED
  BY <1>1, <1>2, <1>3, <1>4, <1>5, <1>6 DEF IInv

LEMMA UndefinedInv == ASSUME IInv, Undefined PROVE IInv'
<1>0. Shapes /\ Genuine /\ Matched /\ MessagesWhole /\ OnlyToSession
  BY DEF IInv
<1>a. ASSUME NEW v \in Users PROVE Unready(v)
  BY DEF IInv
<1> USE DEF Undefined, tokens, list, messages, redis, broadcast
<1>1. Shapes'
  BY <1>0 DEF Shapes
<1>2. Genuine'
  BY <1>0 DEF Genuine, Shapes
<1>3. Matched'
  BY <1>0 DEF Matched, Matches, Shapes
<1>4. ASSUME NEW v \in Users PROVE Unready(v)'
  BY <1>0, <1>a DEF Unready, Shapes
<1>5. MessagesWhole'
  BY <1>0, <1>a DEF MessagesWhole, Unready, Shapes
<1>6. OnlyToSession'
  BY <1>0, <1>a, NoneIsNoSession DEF OnlyToSession, Unready, Shapes, Genuine
<1> QED
  BY <1>1, <1>2, <1>3, <1>4, <1>5, <1>6 DEF IInv

LEMMA StutterInv == IInv /\ UNCHANGED vars => IInv'
BY DEF IInv, vars, tokens, list, messages, redis, broadcast, Shapes, Genuine, Matched, Matches,
       Unready, MessagesWhole, OnlyToSession

LEMMA StepInv == IInv /\ [Next]_vars => IInv'
<1> SUFFICES ASSUME IInv, [Next]_vars PROVE IInv'
  OBVIOUS
<1>1. CASE UNCHANGED vars
  BY <1>1, StutterInv
<1>2. CASE Tick \/ Subscriber \/ Dropped \/ Undefined
  BY <1>2, TickInv, TakeInv, TestInv, SendInv, DroppedInv, UndefinedInv DEF Subscriber
<1>3. ASSUME NEW u \in Users, Loop(u) PROVE IInv'
  BY <1>3, ListencbInv, HandshakeInv, FrameRecvInv, DisconnectInv
     DEF Loop, frame_write_cb, user_disconnect_cb
<1>4. ASSUME NEW s \in Sessions, createJwt(s) \/ publish(s) PROVE IInv'
  BY <1>4, CreateJwtInv, PublishInv
<1> QED
  BY <1>1, <1>2, <1>3, <1>4, Steps

-----------------------------------------------------------------------------
(* A client's messages reach onMessageReceived whole and in their order,   *)
(* if it has a session; nothing of a user without one does.                *)
THEOREM MessagesAreWhole == Spec => []MessagesWhole
<1>1. IInv => MessagesWhole
  BY DEF IInv
<1> QED
  BY <1>1, InitInv, StepInv, PTL DEF Spec

(* An undisturbed broadcast sends a message to users of its session only,  *)
(* though another thread may be changing the list between two messages.    *)
THEOREM SentOnlyToSession == Spec => []OnlyToSession
<1>1. IInv => OnlyToSession
  BY DEF IInv
<1> QED
  BY <1>1, InitInv, StepInv, PTL DEF Spec

-----------------------------------------------------------------------------
(* The list of users.                                                      *)

(* Erasing a user from a list without repetitions: its index is the only   *)
(* one that matches.                                                       *)
LEMMA FirstIndex ==
  ASSUME NEW S, NEW s \in Seq(S), IsInjective(s), NEW k \in 1..Len(s)
  PROVE  RemoveFirst(s, s[k]) = SubSeq(s, 1, k - 1) \o SubSeq(s, k + 1, Len(s))
<1> DEFINE I == {j \in 1..Len(s) : s[j] = s[k]}
<1>1. I = {k}
  BY DEF IsInjective
<1>2. Min(I) = k
  BY <1>1 DEF Min
<1>3. SelectInSeq(s, LAMBDA v : v = s[k]) = k
  BY <1>1, <1>2 DEF SelectInSeq
<1> QED
  BY <1>3 DEF RemoveFirst, RemoveAt

(* ... the users behind it move up by one,                                 *)
LEMMA RemoveOne ==
  ASSUME NEW S, NEW s \in Seq(S), IsInjective(s), NEW k \in 1..Len(s)
  PROVE  LET t == RemoveFirst(s, s[k])
         IN  /\ t \in Seq(S) /\ Len(t) = Len(s) - 1
             /\ \A j \in 1..(Len(s) - 1) : t[j] = IF j < k THEN s[j] ELSE s[j + 1]
<1> DEFINE a == SubSeq(s, 1, k - 1)
           b == SubSeq(s, k + 1, Len(s))
<1>1. a \in Seq(S) /\ Len(a) = k - 1 /\ \A j \in 1..(k - 1) : a[j] = s[j]
  <2>1. \A j \in 1..(k - 1) : s[j] \in S
    OBVIOUS
  <2>2. 1 \in Int /\ k - 1 \in Int
    OBVIOUS
  <2>3. /\ a \in Seq(S) /\ Len(a) = IF 1 <= k - 1 THEN (k - 1) - 1 + 1 ELSE 0
        /\ \A j \in 1..((k - 1) - 1 + 1) : a[j] = s[1 + j - 1]
    BY <2>1, <2>2, SubSeqProperties
  <2> QED
    BY <2>3
<1>2. /\ b \in Seq(S) /\ Len(b) = Len(s) - k
      /\ \A j \in 1..(Len(s) - k) : b[j] = s[k + j]
  <2>1. \A j \in (k + 1)..Len(s) : s[j] \in S
    OBVIOUS
  <2>2. k + 1 \in Int /\ Len(s) \in Int
    OBVIOUS
  <2>3. /\ b \in Seq(S) /\ Len(b) = IF k + 1 <= Len(s) THEN Len(s) - (k + 1) + 1 ELSE 0
        /\ \A j \in 1..(Len(s) - (k + 1) + 1) : b[j] = s[(k + 1) + j - 1]
    BY <2>1, <2>2, SubSeqProperties
  <2> QED
    BY <2>3
<1> HIDE DEF a, b
<1>3. /\ a \o b \in Seq(S) /\ Len(a \o b) = Len(a) + Len(b)
      /\ \A j \in 1..(Len(a) + Len(b)) : (a \o b)[j] = IF j <= Len(a) THEN a[j] ELSE b[j - Len(a)]
  <2>1. a \in Seq(S) /\ b \in Seq(S)
    BY <1>1, <1>2
  <2> QED
    BY <2>1, ConcatProperties, Zenon
<1>4. RemoveFirst(s, s[k]) = a \o b
  BY FirstIndex DEF a, b
<1>5. ASSUME NEW j \in 1..(Len(s) - 1)
      PROVE  (a \o b)[j] = IF j < k THEN s[j] ELSE s[j + 1]
  BY <1>1, <1>2, <1>3
<1>6. a \o b \in Seq(S) /\ Len(a \o b) = Len(s) - 1
  BY <1>1, <1>2, <1>3
<1> QED
  BY <1>4, <1>5, <1>6

(* ... the list still has every other user, once.                          *)
LEMMA EraseUser ==
  ASSUME NEW S, NEW s \in Seq(S), IsInjective(s), NEW e \in ToSet(s)
  PROVE  LET t == RemoveFirst(s, e)
         IN  t \in Seq(S) /\ IsInjective(t) /\ ToSet(t) = ToSet(s) \ {e}
<1>0. PICK k \in 1..Len(s) : s[k] = e
  BY DEF ToSet
<1> DEFINE t == RemoveFirst(s, e)
<1>1. /\ t \in Seq(S) /\ Len(t) = Len(s) - 1
      /\ \A j \in 1..(Len(s) - 1) : t[j] = IF j < k THEN s[j] ELSE s[j + 1]
  BY <1>0, RemoveOne
<1> HIDE DEF t
<1>2. DOMAIN t = 1..(Len(s) - 1) /\ DOMAIN s = 1..Len(s)
  BY <1>1
<1>3. IsInjective(t)
  <2>1. \A j \in 1..(Len(s) - 1) : \E m \in 1..Len(s) :
           t[j] = s[m] /\ ((j < k /\ m = j) \/ (j >= k /\ m = j + 1))
    <3>1. ASSUME NEW j \in 1..(Len(s) - 1), j < k PROVE j \in 1..Len(s) /\ t[j] = s[j]
      BY <1>1, <3>1
    <3>2. ASSUME NEW j \in 1..(Len(s) - 1), j >= k PROVE j + 1 \in 1..Len(s) /\ t[j] = s[j + 1]
      BY <1>1, <3>2
    <3>3. \A j \in 1..(Len(s) - 1) : j < k \/ j >= k
      OBVIOUS
    <3> QED
      BY <3>1, <3>2, <3>3
  <2>2. \A m, n \in 1..Len(s) : s[m] = s[n] => m = n
    BY <1>2 DEF IsInjective
  <2>3. ASSUME NEW x \in 1..(Len(s) - 1), NEW y \in 1..(Len(s) - 1), t[x] = t[y] PROVE x = y
    <3>1. PICK m \in 1..Len(s) : t[x] = s[m] /\ ((x < k /\ m = x) \/ (x >= k /\ m = x + 1))
      BY <2>1
    <3>2. PICK n \in 1..Len(s) : t[y] = s[n] /\ ((y < k /\ n = y) \/ (y >= k /\ n = y + 1))
      BY <2>1
    <3>3. m = n
      BY <2>2, <2>3, <3>1, <3>2
    <3> QED
      BY <3>1, <3>2, <3>3
  <2> QED
    BY <1>2, <2>3 DEF IsInjective
<1>4. ASSUME NEW x \in ToSet(t) PROVE x \in ToSet(s) \ {e}
  <2>1. PICK j \in 1..(Len(s) - 1) : t[j] = x
    BY <1>2 DEF ToSet
  <2>2. PICK m \in 1..Len(s) : m # k /\ s[m] = x
    <3>1. CASE j < k
      BY <1>1, <2>1, <3>1
    <3>2. CASE ~(j < k)
      BY <1>1, <2>1, <3>2
    <3> QED
      BY <3>1, <3>2
  <2> QED
    BY <1>0, <1>2, <2>2 DEF ToSet, IsInjective
<1>5. ASSUME NEW x \in ToSet(s), x # e PROVE x \in ToSet(t)
  <2>1. PICK m \in 1..Len(s) : s[m] = x
    BY DEF ToSet
  <2>2. m # k
    BY <1>0, <1>5, <2>1
  <2>3. CASE m < k
    <3>1. t[m] = x /\ m \in 1..(Len(s) - 1)
      BY <1>1, <2>1, <2>3
    <3> QED
      BY <1>2, <3>1 DEF ToSet
  <2>4. CASE m > k
    <3>1. t[m - 1] = x /\ m - 1 \in 1..(Len(s) - 1)
      BY <1>1, <2>1, <2>4
    <3> QED
      BY <1>2, <3>1 DEF ToSet
  <2> QED
    BY <2>2, <2>3, <2>4
<1> QED
  BY <1>1, <1>3, <1>4, <1>5 DEF t

(* A user that is not in the list can be appended to it.                   *)
LEMMA AppendUser ==
  ASSUME NEW S, NEW s \in Seq(S), IsInjective(s), NEW e \in S, e \notin ToSet(s)
  PROVE  LET t == Append(s, e)
         IN  t \in Seq(S) /\ IsInjective(t) /\ ToSet(t) = ToSet(s) \cup {e}
<1> DEFINE t == Append(s, e)
<1>1. /\ t \in Seq(S) /\ Len(t) = Len(s) + 1 /\ t[Len(s) + 1] = e
      /\ \A j \in 1..Len(s) : t[j] = s[j]
  BY AppendProperties
<1> HIDE DEF t
<1>2. DOMAIN t = 1..(Len(s) + 1) /\ DOMAIN s = 1..Len(s)
  BY <1>1
<1>3. \A j \in 1..Len(s) : s[j] # e
  BY <1>2 DEF ToSet
<1>4. IsInjective(t)
  BY <1>1, <1>2, <1>3 DEF IsInjective
<1>5. ToSet(t) = ToSet(s) \cup {e}
  BY <1>1, <1>2 DEF ToSet
<1> QED
  BY <1>1, <1>4, <1>5 DEF t

(* A list without repetitions is no longer than there are users.           *)
LEMMA ListLength ==
  ASSUME IsFiniteSet(Users), NEW s \in Seq(Users), IsInjective(s)
  PROVE  Cardinality(Users) \in Nat /\ Len(s) <= Cardinality(Users)
<1>1. s \in Injection(1..Len(s), Users)
  BY DEF Injection, IsInjective
<1>2. Cardinality(1..Len(s)) <= Cardinality(Users)
  BY <1>1, FS_Injection
<1>3. Cardinality(1..Len(s)) = Len(s)
  <2>1. 1 \in Int /\ Len(s) \in Int /\ Len(s) \in Nat
    OBVIOUS
  <2>2. Cardinality(1..Len(s)) = IF 1 > Len(s) THEN 0 ELSE Len(s) - 1 + 1
    BY <2>1, FS_Interval
  <2> QED
    BY <2>1, <2>2
<1> QED
  BY <1>2, <1>3, FS_CardinalityType

-----------------------------------------------------------------------------
(* The types.  Nothing leaves Created, the sessions that have a token; the *)
(* clock, the tokens, the list and the index are each left alone by every  *)
(* action but the few below.                                               *)

InUse == {u \in Users : state[u] \in {"open", "ready"}}
Clocks == now \in 1..MaxTime /\ exp \in [Sessions -> 0..(MaxTime + Lifetime)]
Lists == user_vec \in Seq(Users) /\ IsInjective(user_vec) /\ ToSet(user_vec) = InUse
Indexes == i \in 0..(Cardinality(Users) + 1) /\ (found => i <= Cardinality(Users))

Writes == writing \subseteq {u \in Users : state[u] = "ready" /\ sess[u] = None}

LEMMA Parts == TypeInv <=> /\ Clocks /\ Lists /\ Indexes /\ Writes
                           /\ sess \in [Users -> Created \cup Others \cup {None}]
                           /\ chan \in 0..Len(published)
BY DEF TypeInv, TypeOK, Listed, InUse, Clocks, Lists, Indexes, Writes

LEMMA TypeInit == ASSUME IsFiniteSet(Users), Init PROVE TypeInv
<1> USE DEF Init
<1>1. Cardinality(Users) \in Nat
  BY FS_CardinalityType
<1>2. Clocks
  BY DEF Clocks
<1>3. Lists
  <2>1. user_vec \in Seq(Users) /\ DOMAIN user_vec = {} /\ InUse = {}
    BY DEF InUse
  <2> QED
    BY <2>1 DEF Lists, IsInjective, ToSet
<1>4. Indexes
  BY <1>1 DEF Indexes
<1>5. sess \in [Users -> Created \cup Others \cup {None}] /\ chan \in 0..Len(published) /\ Writes
  BY DEF Created, Writes
<1> QED
  BY <1>2, <1>3, <1>4, <1>5, Parts

LEMMA ClocksStep == ASSUME Clocks, [Next]_vars PROVE Clocks'
<1>1. CASE Tick
  BY <1>1 DEF Clocks, Tick
<1>2. ASSUME NEW s \in Sessions, createJwt(s) PROVE Clocks'
  BY <1>2 DEF Clocks, createJwt
<1>3. CASE UNCHANGED tokens
  BY <1>3 DEF Clocks, tokens
<1> QED
  BY <1>1, <1>2, <1>3, Steps
     DEF vars, tokens, Subscriber, Take, Test, Send, Dropped, Undefined, Loop, listencb,
         handshake_cb_handler, frame_recv_cb, frame_write_cb, user_disconnect_cb, user_disconnect,
         publish, loopUnchanged, subscriberUnchanged

LEMMA CreatedGrows == ASSUME Clocks, [Next]_vars PROVE Created \subseteq Created'
<1>1. ASSUME NEW s \in Sessions, createJwt(s) PROVE Created \subseteq Created'
  BY <1>1 DEF Clocks, createJwt, Created
<1>2. CASE UNCHANGED exp
  BY <1>2 DEF Created
<1> QED
  BY <1>1, <1>2, Steps
     DEF vars, tokens, Tick, Subscriber, Take, Test, Send, Dropped, Undefined, Loop, listencb,
         handshake_cb_handler, frame_recv_cb, frame_write_cb, user_disconnect_cb, user_disconnect,
         publish, loopUnchanged, subscriberUnchanged

(* A user enters the list when it connects and leaves it when it is        *)
(* disconnected; the handshake keeps it there.                             *)
LEMMA ListsStep == ASSUME Shapes, Lists, Writes, [Next]_vars PROVE Lists'
<1>1. ASSUME NEW u \in Users, listencb(u) PROVE Lists'
  <2>1. u \notin ToSet(user_vec)
    BY <1>1 DEF Lists, InUse, listencb
  <2>2. InUse' = InUse \cup {u}
    BY <1>1 DEF Shapes, InUse, listencb
  <2>3. user_vec' = Append(user_vec, u)
    BY <1>1 DEF listencb
  <2> QED
    BY <2>1, <2>2, <2>3, AppendUser DEF Lists
<1>2. ASSUME NEW u \in Users, user_disconnect(u), state[u] \in {"open", "ready"} PROVE Lists'
  <2>1. u \in ToSet(user_vec)
    BY <1>2 DEF Lists, InUse
  <2>2. InUse' = InUse \ {u}
    BY <1>2 DEF Shapes, InUse, user_disconnect, user_destroy
  <2>3. user_vec' = RemoveFirst(user_vec, u)
    BY <1>2 DEF user_disconnect, Erased
  <2> QED
    BY <2>1, <2>2, <2>3, EraseUser DEF Lists
<1>3. ASSUME NEW u \in Users, handshake_cb_handler(u) PROVE Lists'
  <2>1. InUse' = InUse /\ user_vec' = user_vec
    BY <1>3 DEF Shapes, InUse, handshake_cb_handler
  <2> QED
    BY <2>1 DEF Lists
<1>4. CASE UNCHANGED <<user_vec, state>>
  BY <1>4 DEF Lists, InUse
<1>5. ASSUME NEW u \in Users, Loop(u) PROVE Lists'
  <2>1. CASE frame_write_cb(u)
    BY <1>2, <2>1 DEF frame_write_cb, Writes
  <2>2. CASE user_disconnect_cb(u)
    BY <1>2, <2>2 DEF user_disconnect_cb
  <2>3. CASE frame_recv_cb(u)
    BY <1>4, <2>3 DEF frame_recv_cb, list
  <2> QED
    BY <1>1, <1>3, <1>5, <2>1, <2>2, <2>3 DEF Loop
<1> QED
  BY <1>4, <1>5, Steps
     DEF vars, list, Tick, createJwt, Subscriber, Take, Test, Send, Dropped, Undefined, publish,
         subscriberUnchanged

(* Only the subscriber's thread moves the index, and not past a match.     *)
LEMMA IndexesStep ==
  ASSUME IsFiniteSet(Users), Matched, Lists, Indexes, [Next]_vars PROVE Indexes'
<1>0. Cardinality(Users) \in Nat /\ Len(user_vec) <= Cardinality(Users) /\ Len(user_vec) \in Nat
  BY ListLength DEF Lists
<1>1. CASE Take
  BY <1>0, <1>1 DEF Indexes, Take, Matched
<1>2. CASE Test
  BY <1>0, <1>2 DEF Indexes, Test
<1>3. CASE Send
  BY <1>0, <1>3 DEF Indexes, Send, NextIndex
<1>4. CASE UNCHANGED <<i, found>>
  BY <1>4 DEF Indexes
<1> QED
  BY <1>1, <1>2, <1>3, <1>4, Steps
     DEF vars, broadcast, Tick, createJwt, Subscriber, Dropped, Undefined, Loop, listencb,
         handshake_cb_handler, frame_recv_cb, frame_write_cb, user_disconnect_cb, user_disconnect,
         publish, loopUnchanged

(* A handshake takes a token that has been made for its session.           *)
LEMMA SessStep ==
  ASSUME Clocks, sess \in [Users -> Created \cup Others \cup {None}], [Next]_vars
  PROVE  sess' \in [Users -> Created' \cup Others \cup {None}]
<1>0. Created \subseteq Created'
  BY CreatedGrows
<1>1. ASSUME NEW u \in Users, handshake_cb_handler(u) PROVE sess' \in [Users -> Created' \cup Others \cup {None}]
  <2>1. PICK path \in BOOLEAN, t \in Tokens : sess' = [sess EXCEPT ![u] =
                        parseQuerystringForAuthentication(parseWebRequestLine(path, t))]
    BY <1>1 DEF handshake_cb_handler
  <2>2. parseQuerystringForAuthentication(parseWebRequestLine(path, t))
           \in Created \cup Others \cup {None}
    BY SessionOfLine
  <2> QED
    BY <1>0, <2>1, <2>2
<1>2. ASSUME NEW u \in Users, user_disconnect(u) PROVE sess' \in [Users -> Created' \cup Others \cup {None}]
  BY <1>0, <1>2 DEF user_disconnect, user_destroy
<1>3. CASE UNCHANGED sess
  BY <1>0, <1>3
<1> QED
  BY <1>1, <1>2, <1>3, Steps
     DEF vars, list, Tick, createJwt, Subscriber, Take, Test, Send, Dropped, Undefined, Loop,
         listencb, frame_recv_cb, frame_write_cb, user_disconnect_cb, publish, subscriberUnchanged

(* A frame is on its way out only to a user that has shaken hands, and     *)
(* tracked until it is out only for one without a session.                 *)
LEMMA WritesStep == ASSUME Shapes, Writes, [Next]_vars PROVE Writes'
<1>1. ASSUME NEW u \in Users, listencb(u) PROVE Writes'
  BY <1>1 DEF Shapes, Writes, listencb
<1>2. ASSUME NEW u \in Users, handshake_cb_handler(u) PROVE Writes'
  <2>1. PICK s : sess' = [sess EXCEPT ![u] = s]
    BY <1>2 DEF handshake_cb_handler
  <2>2. /\ state[u] = "open" /\ state' = [state EXCEPT ![u] = "ready"]
        /\ writing' = writing \/ (sess'[u] = None /\ writing' = writing \cup {u})
    BY <1>2 DEF handshake_cb_handler
  <2> QED
    BY <2>1, <2>2 DEF Shapes, Writes
<1>3. ASSUME NEW u \in Users, frame_recv_cb(u) PROVE Writes'
  <2>1. /\ state[u] = "ready" /\ UNCHANGED <<state, sess>>
        /\ writing' = writing \/ (sess[u] = None /\ writing' = writing \cup {u})
    BY <1>3 DEF frame_recv_cb, Unauthorized, list
  <2> QED
    BY <2>1 DEF Shapes, Writes
<1>4. ASSUME NEW u \in Users, user_disconnect(u) PROVE Writes'
  BY <1>4 DEF Shapes, Writes, user_disconnect, user_destroy
<1>5. CASE UNCHANGED <<writing, state, sess>>
  BY <1>5 DEF Writes
<1> QED
  BY <1>1, <1>2, <1>3, <1>4, <1>5, Steps
     DEF vars, list, Tick, createJwt, Subscriber, Take, Test, Send, Dropped, Undefined, Loop,
         frame_write_cb, user_disconnect_cb, publish, subscriberUnchanged

LEMMA ChanTyped == Shapes /\ Genuine => chan \in 0..Len(published)
BY DEF Shapes, Genuine

(* The list of users has every connected user and none twice, whatever     *)
(* connects and leaves; a user's session is one that a good token gives    *)
(* it; a frame is being written only to one that is there and has none;    *)
(* and a broadcast's index stays within one of the users there are.        *)
THEOREM TypeCorrect == ASSUME IsFiniteSet(Users) PROVE Spec => []TypeOK
<1>1. Init => TypeInv
  BY TypeInit
<1>2. IInv => Shapes /\ Matched /\ (chan \in 0..Len(published))
  BY ChanTyped DEF IInv
<1>3. IInv' => (chan \in 0..Len(published))'
  BY <1>2, PTL
<1>4. IInv /\ IInv' /\ TypeInv /\ [Next]_vars => TypeInv'
  <2> SUFFICES ASSUME IInv, IInv', TypeInv, [Next]_vars PROVE TypeInv'
    OBVIOUS
  <2>1. Clocks /\ Lists /\ Indexes /\ Writes /\ sess \in [Users -> Created \cup Others \cup {None}]
    BY Parts
  <2>2. /\ Clocks' /\ Lists' /\ Indexes' /\ Writes'
        /\ sess' \in [Users -> Created' \cup Others \cup {None}]
    BY <1>2, <2>1, ClocksStep, ListsStep, IndexesStep, WritesStep, SessStep
  <2>3. (chan \in 0..Len(published))'
    BY <1>3
  <2> QED
    BY <2>2, <2>3 DEF TypeInv, TypeOK, Listed, InUse, Clocks, Lists, Indexes, Writes
<1>5. TypeInv => TypeOK
  BY DEF TypeInv
<1> QED
  BY <1>1, <1>4, <1>5, InitInv, StepInv, PTL DEF Spec
=============================================================================
