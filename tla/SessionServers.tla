--------------------------- MODULE SessionServers ---------------------------
(***************************************************************************)
(* The servers of store::servers around a session: web tokens, the HTTP    *)
(* server whose routes a token opens (RS256SecureRedisServer) and the web  *)
(* socket server that pushes what is published for a session to its users  *)
(* (RS256SecureRedisWsServer).                                             *)
(*                                                                         *)
(* Three threads meet: one of HTTP, the event loop of the web sockets, and *)
(* the thread of the Redis subscriber.  The last two share user_vec, the   *)
(* sessions in it and the users' buffers without a lock.  A broadcast      *)
(* during which the list or a session changes is "disturbed": its          *)
(* behaviour is then undefined, and it is given the outcomes of reading    *)
(* the new list, or the process ends.  Redis, libevent and the web socket  *)
(* library are external; of the last it is assumed that it keeps control   *)
(* frames to itself, since the callback does not look at the opcode.       *)
(***************************************************************************)
EXTENDS Naturals, SequencesExt

CONSTANTS
    Users,        \* web socket connections
    Sessions,     \* session ids; createJwt makes one token for each
    Others,       \* those in tokens that others have made
    Lifetime,     \* ticks of the clock a token outlives the one it is made in
    Second,       \* ticks of a second; the ticks themselves are milliseconds
    MaxTime,      \* bound: the clock
    MaxFrames,    \* bound: frames received
    MaxPublished  \* bound: messages published

ASSUME ServersAssumption ==
    /\ Lifetime \in Nat /\ MaxTime \in Nat \ {0} /\ Second \in Nat \ {0}
    /\ Others \subseteq Sessions /\ "none" \notin Sessions

VARIABLES
    now, exp,     \* the clock; when a session's token expires, 0 without one
    user_vec,     \* the list of users
    state,        \* of a connection: "new", "open", "ready" or "gone"
    sess,         \* a user's session, None when it is not valid
    msg,          \* the size of a user's message so far
    writing,      \* users without a session that are being written to
    subscribed,   \* is the subscriber connected to Redis?
    topic,        \* messages on their way to the subscriber
    chan, i, found, \* broadcast: its message, the index, has line 30 matched?
    crashed,
    frames, size, \* the clients: frames sent, the size of a message so far
    sent,         \* history: the sizes of a client's messages
    received,     \* history: what onMessageReceived got of them
    published,    \* history: the sessions of the messages published
    got,          \* history: the messages a user was sent
    disturbed     \* history: the messages whose broadcast was disturbed

tokens == <<now, exp>>
list == <<user_vec, state, sess, disturbed>>
messages == <<msg, frames, size, sent, received>>
redis == <<subscribed, topic, published>>
broadcast == <<chan, i, found, got>>
vars == <<tokens, list, messages, writing, redis, broadcast, crashed>>

None == "none"                \* no session

Init == /\ now = 1
        /\ exp = [s \in Sessions |-> 0]
        /\ user_vec = <<>> /\ state = [u \in Users |-> "new"]
        /\ sess = [u \in Users |-> None]
        /\ msg = [u \in Users |-> 0] /\ writing = {}
        /\ subscribed = TRUE /\ topic = <<>>
        /\ chan = 0 /\ i = 0 /\ found = FALSE /\ crashed = FALSE
        /\ frames = 0 /\ size = [u \in Users |-> 0]
        /\ sent = [u \in Users |-> <<>>] /\ received = [u \in Users |-> <<>>]
        /\ published = <<>>
        /\ got = [u \in Users |-> {}] /\ disturbed = {}

-----------------------------------------------------------------------------
(* Tokens.                                                                 *)

(* A token of createJwt is signed with the private key.  One that is       *)
(* signed with the public key as the secret of hs256 is as good; whoever   *)
(* has made it has put what he liked into it.  Any other is forged.        *)
Token(alg, s, e) == [alg |-> alg, sid |-> s, exp |-> e]
NoToken == Token("none", None, 0)
Forged == Token("forged", None, 0)

Created == {s \in Sessions : exp[s] > 0}
Tokens == {Token("rs256", s, exp[s]) : s \in Created}
          \cup {Token("hs256", s, e) : s \in Others, e \in 0..(MaxTime + Lifetime)}
          \cup {NoToken, Forged}

(* jwt::decode takes the milliseconds for seconds, so that it finds no     *)
(* token expired that tokenExpired would not.                              *)
decryptJwt(t) == t.alg \in {"rs256", "hs256"} /\ now \div Second <= t.exp
tokenExpired(t) == now > t.exp
isRS256Authenticated(t) == decryptJwt(t) /\ ~tokenExpired(t)

(* The parts of a token as JSON, and the session in them: the session id   *)
(* is in the header.  JSON without both parts gives no session.            *)
jwtObjectToJson(t) == [header |-> [sid |-> t.sid], payload |-> [exp |-> t.exp]]
from_json(j) == IF {"header", "payload"} \subseteq DOMAIN j THEN j.header.sid ELSE None

Tick == /\ now < MaxTime /\ now' = now + 1
        /\ UNCHANGED <<exp, list, messages, writing, redis, broadcast, crashed>>

createJwt(s) == /\ exp[s] = 0
                /\ exp' = [exp EXCEPT ![s] = now + Lifetime]
                /\ UNCHANGED <<now, list, messages, writing, redis, broadcast, crashed>>

-----------------------------------------------------------------------------
(* The event loop of the web sockets.                                      *)

Disturb == disturbed' = IF chan > 0 THEN disturbed \cup {chan} ELSE disturbed
loopUnchanged == <<tokens, redis, broadcast, crashed>>

listencb(u) ==
    /\ state[u] = "new"
    /\ state' = [state EXCEPT ![u] = "open"]
    /\ user_vec' = Append(user_vec, u)
    /\ Disturb
    /\ UNCHANGED <<sess, messages, writing, loopUnchanged>>

(* A request line gives its path, and that the token in its query string.  *)
parseWebRequestLine(path, t) == IF path THEN t ELSE NoToken

(* The session of the token, if that is good.                              *)
parseQuerystringForAuthentication(t) ==
    IF isRS256Authenticated(t) THEN from_json(jwtObjectToJson(t)) ELSE None

(* The reply to the handshake may still have to be written.                *)
handshake_cb_handler(u) ==
    /\ state[u] = "open"
    /\ state' = [state EXCEPT ![u] = "ready"]
    /\ \E path \in BOOLEAN, t \in Tokens :
          sess' = [sess EXCEPT ![u] =
                      parseQuerystringForAuthentication(parseWebRequestLine(path, t))]
    /\ \/ UNCHANGED writing
       \/ sess'[u] = None /\ writing' = writing \cup {u}
    /\ Disturb
    /\ UNCHANGED <<user_vec, messages, loopUnchanged>>

(* Variant that does not empty msg after a message.                        *)
NextMsgKept(length, fin) == length

(* user->msg after a frame.                                                *)
NextMsg(length, fin) == IF fin THEN 0 ELSE length

(* Variant that drops the frame of a user without a session silently.      *)
UnauthorizedSilently(u) == writing

(* The user gets a frame that says "Unauthorized".                         *)
Unauthorized(u) == writing \cup {u}

(* A data frame with a payload, the last of its message or not.            *)
frame_recv_cb(u) ==
    /\ state[u] = "ready" /\ frames < MaxFrames
    /\ frames' = frames + 1
    /\ \E fin \in BOOLEAN :
          /\ size' = [size EXCEPT ![u] = IF fin THEN 0 ELSE @ + 1]
          /\ sent' = IF fin THEN [sent EXCEPT ![u] = Append(@, size[u] + 1)] ELSE sent
          /\ \/ sess[u] = None /\ writing' = Unauthorized(u) /\ UNCHANGED <<msg, received>>
             \/ /\ sess[u] # None /\ UNCHANGED writing
                /\ received' = IF fin THEN [received EXCEPT ![u] = Append(@, msg[u] + 1)]
                                      ELSE received
                /\ msg' = [msg EXCEPT ![u] = NextMsg(@ + 1, fin)]
    /\ UNCHANGED <<list, loopUnchanged>>

(* Variant that leaves the user in the list.                               *)
ErasedNone(u) == user_vec

Erased(u) == RemoveFirst(user_vec, u)

(* The user is deleted, with its session, its message and its histories.   *)
user_destroy(u) ==
    /\ state' = [state EXCEPT ![u] = "gone"]
    /\ sess' = [sess EXCEPT ![u] = None]
    /\ msg' = [msg EXCEPT ![u] = 0] /\ size' = [size EXCEPT ![u] = 0]
    /\ sent' = [sent EXCEPT ![u] = <<>>] /\ received' = [received EXCEPT ![u] = <<>>]
    /\ writing' = writing \ {u} /\ got' = [got EXCEPT ![u] = {}]

user_disconnect(u) ==
    /\ user_vec' = Erased(u)
    /\ user_destroy(u)
    /\ Disturb
    /\ UNCHANGED <<tokens, frames, redis, chan, i, found, crashed>>

(* The library calls it when it has written what there was to write.  It   *)
(* leaves a user with a session alone.                                     *)
frame_write_cb(u) == u \in writing /\ sess[u] = None /\ user_disconnect(u)

(* The client closes.                                                      *)
user_disconnect_cb(u) == state[u] \in {"open", "ready"} /\ user_disconnect(u)

-----------------------------------------------------------------------------
(* Publishing, and the subscriber's thread.                                *)

subscriberUnchanged == <<tokens, list, messages, writing, crashed>>

publish(s) == /\ Len(published) < MaxPublished
              /\ published' = Append(published, s)
              /\ topic' = IF subscribed THEN Append(topic, Len(published')) ELSE topic
              /\ UNCHANGED <<subscribed, broadcast, subscriberUnchanged>>

(* An application's thread, for a session it has created.                  *)
Announce(s) == s \in Created /\ publish(s)

(* A request's token: the header comes first, and a bad token there is not *)
(* made good by the query string.                                          *)
RequestToken(header, query) == IF header # NoToken THEN header ELSE query

(* A request for a secured route of the application, which publishes to    *)
(* the session it is given.  The branches and routes of the repository     *)
(* keep nothing of a request, whether they answer or refuse it.            *)
ProcessRequest(header, query) ==
    /\ isRS256Authenticated(RequestToken(header, query))
    /\ publish(from_json(jwtObjectToJson(RequestToken(header, query))))

(* The subscriber's connection drops; nothing connects it again.           *)
Dropped == /\ subscribed /\ subscribed' = FALSE /\ topic' = <<>>
           /\ UNCHANGED <<published, broadcast, subscriberUnchanged>>

Take == /\ chan = 0 /\ topic # <<>>
        /\ chan' = Head(topic) /\ topic' = Tail(topic) /\ i' = 1
        /\ UNCHANGED <<subscribed, published, found, got, subscriberUnchanged>>

(* Variant that pushes a message to every user, as the test's EchoServer.  *)
MatchesAll(u) == TRUE

Matches(u) == sess[u] = published[chan]

(* Lines 29 and 30.                                                        *)
Test == /\ chan > 0 /\ ~found
        /\ \/ /\ i <= Len(user_vec) /\ Matches(user_vec[i])
              /\ found' = TRUE /\ UNCHANGED <<chan, i>>
           \/ /\ i <= Len(user_vec) /\ ~Matches(user_vec[i])
              /\ i' = i + 1 /\ UNCHANGED <<chan, found>>
           \/ /\ i > Len(user_vec)
              /\ chan' = 0 /\ i' = 0 /\ UNCHANGED found
        /\ UNCHANGED <<redis, got, subscriberUnchanged>>

(* Variant that leaves the loop after the first user of the session.       *)
NextIndexLast == Len(user_vec) + 1

NextIndex == i + 1

(* Line 31, which reads the list once more, perhaps past its end.          *)
Send == /\ chan > 0 /\ found
        /\ got' = IF i <= Len(user_vec) THEN [got EXCEPT ![user_vec[i]] = @ \cup {chan}] ELSE got
        /\ found' = FALSE /\ i' = NextIndex
        /\ UNCHANGED <<chan, redis, subscriberUnchanged>>

(* What a disturbed broadcast may do, and line 31 also when only the       *)
(* user's buffer is in use by the event loop.                              *)
Undefined == /\ chan \in disturbed \/ found
             /\ crashed' = TRUE
             /\ UNCHANGED <<tokens, list, messages, writing, redis, broadcast>>

-----------------------------------------------------------------------------
Loop(u) == \/ listencb(u) \/ handshake_cb_handler(u) \/ frame_recv_cb(u)
           \/ frame_write_cb(u) \/ user_disconnect_cb(u)
Subscriber == Take \/ Test \/ Send

Next == /\ ~crashed
        /\ \/ Tick \/ Subscriber \/ Dropped \/ Undefined
           \/ \E u \in Users : Loop(u)
           \/ \E s \in Sessions : createJwt(s) \/ Announce(s)
           \/ \E header, query \in Tokens : ProcessRequest(header, query)

(* The subscriber's thread runs, and what there is to write is written.    *)
Spec == /\ Init /\ [][Next]_vars
        /\ WF_vars(~crashed /\ Subscriber)
        /\ \A u \in Users : WF_vars(~crashed /\ frame_write_cb(u))

-----------------------------------------------------------------------------
(* Properties.                                                             *)

(* Types, and the list of users has every connected one, once.             *)
TypeOK ==
    /\ now \in 1..MaxTime
    /\ exp \in [Sessions -> 0..(MaxTime + Lifetime)]
    /\ IsInjective(user_vec)
    /\ ToSet(user_vec) = {u \in Users : state[u] \in {"open", "ready"}}
    /\ sess \in [Users -> Created \cup Others \cup {None}]
    /\ writing \subseteq {u \in Users : state[u] = "ready" /\ sess[u] = None}
    /\ chan \in 0..Len(published)
    /\ i \in 0..(Cardinality(Users) + 1)

(* onMessageReceived gets a client's messages whole, in their order, and   *)
(* gets none of a user without a session.                                  *)
MessagesWhole ==
    \A u \in Users : IF sess[u] # None THEN received[u] = sent[u] /\ msg[u] = size[u]
                                       ELSE received[u] = <<>>

(* A message that no change disturbed was sent only to users of its        *)
(* session.                                                                *)
OnlyToSession ==
    \A u \in Users : \A n \in got[u] \ disturbed : sess[u] = published[n]

(* ... and is sent to every user that has the session when it is           *)
(* published and stays, as long as the subscriber is connected.            *)
AllOfSession ==
    \A u \in Users : \A n \in 1..MaxPublished :
       (n \in ToSet(topic) /\ sess[u] = published[n])
          ~> (n \in got[u] \cup disturbed \/ state[u] = "gone" \/ ~subscribed \/ crashed)

(* A user that shook hands without a good token and then sends a frame is  *)
(* told so and disconnected: it neither stays in the list nor is left      *)
(* without an answer, whatever the handshake's reply and the subscriber's  *)
(* thread do meanwhile.                                                    *)
StrangersLeave ==
    \A u \in Users :
       (state[u] = "ready" /\ sess[u] = None /\ (size[u] > 0 \/ sent[u] # <<>>))
          ~> (state[u] = "gone" \/ crashed)
-----------------------------------------------------------------------------
(* The inductive invariant behind the safety properties.                   *)

Shapes ==
    /\ now \in Nat /\ exp \in [Sessions -> Nat]
    /\ state \in [Users -> {"new", "open", "ready", "gone"}]
    /\ sess \in [Users -> Sessions \cup {None}]
    /\ msg \in [Users -> Nat] /\ size \in [Users -> Nat]
    /\ sent \in [Users -> Seq(Nat)] /\ received \in [Users -> Seq(Nat)]
    /\ published \in Seq(Sessions) /\ topic \in Seq(Nat)
    /\ chan \in Nat /\ disturbed \subseteq Nat
    /\ got \in [Users -> SUBSET Nat]

(* Every message under way, in the broadcast or sent has been published.   *)
Genuine == /\ \A k \in DOMAIN topic : topic[k] \in DOMAIN published
           /\ chan # 0 => chan \in DOMAIN published
           /\ \A u \in Users : got[u] \subseteq DOMAIN published

(* What line 30 has matched is still so at line 31, unless disturbed.      *)
Matched == found => chan # 0 /\ (chan \in disturbed \/ Matches(user_vec[i]))

(* A user has nothing before its handshake.                                *)
Unready(u) == state[u] \in {"new", "open"} =>
                 /\ sess[u] = None /\ msg[u] = 0 /\ size[u] = 0
                 /\ sent[u] = <<>> /\ received[u] = <<>>

IInv == /\ Shapes /\ Genuine /\ Matched
        /\ \A u \in Users : Unready(u)
        /\ MessagesWhole /\ OnlyToSession

(* What line 30 has matched is at an index that was of the list: the next  *)
(* one is at most one past the users there can be.                         *)
Listed == user_vec \in Seq(Users) /\ (found => i <= Cardinality(Users))

(* Inductive with IInv, and has TypeOK as its first part.                  *)
TypeInv == TypeOK /\ Listed
=============================================================================
