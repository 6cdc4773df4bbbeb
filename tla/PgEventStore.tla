---------------------------- MODULE PgEventStore ----------------------------
(***************************************************************************)
(* store::storage::pgsql::PgEventStore on top of EventStore: sessions      *)
(* collect events in `pending' and Save() appends them, one database       *)
(* transaction per stream, through the SQL function mt_append_event.       *)
(*                                                                         *)
(* A session is one client object, used by one thread at a time; sessions  *)
(* share the connection pool and the database.  Save() is split where      *)
(* another session or the server can act in between: the loop over the     *)
(* streams, the borrow, and every statement of mt_append_event, each with  *)
(* the snapshot READ COMMITTED gives it.  Rows of an open transaction are  *)
(* invisible to others, but their unique keys are not: an insert that      *)
(* meets one waits for the other transaction to end.                       *)
(***************************************************************************)
EXTENDS Integers, Sequences, FiniteSets

CONSTANTS
    Sessions,     \* client objects, each with its own EventStore
    Streams,      \* stream ids, as numbers ordered like the std::map keys
    Conns,        \* slots of the shared connection pool
    NoConn,       \* a null shared_ptr
    MaxAppends,   \* bound: events a session appends
    MaxFails,     \* bound: failed Save() calls of a session
    MaxFaults,    \* bound: failures of the server or of the network
    MaxSeq        \* bound: values drawn from mt_events_sequence

ASSUME StreamsAssumption == Streams \subseteq Nat /\ Streams # {}
ASSUME FiniteConns == IsFiniteSet(Conns) /\ NoConn \notin Conns
ASSUME BoundsAssumption == /\ MaxAppends \in Nat
                           /\ MaxFails \in Nat
                           /\ MaxFaults \in Nat
                           /\ MaxSeq \in Nat

VARIABLES
    pending,      \* EventStore::pending, per session
    appended,     \* how many events the session's user has appended
    pc,           \* where the session is in Save()
    todo,         \* streams Save() has not finished with
    tx,           \* local state of mt_append_event, per session
    ret,          \* code the last Save() returned
    fails,        \* failed Save() calls
    faults,       \* failures the environment has injected
    mt_streams,   \* committed version column per stream, NoRow if absent
    mt_events,    \* committed rows of mt_events
    seq,          \* last value of mt_events_sequence
    free, borrowed, held, dead   \* the pool, see ConnectionPool

Pool == INSTANCE ConnectionPool WITH Clients <- Sessions

vars == <<pending, appended, pc, todo, tx, ret, fails, faults,
          mt_streams, mt_events, seq, free, borrowed, held, dead>>
sessionVars == <<pending, appended, todo, ret, fails>>
dbVars == <<mt_streams, mt_events>>
poolVars == <<free, borrowed, held, dead>>

NoRow == -1                                        \* no row in mt_streams
InTx  == {"select", "newstream", "nextval", "insert", "update"}
PCs   == {"idle", "loop", "reply"} \cup InTx
Codes == {0, 200, 400, 500, 503}                   \* ErrorType; 0: never saved

(* An event: the no-th one its session appended, for one stream.  Its id   *)
(* is a fresh uuid on every Save(), so the unique id never collides.       *)
Event == [by : Sessions, no : Nat, stream : Streams]

(* A row of mt_events: sequence number, version in the stream, the event.  *)
Row == [seq : Nat, version : Nat, ev : Event]

(* A transaction: stream, event_version, the position in pending of the    *)
(* last event inserted, the sequence value drawn, whether it inserted the  *)
(* mt_streams row, and the rows inserted so far.                           *)
Tx == [stream : Streams, version : Nat, at : Nat, seq : Nat,
       fresh : BOOLEAN, rows : Seq(Row)]
NoTx == [stream |-> CHOOSE st \in Streams : TRUE, version |-> 0, at |-> 0,
         seq |-> 0, fresh |-> FALSE, rows |-> << >>]

Init == /\ pending = [s \in Sessions |-> << >>]
        /\ appended = [s \in Sessions |-> 0]
        /\ pc = [s \in Sessions |-> "idle"]
        /\ todo = [s \in Sessions |-> {}]
        /\ tx = [s \in Sessions |-> NoTx]
        /\ ret = [s \in Sessions |-> 0]
        /\ fails = [s \in Sessions |-> 0]
        /\ faults = 0
        /\ mt_streams = [st \in Streams |-> NoRow]
        /\ mt_events = {}
        /\ seq = 0
        /\ Pool!Init

-----------------------------------------------------------------------------
(* The session's side.                                                     *)

(* EventStore::Append.                                                     *)
AppendEvent(s, st) ==
    /\ pc[s] = "idle"
    /\ appended[s] < MaxAppends
    /\ appended' = [appended EXCEPT ![s] = @ + 1]
    /\ pending' = [pending EXCEPT ![s] =
                     Append(@, [by |-> s, no |-> appended[s] + 1, stream |-> st])]
    /\ UNCHANGED <<pc, todo, tx, ret, fails, faults, dbVars, seq, poolVars>>

(* Save() groups the pending events by stream.                             *)
Save(s) ==
    /\ pc[s] = "idle"
    /\ fails[s] < MaxFails
    /\ pc' = [pc EXCEPT ![s] = "loop"]
    /\ todo' = [todo EXCEPT ![s] = {pending[s][i].stream : i \in DOMAIN pending[s]}]
    /\ UNCHANGED <<pending, appended, tx, ret, fails, faults, dbVars, seq, poolVars>>

(* The next group of the map: the least stream id not done yet.            *)
IsNextStream(s, st) == st \in todo[s] /\ \A other \in todo[s] : st <= other

(* Borrow a connection and send mt_append_event for the next stream.       *)
Send(s, st) ==
    /\ pc[s] = "loop"
    /\ IsNextStream(s, st)
    /\ Pool!Borrow(s)
    /\ pc' = [pc EXCEPT ![s] = "select"]
    /\ tx' = [tx EXCEPT ![s] = [NoTx EXCEPT !.stream = st]]
    /\ UNCHANGED <<sessionVars, faults, dbVars, seq>>

(* Variant with conn declared outside the loop and returned after it.      *)
ReceiveKeepsConnection(s) ==
    /\ pc[s] = "reply"
    /\ todo' = [todo EXCEPT ![s] = @ \ {tx[s].stream}]
    /\ tx' = [tx EXCEPT ![s] = NoTx]
    /\ pc' = [pc EXCEPT ![s] = "loop"]
    /\ UNCHANGED <<pending, appended, ret, fails, faults, dbVars, seq, poolVars>>

(* The answer arrives: unborrow, and on to the next stream.                *)
Receive(s) ==
    /\ pc[s] = "reply"
    /\ Pool!Unborrow(s)
    /\ todo' = [todo EXCEPT ![s] = @ \ {tx[s].stream}]
    /\ tx' = [tx EXCEPT ![s] = NoTx]
    /\ pc' = [pc EXCEPT ![s] = "loop"]
    /\ UNCHANGED <<pending, appended, ret, fails, faults, dbVars, seq>>

(* Variant with the Reset() forgotten.                                     *)
FinishWithoutReset(s) ==
    /\ pc[s] = "loop"
    /\ todo[s] = {}
    /\ ret' = [ret EXCEPT ![s] = 200]
    /\ pc' = [pc EXCEPT ![s] = "idle"]
    /\ UNCHANGED <<pending, appended, todo, tx, fails, faults, dbVars, seq, poolVars>>

(* Every stream is done: Reset() and report success.                       *)
Finish(s) ==
    /\ pc[s] = "loop"
    /\ todo[s] = {}
    /\ pending' = [pending EXCEPT ![s] = << >>]
    /\ ret' = [ret EXCEPT ![s] = 200]
    /\ pc' = [pc EXCEPT ![s] = "idle"]
    /\ UNCHANGED <<appended, todo, tx, fails, faults, dbVars, seq, poolVars>>

(* Variant that resets on every way out of Save().                         *)
FailWithReset(s, code) ==
    /\ pc' = [pc EXCEPT ![s] = "idle"]
    /\ ret' = [ret EXCEPT ![s] = code]
    /\ fails' = [fails EXCEPT ![s] = @ + 1]
    /\ todo' = [todo EXCEPT ![s] = {}]
    /\ tx' = [tx EXCEPT ![s] = NoTx]
    /\ pending' = [pending EXCEPT ![s] = << >>]
    /\ UNCHANGED appended

(* Any exception: return its code at once, with no unborrow and no Reset.  *)
Fail(s, code) ==
    /\ pc' = [pc EXCEPT ![s] = "idle"]
    /\ ret' = [ret EXCEPT ![s] = code]
    /\ fails' = [fails EXCEPT ![s] = @ + 1]
    /\ todo' = [todo EXCEPT ![s] = {}]
    /\ tx' = [tx EXCEPT ![s] = NoTx]     \* the server rolls back
    /\ UNCHANGED <<pending, appended>>

Fault == faults < MaxFaults /\ faults' = faults + 1

(* Variant that logs the exception and goes on with the next stream.       *)
UnavailableSwallowed(s) ==
    /\ pc[s] = "loop"
    /\ Pool!Exhausted
    /\ \E st \in todo[s] : IsNextStream(s, st) /\ todo' = [todo EXCEPT ![s] = @ \ {st}]
    /\ UNCHANGED <<pending, appended, pc, tx, ret, fails, faults, dbVars, seq, poolVars>>

(* borrow throws ConnectionUnavailable: every connection is in use, or the *)
(* pool is dry and the replacement of an abandoned one cannot connect.     *)
Unavailable(s) ==
    /\ pc[s] = "loop"
    /\ todo[s] # {}
    /\ \/ Pool!Exhausted /\ UNCHANGED faults
       \/ free = << >> /\ ~Pool!Exhausted /\ Fault
    /\ Fail(s, 500)
    /\ UNCHANGED <<dbVars, seq, poolVars>>

(* Variant that sends it again on the same connection.                     *)
SentOnDeadRetried(s) ==
    /\ pc[s] = "select"
    /\ held[s] \in dead
    /\ UNCHANGED vars

(* The statement is sent on a connection the server has already dropped;   *)
(* the code depends on the wording of the exception.                       *)
SentOnDead(s) ==
    /\ pc[s] = "select"
    /\ held[s] \in dead
    /\ \E code \in {400, 503} : Fail(s, code)
    /\ Pool!Abandon(s)
    /\ UNCHANGED <<faults, dbVars, seq>>

(* The server goes away before the commit or, when pc is "reply", after it *)
(* and before the answer: the session cannot tell which.  Its code depends *)
(* on the wording of the exception here too.                               *)
ConnectionLost(s) ==
    /\ pc[s] \in InTx \cup {"reply"}
    /\ held[s] \notin dead
    /\ Fault
    /\ \E code \in {400, 503} : Fail(s, code)
    /\ Pool!AbandonBroken(s)
    /\ UNCHANGED <<dbVars, seq>>

(* A unique key is violated: ExecutionException, transaction rolled back.  *)
Violation(s) == /\ Fail(s, 400)
                /\ Pool!Abandon(s)
                /\ UNCHANGED <<faults, dbVars, seq>>

-----------------------------------------------------------------------------
(* mt_append_event, statement by statement.                                *)

At(s, label) == pc[s] = label /\ held[s] \notin dead

txStep == <<sessionVars, faults, dbVars, poolVars>>

(* select version into event_version: the last committed version.          *)
SelectVersion(s) ==
    LET committed == mt_streams[tx[s].stream] IN
    /\ At(s, "select")
    /\ IF committed = NoRow
         THEN /\ pc' = [pc EXCEPT ![s] = "newstream"]
              /\ UNCHANGED tx
         ELSE /\ pc' = [pc EXCEPT ![s] = "nextval"]
              /\ tx' = [tx EXCEPT ![s].version = committed]
    /\ UNCHANGED <<txStep, seq>>

(* Variant: any other transaction on the stream is waited for.             *)
StreamLockedByAny(s, st) == \E t \in Sessions \ {s} : pc[t] \in InTx /\ tx[t].stream = st

(* Another open transaction has inserted the mt_streams row of st.         *)
StreamLocked(s, st) == \E t \in Sessions \ {s} : /\ pc[t] \in InTx
                                                 /\ tx[t].stream = st
                                                 /\ tx[t].fresh

(* insert into mt_streams ... version 0                                    *)
InsertStream(s) ==
    LET st == tx[s].stream IN
    /\ At(s, "newstream")
    /\ ~StreamLocked(s, st)
    /\ \/ /\ mt_streams[st] = NoRow
          /\ pc' = [pc EXCEPT ![s] = "nextval"]
          /\ tx' = [tx EXCEPT ![s].fresh = TRUE]
          /\ UNCHANGED <<txStep, seq>>
       \/ /\ mt_streams[st] # NoRow
          /\ Violation(s)

(* Variant with nextval hoisted out of the loop over the events.           *)
NextValOnce(s) ==
    /\ At(s, "nextval")
    /\ seq < MaxSeq
    /\ seq' = IF tx[s].rows = << >> THEN seq + 1 ELSE seq
    /\ tx' = [tx EXCEPT ![s].seq = IF tx[s].rows = << >> THEN seq + 1 ELSE @]
    /\ pc' = [pc EXCEPT ![s] = "insert"]
    /\ UNCHANGED txStep

(* seq := nextval('mt_events_sequence'): never rolled back.                *)
NextVal(s) ==
    /\ At(s, "nextval")
    /\ seq < MaxSeq
    /\ seq' = seq + 1
    /\ tx' = [tx EXCEPT ![s].seq = seq + 1]
    /\ pc' = [pc EXCEPT ![s] = "insert"]
    /\ UNCHANGED txStep

(* The pending events of the transaction's stream after position `after'.  *)
Later(s, after, i) == /\ i \in DOMAIN pending[s]
                      /\ i > after
                      /\ pending[s][i].stream = tx[s].stream

(* Variant that takes any of them.                                         *)
IsSomeEvent(s, after, i) == Later(s, after, i)

(* i is the first of them: mt_append_event follows the order of its arrays.*)
IsNextEvent(s, after, i) ==
    Later(s, after, i) /\ \A j \in DOMAIN pending[s] : Later(s, after, j) => i <= j

(* Variant of a table without UNIQUE(stream_id, version).                  *)
NeverCommitted(st, v) == FALSE

Committed(st, v) == \E r \in mt_events : r.ev.stream = st /\ r.version = v

RowLocked(s, st, v) ==
    \E t \in Sessions \ {s} : /\ pc[t] \in InTx
                              /\ \E k \in DOMAIN tx[t].rows :
                                    /\ tx[t].rows[k].ev.stream = st
                                    /\ tx[t].rows[k].version = v

(* insert into mt_events, under UNIQUE(stream_id, version).                *)
InsertEvent(s) ==
    LET st == tx[s].stream
        v  == tx[s].version + 1
    IN
    /\ At(s, "insert")
    /\ ~RowLocked(s, st, v)
    /\ \/ /\ ~Committed(st, v)
          /\ \E i \in DOMAIN pending[s] :
                /\ IsNextEvent(s, tx[s].at, i)
                /\ tx' = [tx EXCEPT ![s].version = v, ![s].at = i,
                            ![s].rows = Append(@, [seq |-> tx[s].seq, version |-> v,
                                                   ev |-> pending[s][i]])]
                /\ pc' = [pc EXCEPT ![s] =
                            IF \E j \in DOMAIN pending[s] : Later(s, i, j)
                              THEN "nextval" ELSE "update"]
          /\ UNCHANGED <<txStep, seq>>
       \/ /\ Committed(st, v)
          /\ Violation(s)

(* update mt_streams set version; the statement commits on its own.        *)
Commit(s) ==
    /\ At(s, "update")
    /\ mt_streams' = [mt_streams EXCEPT ![tx[s].stream] = tx[s].version]
    /\ mt_events' = mt_events \cup {tx[s].rows[k] : k \in DOMAIN tx[s].rows}
    /\ pc' = [pc EXCEPT ![s] = "reply"]
    /\ UNCHANGED <<sessionVars, faults, tx, seq, poolVars>>

(* The server drops an idle connection: a restart or an idle timeout.      *)
BreakIdle == /\ Fault
             /\ Pool!BreakIdle
             /\ UNCHANGED <<sessionVars, pc, tx, dbVars, seq>>

-----------------------------------------------------------------------------
Server(s) == \/ SelectVersion(s)
             \/ InsertStream(s)
             \/ NextVal(s)
             \/ InsertEvent(s)
             \/ Commit(s)

(* What Save() and the server do on their own, once Save() is called.      *)
Progress(s) == \/ \E st \in Streams : Send(s, st)
               \/ Receive(s)
               \/ Finish(s)
               \/ Pool!Exhausted /\ Unavailable(s)
               \/ SentOnDead(s)
               \/ Server(s)

Next == \/ \E s \in Sessions :
              \/ \E st \in Streams : AppendEvent(s, st)
              \/ Save(s)
              \/ Progress(s)
              \/ ~Pool!Exhausted /\ Unavailable(s)
              \/ ConnectionLost(s)
        \/ BreakIdle

Spec == Init /\ [][Next]_vars

(* Save() is straight-line code on the caller's thread, and the server     *)
(* executes what it is sent: neither stops halfway.                        *)
FairSpec == Spec /\ \A s \in Sessions : WF_vars(Progress(s))

(* A caller that calls Save() again until it returns 200.                  *)
RetrySpec == FairSpec /\ \A s \in Sessions : WF_vars(Save(s))
-----------------------------------------------------------------------------
(* Properties.                                                             *)

TypeOK ==
    /\ pending \in [Sessions -> Seq(Event)]
    /\ appended \in [Sessions -> Nat]
    /\ pc \in [Sessions -> PCs]
    /\ todo \in [Sessions -> SUBSET Streams]
    /\ tx \in [Sessions -> Tx]
    /\ ret \in [Sessions -> Codes]
    /\ fails \in [Sessions -> Nat]
    /\ faults \in Nat
    /\ mt_streams \in [Streams -> Nat \cup {NoRow}]
    /\ mt_events \in SUBSET Row
    /\ seq \in Nat
    /\ Pool!PoolTypeOK

(* The streams table and the events table agree: the committed versions of *)
(* a stream are 1, 2, ... up to mt_streams.version, each exactly once, no  *)
(* matter how many sessions append to the stream at the same time with the *)
(* version they have read.                                                 *)
VersionsContiguous ==
    /\ \A r \in mt_events : r.version \in 1..mt_streams[r.ev.stream]
    /\ \A st \in Streams : \A v \in 1..mt_streams[st] :
          \E r \in mt_events : r.ev.stream = st /\ r.version = v
    /\ \A r1, r2 \in mt_events :
          r1.ev.stream = r2.ev.stream /\ r1.version = r2.version => r1 = r2

(* Inside a stream the sequence numbers, drawn outside any transaction's   *)
(* control, order the events as the versions do: a reader that follows     *)
(* seq_id reads the stream in version order.                               *)
SeqFollowsVersion ==
    \A r1, r2 \in mt_events :
       r1.ev.stream = r2.ev.stream /\ r1.version < r2.version => r1.seq < r2.seq

Stored(e) == \E r \in mt_events : r.ev = e

(* No event is lost between Append and the database: an event the user     *)
(* appended is still pending or is stored, across partial Saves and        *)
(* failures at any point.                                                  *)
NothingLost ==
    \A s \in Sessions : \A n \in 1..appended[s] :
       \/ \E i \in DOMAIN pending[s] : pending[s][i].no = n
       \/ \E r \in mt_events : r.ev.by = s /\ r.ev.no = n

(* A retried Save() stores again what an earlier, failed one had already   *)
(* committed, so events are duplicated; but never more often than Saves    *)
(* have failed, and not at all when none has.                              *)
BoundedCopies ==
    \A r \in mt_events :
       Cardinality({q \in mt_events : q.ev = r.ev}) <= 1 + fails[r.ev.by]

(* Every way out of Save(), the early returns that forget the connection   *)
(* included, leaves the pool as good as before: a session has a connection *)
(* only while the server works for it, and Save() is refused one only when *)
(* all of them are at work for other sessions.                             *)
InCall == {s \in Sessions : pc[s] \in InTx \cup {"reply"}}
ConnectionsServeCalls ==
    /\ \A s \in Sessions : held[s] # NoConn <=> s \in InCall
    /\ Pool!Exhausted => Cardinality(InCall) >= Cardinality(Conns)

(* The version the streams table records.                                  *)
Current(st) == IF mt_streams[st] = NoRow THEN 0 ELSE mt_streams[st]

(* The committed rows of a stream, in version order, are the abstract log. *)
LogOf(st) == [v \in 1..Current(st) |->
                (CHOOSE r \in mt_events : r.ev.stream = st /\ r.version = v).ev]

Log == INSTANCE EventLog WITH
         outstanding <- pending,
         log <- [st \in Streams |-> LogOf(st)],
         Events <- [by : Sessions, no : 1..MaxAppends, stream : Streams]

(* Every step of the event store is a step of the abstract log, or changes *)
(* nothing the log shows: Saves of several sessions interleave statement   *)
(* by statement and still append whole batches.                            *)
ImplementsEventLog == Log!Spec

(* What the code returned by Save() tells its caller: after 200 everything *)
(* that was pending is stored and the session starts afresh, after any     *)
(* other code everything is still pending for the next Save().             *)
ReturnCodeTruthful ==
    [][\A s \in Sessions : pc[s] # "idle" /\ pc'[s] = "idle" =>
          IF ret'[s] = 200
            THEN /\ \A i \in DOMAIN pending[s] : Stored(pending[s][i])
                 /\ pending'[s] = << >>
            ELSE pending'[s] = pending[s]]_vars

(* Save() always returns: a transaction that waits for another one's key   *)
(* waits for something that ends.                                          *)
SaveReturns == \A s \in Sessions : pc[s] # "idle" ~> pc[s] = "idle"

(* With a caller that retries, every event ends up in the database.        *)
EventuallyStored ==
    \A s \in Sessions : \A n \in 1..MaxAppends :
       n <= appended[s] ~> \E r \in mt_events : r.ev.by = s /\ r.ev.no = n
-----------------------------------------------------------------------------
(* The inductive invariant behind VersionsContiguous, SeqFollowsVersion    *)
(* and NothingLost: what the open transactions know about the tables.      *)

(* The version a transaction started from.                                 *)
Base(s) == tx[s].version - Len(tx[s].rows)

(* An open transaction continues the version it read; once it has inserted *)
(* a row, that version is still the committed one.                         *)
TxVersions(s) ==
    /\ Base(s) \in 0..Current(tx[s].stream)
    /\ tx[s].rows # << >> => Base(s) = Current(tx[s].stream)
    /\ \A k \in DOMAIN tx[s].rows : /\ tx[s].rows[k].ev.stream = tx[s].stream
                                    /\ tx[s].rows[k].version = Base(s) + k
    /\ pc[s] \in {"select", "newstream"} => tx[s].rows = << >> /\ tx[s].version = 0
    /\ pc[s] = "update" => tx[s].rows # << >>

(* Its sequence values rise, above those of the versions it started from.  *)
TxSeqs(s) ==
    /\ tx[s].seq <= seq
    /\ \A k \in DOMAIN tx[s].rows :
          /\ tx[s].rows[k].seq <= tx[s].seq
          /\ pc[s] = "insert" => tx[s].rows[k].seq < tx[s].seq
          /\ \A l \in DOMAIN tx[s].rows : k < l => tx[s].rows[k].seq < tx[s].rows[l].seq
    /\ \A r \in mt_events :
          r.ev.stream = tx[s].stream /\ r.version <= Base(s) =>
             /\ pc[s] = "insert" => r.seq < tx[s].seq
             /\ \A k \in DOMAIN tx[s].rows : r.seq < tx[s].rows[k].seq

(* The events of its stream up to the position reached are in its rows.    *)
TxEvents(s) ==
    /\ \A i \in DOMAIN pending[s] :
          pending[s][i].stream = tx[s].stream /\ i <= tx[s].at =>
             \E k \in DOMAIN tx[s].rows : tx[s].rows[k].ev = pending[s][i]
    /\ pc[s] = "update" => \A i \in DOMAIN pending[s] :
          pending[s][i].stream = tx[s].stream => i <= tx[s].at

TxInv == \A s \in Sessions : pc[s] \in InTx => TxVersions(s) /\ TxSeqs(s) /\ TxEvents(s)

(* At most one open transaction has inserted rows into a stream.           *)
OneWriter == \A s, t \in Sessions :
                /\ pc[s] \in InTx /\ tx[s].rows # << >>
                /\ pc[t] \in InTx /\ tx[t].rows # << >>
                /\ tx[s].stream = tx[t].stream
                => s = t

SeqsDrawn == \A r \in mt_events : r.seq <= seq

(* What Save() has finished with is stored.                                *)
SaveInv == \A s \in Sessions : \A i \in DOMAIN pending[s] :
              /\ pending[s][i].by = s
              /\ pc[s] # "idle" /\ pending[s][i].stream \notin todo[s] => Stored(pending[s][i])
              /\ pc[s] = "reply" /\ pending[s][i].stream = tx[s].stream => Stored(pending[s][i])

IInv == /\ VersionsContiguous
        /\ SeqFollowsVersion
        /\ NothingLost
        /\ TxInv
        /\ OneWriter
        /\ SeqsDrawn
        /\ SaveInv
-----------------------------------------------------------------------------
(* What ImplementsEventLog and BoundedCopies rest on besides IInv.         *)

(* A session's events are numbered as it appended them, and its next one   *)
(* gets a number nobody has seen.                                          *)
Numbered ==
    /\ \A s \in Sessions : \A i \in DOMAIN pending[s] :
          /\ pending[s][i].no \in 1..appended[s]
          /\ \A j \in DOMAIN pending[s] : i < j => pending[s][i].no < pending[s][j].no
    /\ \A r \in mt_events : r.ev.no <= appended[r.ev.by]

(* The rows of an open transaction are the pending events of its stream up *)
(* to the position reached, in their order and each of them once.          *)
TxBatch(s) ==
    \E order \in [DOMAIN tx[s].rows -> DOMAIN pending[s]] :
       /\ \A k \in DOMAIN order : tx[s].rows[k].ev = pending[s][order[k]]
       /\ \A k, l \in DOMAIN order : k < l => order[k] < order[l]
       /\ {order[k] : k \in DOMAIN order} =
             {i \in DOMAIN pending[s] : /\ i <= tx[s].at
                                        /\ pending[s][i].stream = tx[s].stream}

(* The stream being saved is one Save() has not finished with.             *)
TxTodo == \A s \in InCall : tx[s].stream \in todo[s]

Copies(e) == {q \in mt_events : q.ev = e}

(* The Save() under way has committed its transaction for st.              *)
Done(s, st) == /\ pc[s] # "idle"
               /\ \/ st \notin todo[s]
                  \/ pc[s] = "reply" /\ tx[s].stream = st

(* Each failed Save() has stored a pending event once at most, and so has  *)
(* the one under way.                                                      *)
CopiesInv ==
    /\ IsFiniteSet(mt_events)
    /\ \A s \in Sessions : \A i \in DOMAIN pending[s] :
          /\ Cardinality(Copies(pending[s][i])) <= 1 + fails[s]
          /\ ~Done(s, pending[s][i].stream) => Cardinality(Copies(pending[s][i])) <= fails[s]
    /\ BoundedCopies

BatchInv == /\ Numbered
            /\ \A s \in Sessions : pc[s] \in InTx => TxBatch(s)
            /\ TxTodo
            /\ CopiesInv
=============================================================================
