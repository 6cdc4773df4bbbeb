------------------------------ MODULE PgClient ------------------------------
(***************************************************************************)
(* store::storage::pgsql::Client and its LargeObjectHandler: threads that  *)
(* share one client, its connection pool and one database.  A call that    *)
(* writes is a script of statements given one by one to save(sql, errType),*)
(* which borrows a connection, executes, and hands the connection back     *)
(* whatever happened to it.  Large objects travel over a connection of     *)
(* their own; the pool only tells where the database is.                   *)
(*                                                                         *)
(* A document is its key (id, type), a stream its version, a large object  *)
(* the number of buffers it holds, and the string a call returns the set   *)
(* of the statements it says have succeeded.                               *)
(***************************************************************************)
EXTENDS ConnectionPool, SequencesExt

CONSTANTS
    Docs,       \* keys of the document table
    Streams,    \* ids of mt_streams
    MaxIds,     \* bound: entries of the map createStreamId goes through
    Buffers,    \* buffers of buf_size bytes in a large object
    MaxCalls,   \* bound: calls, retries not counted
    MaxFaults   \* bound: connections lost, and appends by an event store

ASSUME ClientAssumption == /\ Buffers \in Nat \ {0} /\ MaxIds \in Nat
                           /\ MaxCalls \in Nat /\ MaxFaults \in Nat

VARIABLES
    pc,         \* where a client is in its call
    script,     \* statements its call still has to give to save
    tables,     \* what createStore has created
    docs,       \* rows of the document table
    versions,   \* version column of mt_streams, NoRow if absent
    upload,     \* buffers written in the client's open transaction
    objects,    \* committed large objects: how many buffers they have
    retval,     \* the statements a client's call says have succeeded
    errType,    \* the ErrorType a client hands to its calls of save(sql, errType)
    given,      \* history: documents it has given to those calls
    leaks,      \* history: Saves of an event store that have failed
    calls, faults

dbVars == <<tables, docs, versions>>
loVars == <<upload, objects>>
answers == <<retval, errType, given>>
vars == <<poolVars, pc, script, dbVars, loVars, answers, leaks, calls, faults>>

NoRow == -1
Failed == -1                     \* an aborted transaction
None == -1                       \* a statement about no row

ClientInit == /\ Init
              /\ pc = [cl \in Clients |-> "idle"]
              /\ script = [cl \in Clients |-> << >>]
              /\ tables = {} /\ docs = {}
              /\ versions = [st \in Streams |-> NoRow]
              /\ upload = [cl \in Clients |-> 0] /\ objects = {}
              /\ retval = [cl \in Clients |-> {}]
              /\ errType = [cl \in Clients |-> "unset"]
              /\ given = [cl \in Clients |-> {}]
              /\ leaks = 0 /\ calls = 0 /\ faults = 0

-----------------------------------------------------------------------------
(* What the server does with a statement.                                  *)

Statement(op, on) == [op |-> op, on |-> on]

(* Variant that sets the version when the stream is there already.         *)
NewVersionReset(st) == 0

(* on conflict (id) do nothing.                                            *)
NewVersion(st) == IF versions[st] = NoRow THEN 0 ELSE versions[st]

Puts(s) == s.op \in {"upsert", "insert", "sql"}

(* The table's primary key is (id, type).                                  *)
Refused(s) == \/ (Puts(s) \/ s.op \in {"read", "indexes"}) /\ "table" \notin tables
              \/ s.op = "insert" /\ s.on \in docs

Apply(s) ==
    /\ ~Refused(s)
    /\ tables' = IF s.op \in {"table", "indexes"} THEN tables \cup {s.op} ELSE tables
    /\ docs' = IF Puts(s) THEN docs \cup {s.on} ELSE docs
    /\ versions' = IF s.op = "stream" THEN [versions EXCEPT ![s.on] = NewVersion(s.on)]
                                      ELSE versions

-----------------------------------------------------------------------------
(* The calls.                                                              *)

createStore == <<Statement("table", None), Statement("indexes", None)>>
createStreamId(ids) == [i \in DOMAIN ids |-> Statement("stream", ids[i])]
save(d) == <<Statement("upsert", d)>>
insertOne(d) == <<Statement("insert", d)>>
list == <<Statement("read", None)>>           \* search, collect, one, count, select

(* An application's own statement, given to save(sql, errType).            *)
own(d) == <<Statement("sql", d)>>

(* The map goes from types to ids, in the order of the types.  Given an    *)
(* empty one, createStreamId returns at once.                              *)
Maps == UNION {[1..n -> Streams] : n \in 1..MaxIds}

Scripts == {createStore, list} \cup {createStreamId(ids) : ids \in Maps}
                               \cup UNION {{save(d), insertOne(d), own(d)} : d \in Docs}

(* A new call; what the last one returned is forgotten.                    *)
Call(cl, to) == /\ pc[cl] = "idle" /\ script[cl] = << >>
                /\ calls < MaxCalls
                /\ calls' = calls + 1
                /\ pc' = [pc EXCEPT ![cl] = to]
                /\ retval' = [retval EXCEPT ![cl] = {}]

Begin(cl) == /\ Call(cl, "save")
             /\ \E s \in Scripts : script' = [script EXCEPT ![cl] = s]
             /\ UNCHANGED <<poolVars, dbVars, loVars, errType, given, leaks, faults>>

(* The application repeats the statement that did not get through.         *)
Retry(cl) == /\ pc[cl] = "idle" /\ script[cl] # << >>
             /\ pc' = [pc EXCEPT ![cl] = "save"]
             /\ UNCHANGED <<poolVars, script, dbVars, loVars, answers, leaks, calls, faults>>

(* The call goes on with its next statement, or returns.                   *)
Proceed(cl) == /\ script' = [script EXCEPT ![cl] = Tail(@)]
               /\ pc' = [pc EXCEPT ![cl] = IF Len(script[cl]) = 1 THEN "idle" ELSE "save"]

(* The application repeats what failed for another reason than itself, a   *)
(* connection error or an unknown one, and gives up an execution error.    *)
(* It tells by the ErrorType, or the message where none is passed on; from *)
(* a read it learns nothing.  The calls of several statements go on with   *)
(* the next one, whatever became of the last.                              *)
Continue(cl, outcome) ==
    IF Puts(Head(script[cl])) /\ outcome \in {"connection", "unknown"}
      THEN pc' = [pc EXCEPT ![cl] = "idle"] /\ UNCHANGED script
      ELSE Proceed(cl)

(* Variant in which retval keeps its "Succeeded" after an execution error. *)
SaidSwallowed(s, outcome) ==
    IF outcome \in {"Succeeded", "execution"} /\ s.op # "read" THEN {s} ELSE {}

(* A read returns rows, not how it went.                                   *)
Said(s, outcome) == IF outcome = "Succeeded" /\ s.op # "read" THEN {s} ELSE {}

(* Variant without the ErrorType of the last handler.                      *)
ClassifiedNotUnknown(s, outcome, old) ==
    IF s.op = "sql" /\ outcome \in {"connection", "execution"} THEN outcome ELSE old

(* Every handler sets the ErrorType; a success leaves it as it was.        *)
Classified(s, outcome, old) ==
    IF s.op = "sql" /\ outcome # "Succeeded" THEN outcome ELSE old

(* createStore strings the results of its statements together, while       *)
(* createStreamId returns the last one.                                    *)
Answer(cl, outcome) ==
    LET s == Head(script[cl])
    IN  /\ retval' = [retval EXCEPT ![cl] = IF s.op = "stream" THEN Said(s, outcome)
                                            ELSE @ \cup Said(s, outcome)]
        /\ errType' = [errType EXCEPT ![cl] = Classified(s, outcome, @)]
        /\ given' = [given EXCEPT ![cl] = IF s.op = "sql" THEN @ \cup {s.on} ELSE @]
        /\ Continue(cl, outcome)

Fault == faults < MaxFaults /\ faults' = faults + 1

(* borrow; a borrow that throws is an unknown error.                       *)
BorrowConnection(cl) ==
    /\ pc[cl] = "save"
    /\ \/ /\ Borrow(cl)
          /\ pc' = [pc EXCEPT ![cl] = "execute"]
          /\ UNCHANGED <<script, answers>>
       \/ /\ Exhausted
          /\ Answer(cl, "unknown")
          /\ UNCHANGED poolVars
    /\ UNCHANGED <<dbVars, loVars, leaks, calls, faults>>

Execute(cl) ==
    /\ pc[cl] = "execute" /\ held[cl] \notin dead
    /\ \/ Apply(Head(script[cl])) /\ Answer(cl, "Succeeded")
       \/ /\ Refused(Head(script[cl])) /\ UNCHANGED dbVars
          /\ Answer(cl, "execution")
    /\ Unborrow(cl)
    /\ UNCHANGED <<loVars, leaks, calls, faults>>

(* Variant whose handlers return early, as those of the event store do.    *)
ExecuteOnDeadLeaving(cl) ==
    /\ pc[cl] = "execute" /\ held[cl] \in dead
    /\ \E outcome \in {"connection", "execution"} : Answer(cl, outcome)
    /\ Abandon(cl)
    /\ UNCHANGED <<dbVars, loVars, leaks, calls, faults>>

(* A ConnectionException, or an ExecutionException that says "server       *)
(* closed the connection unexpectedly", is a connection error; in other    *)
(* words it is an execution error.  The connection goes back to the pool   *)
(* with the others.                                                        *)
ExecuteOnDead(cl) ==
    /\ pc[cl] = "execute" /\ held[cl] \in dead
    /\ \E outcome \in {"connection", "execution"} : Answer(cl, outcome)
    /\ Unborrow(cl)
    /\ UNCHANGED <<dbVars, loVars, leaks, calls, faults>>

(* The server drops a connection, idle or at work; a statement it has      *)
(* already executed stays executed.                                        *)
Break == /\ Fault
         /\ \E c \in Conns \ dead : dead' = dead \cup {c}
         /\ \/ UNCHANGED dbVars
            \/ \E cl \in Clients : /\ pc[cl] = "execute" /\ held[cl] \in dead' \ dead
                                   /\ Apply(Head(script[cl]))
         /\ UNCHANGED <<free, borrowed, held, pc, script, loVars, answers, leaks, calls>>

(* An event store sharing the pool.                                        *)
EventStoreSave(cl) ==
    /\ Call(cl, "append")
    /\ Borrow(cl)
    /\ UNCHANGED <<script, dbVars, loVars, errType, given, leaks, faults>>

(* mt_append_event of one event; it creates the stream if need be.         *)
Appended == \E st \in Streams : versions' = [versions EXCEPT ![st] = NewVersion(st) + 1]

(* A Save that fails leaves its connection behind; one whose connection    *)
(* broke may have been committed all the same.                             *)
EventStoreReturns(cl) ==
    /\ pc[cl] = "append"
    /\ \/ held[cl] \notin dead /\ Appended /\ Unborrow(cl) /\ UNCHANGED leaks
       \/ Abandon(cl) /\ leaks' = leaks + 1 /\ UNCHANGED versions
       \/ /\ AbandonBroken(cl) /\ leaks' = leaks + 1
          /\ Appended \/ UNCHANGED versions
    /\ pc' = [pc EXCEPT ![cl] = "idle"]
    /\ UNCHANGED <<script, tables, docs, loVars, answers, calls, faults>>

-----------------------------------------------------------------------------
(* Large objects.                                                          *)

(* Every operation begins with getConnInfo, which borrows a connection to  *)
(* ask it where the database is.  When there is none it returns an empty   *)
(* string.                                                                 *)
getConnInfo(cl) ==
    /\ Call(cl, "conninfo")
    /\ \/ Borrow(cl)
       \/ Exhausted /\ UNCHANGED poolVars
    /\ UNCHANGED <<script, dbVars, loVars, errType, given, leaks, faults>>

(* The operation goes on over a connection of its own.  An empty string    *)
(* connects to wherever the library's defaults point, or to nothing: this  *)
(* database is not touched then.                                           *)
Connect(cl) == /\ pc[cl] = "conninfo"
               /\ IF held[cl] = NoConn THEN UNCHANGED poolVars ELSE Unborrow(cl)

(* lo_import in a transaction; one that fails aborts it.                   *)
uploadFile(cl) ==
    /\ Connect(cl)
    /\ \/ held[cl] # NoConn /\ objects' = objects \cup {Buffers} /\ UNCHANGED faults
       \/ held[cl] = NoConn /\ UNCHANGED <<objects, faults>>
       \/ Fault /\ UNCHANGED objects
    /\ pc' = [pc EXCEPT ![cl] = "idle"]
    /\ UNCHANGED <<script, dbVars, upload, answers, leaks, calls>>

(* Whatever it finds and reads, it changes nothing.                        *)
download(cl) ==
    /\ Connect(cl)
    /\ pc' = [pc EXCEPT ![cl] = "idle"]
    /\ UNCHANGED <<script, dbVars, loVars, answers, leaks, calls, faults>>

(* upload: BEGIN, lo_creat, lo_open.                                       *)
Open(cl) ==
    /\ Connect(cl)
    /\ upload' = [upload EXCEPT ![cl] = IF held[cl] = NoConn THEN Failed ELSE 0]
    /\ pc' = [pc EXCEPT ![cl] = "upload"]
    /\ UNCHANGED <<script, dbVars, objects, answers, leaks, calls, faults>>

(* Variant that tests the length after writing.                            *)
MoreTestedLate(n) == n \in 0..Buffers

(* while (len > len_read)                                                  *)
More(n) == n \in 0..(Buffers - 1)

(* lo_write; a buffer that cannot be written ends the loop.  The server    *)
(* aborts the transaction of a call that failed.                           *)
Write(cl) ==
    /\ pc[cl] = "upload" /\ More(upload[cl])
    /\ \/ upload' = [upload EXCEPT ![cl] = @ + 1] /\ UNCHANGED faults
       \/ upload' = [upload EXCEPT ![cl] = Failed] /\ Fault
    /\ UNCHANGED <<poolVars, pc, script, dbVars, objects, answers, leaks, calls>>

(* After the loop, however it ended: lo_close and COMMIT, which the server *)
(* takes for a rollback when the transaction is aborted.                   *)
Commit(cl) ==
    /\ pc[cl] = "upload" /\ ~More(upload[cl])
    /\ objects' = IF upload[cl] = Failed THEN objects ELSE objects \cup {upload[cl]}
    /\ upload' = [upload EXCEPT ![cl] = 0]
    /\ pc' = [pc EXCEPT ![cl] = "idle"]
    /\ UNCHANGED <<poolVars, script, dbVars, answers, leaks, calls, faults>>

(* lo_unlink, of an object that may not be there.                          *)
deleteOid(cl) ==
    /\ Connect(cl)
    /\ \/ UNCHANGED objects
       \/ held[cl] # NoConn /\ \E n \in objects : objects' = objects \ {n}
    /\ pc' = [pc EXCEPT ![cl] = "idle"]
    /\ UNCHANGED <<script, dbVars, upload, answers, leaks, calls, faults>>

-----------------------------------------------------------------------------
Step(cl) == \/ Retry(cl) \/ BorrowConnection(cl) \/ Execute(cl) \/ ExecuteOnDead(cl)
            \/ EventStoreReturns(cl)
            \/ Open(cl) \/ Write(cl) \/ Commit(cl)
            \/ uploadFile(cl) \/ download(cl) \/ deleteOid(cl)

ClientNext == \/ \E cl \in Clients : Begin(cl) \/ EventStoreSave(cl) \/ getConnInfo(cl)
                                     \/ Step(cl)
              \/ Break

(* A call goes on once begun, and the application repeats what it should.  *)
ClientSpec == ClientInit /\ [][ClientNext]_vars /\ \A cl \in Clients : WF_vars(Step(cl))

-----------------------------------------------------------------------------
(* Properties.                                                             *)

ErrorTypes == {"unset", "connection", "execution", "unknown"}

TypeOK ==
    /\ PoolTypeOK
    /\ pc \in [Clients -> {"idle", "save", "execute", "append", "conninfo", "upload"}]
    /\ \A cl \in Clients : \E s \in Scripts : IsSuffix(script[cl], s)
    /\ tables \subseteq {"table", "indexes"} /\ docs \subseteq Docs
    /\ versions \in [Streams -> NoRow..MaxCalls]
    /\ upload \in [Clients -> Failed..Buffers] /\ objects \subseteq 0..Buffers
    /\ errType \in [Clients -> ErrorTypes] /\ given \in [Clients -> SUBSET Docs]
    /\ leaks \in 0..MaxCalls
    /\ calls \in 0..MaxCalls /\ faults \in 0..MaxFaults

(* The way out of every handler of save, of the reads and of getConnInfo   *)
(* returns the connection, the one that broke included: a client has one   *)
(* only while it talks over it, only a failed Save of an event store ever  *)
(* leaves one behind, and borrow throws only when all of them are at work. *)
AtWork == {cl \in Clients : \/ pc[cl] \in {"execute", "append"}
                            \/ pc[cl] = "conninfo" /\ held[cl] # NoConn}
ConnectionsServeCalls ==
    /\ \A cl \in Clients : held[cl] # NoConn <=> cl \in AtWork
    /\ Cardinality(Abandoned) <= leaks
    /\ Exhausted => Cardinality(AtWork) >= Cardinality(Conns)

InPlace(s) == CASE s.op \in {"table", "indexes"} -> s.op \in tables
                [] s.op = "stream" -> versions[s.on] # NoRow
                [] Puts(s) -> s.on \in docs

(* What the string a call returns says has succeeded is in the database,   *)
(* whichever of its statements failed and whatever other clients, lost     *)
(* connections and repetitions came between.  The string of createStreamId *)
(* says nothing of any stream but the last.                                *)
SucceededMeansDone == \A cl \in Clients : \A s \in retval[cl] : InPlace(s)

(* save() sets an ErrorType only when it fails and never resets it, so one *)
(* that is handed to several calls tells of all of them: as long as it is  *)
(* untouched, every document it went along with is stored.                 *)
NoErrorMeansDone == \A cl \in Clients : errType[cl] = "unset" => given[cl] \subseteq docs

(* createStreamId of a stream in use, before, between or after the appends *)
(* of event stores, does not take its version back: the next append would  *)
(* give out versions that the events of the stream have already.           *)
VersionsNeverFall == [][\A st \in Streams : versions'[st] >= versions[st]]_vars

(* A connection that broke goes back to the pool and is lent out again;    *)
(* still, every call gets through while the pool has a working connection  *)
(* to lend.  An abandoned one does not count: it is replaced only when the *)
(* pool is dry, and a broken connection that is idle keeps it from that.   *)
EventuallySaved ==
    \A cl \in Clients : script[cl] # << >> ~> \/ script[cl] = << >>
                                             \/ Conns \ dead \subseteq Abandoned
-----------------------------------------------------------------------------
(* The inductive invariant behind the safety properties.                   *)

(* Every client has the rest of a script to give, and one that is at work  *)
(* has a statement to work on.                                             *)
Scripted ==
    /\ DOMAIN script = Clients
    /\ \A cl \in Clients : \E s \in Scripts :
          script[cl] \in Seq(ToSet(s)) /\ IsSuffix(script[cl], s)
    /\ \A cl \in Clients : pc[cl] \in {"save", "execute"} => script[cl] # << >>

(* A version is as high as there were appends, and each of them, returned  *)
(* or under way, is a call of its own.                                     *)
Appending == {cl \in Clients : pc[cl] = "append"}
AppendsCounted ==
    /\ \A n \in {0} \cup {versions[st] : st \in Streams} : n + Cardinality(Appending) <= calls
    /\ leaks + Cardinality(Appending) <= calls

(* A statement of one of the scripts.                                      *)
Proper(s) == /\ s.op \in {"table", "indexes", "stream", "read"} \/ Puts(s)
             /\ s.op = "stream" => s.on \in Streams
             /\ Puts(s) => s.on \in Docs

(* What a call says has succeeded is one, and no read.                     *)
Answers == /\ DOMAIN retval = Clients
           /\ \A cl \in Clients : \A s \in retval[cl] : Proper(s) /\ s.op # "read"

IInv == /\ TypeOK /\ PoolConserved /\ Scripted /\ AppendsCounted
        /\ ConnectionsServeCalls /\ Answers /\ SucceededMeansDone /\ NoErrorMeansDone
=============================================================================
