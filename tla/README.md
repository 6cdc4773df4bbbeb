# Verification of Store-cpp

TLA+ models of the stateful parts of Store-cpp, the TLC configurations that
check them on small instances, and TLAPS proofs that hold for every instance.

## 1. Inventory

Store-cpp is a header-only C++17 library of storage clients (PostgreSQL, MongoDB,
Cassandra, SQL Server, Kafka, Redis, MySQL), an event store over two of them,
HTTP and WebSocket servers, and the helpers they share.  It has no process of its
own: a program that includes the headers runs them on its own threads.

| Part (`src/...`) | State | Operations | Interacts with | Hard behaviour | Correct when |
|---|---|---|---|---|---|
| **Event store session** `store.events`, `store.common/src/group_by.hpp` | `pending`, a vector of events | `Append`, `Reset`, virtual `Save`, `Search`, `LastExecution` | the storage-specific subclass | partial failure of `Save`, retry | no appended event is lost, order inside a stream is kept |
| **PostgreSQL event store** `store.storage.pgsql/src/pg_eventstore.hpp`, SQL function `mt_append_event` in `test/README.md` | tables `mt_streams`, `mt_events`, a sequence | `Save`, `Search`, `LastExecution` | pool, database, other sessions | concurrent appends to a stream, broken connections, commit without answer | versions contiguous, sequence order = version order |
| **Event subscriber** `event.hpp` (`getMaxEvent`), `Search`, `LastExecution` | subscription offset row | search past the offset, advance it | the event table | transactions committing out of sequence order, unordered limit | every event is seen |
| **Connection pool** `com::eztier` (external), created by `store.storage.connection-pools` | idle deque, borrowed set | `borrow`, `unborrow` | every SQL client | early returns, dead connections, exhaustion | no connection lost or shared |
| **Pool registration** `pgsql.hpp`, `mssql.hpp`, `mssql_dblib.hpp`, `ioc/simple_container.hpp` | key to pool map | check and register | IOC container | check-then-act race, first pool wins | one pool per key |
| **PostgreSQL client** `pg_client.hpp` | connection keys, versions | `save`, `insertOne`, `createStore`, `list`, `search`, `collect`, `count`, ... | pool | classification of errors | return code agrees with what happened |
| **Large objects** `pg_largeobject.hpp` | one connection, one transaction | `upload`, `download`, `deleteOid` | server | short write, exception between begin and commit | an object is whole or absent (up to the server: section 7) |
| **PostgreSQL notifier** `pg_notifier.hpp` | a listening connection | `listen`, callbacks | server | – | – |
| **MongoDB client and event store** `store.storage.mongo` | collections of counters, types, events, streams, snapshots | `getNextSequenceValue`, `getUid`, `upsert`, `SaveOne` | mongocxx pool | find-then-insert, multi-step writes | snapshot agrees with events |
| **Cassandra client, resource manager** `store.storage.cassandra` | time cursor, futures, global callbacks | poll, fan out, mark processed | driver threads | overlapping polls, late writes, overwritten callbacks | every modification is processed |
| **SQL Server clients and notifier** `store.storage.sqlserver` | a broker queue, a thread, a cancel flag | `start`, `stop`, the notification loop | broker | start/stop order, stop while waiting | every change is delivered, stop ends |
| **Kafka client** `kafka_base_client.hpp` | consumer offset | `produce`, `subscribe`, dispatcher | broker | commit after callback | at least once |
| **HTTP / WebSocket servers** `store.servers` | sessions, user list | routing, authentication, broadcast | web token, Redis | user list shared by two threads | messages go to their session's users only; strangers are turned away |
| **Redis client, web tokens** `redis_client.hpp`, `web_token.hpp` | keys with expiry | sign, look up, expire | Redis | expiry between check and use | only live tokens pass |
| **Logging, workers** `spdlogger.hpp`, `background_worker.hpp` | named loggers, thread list | get-or-create, join | – | join of the last thread only | – |
| MySQL client, Rx event generation, extensions, models, encoders, Kudu example | none | – | – | – | – |

`PROJECT.json` lists the same parts under `components`, and under `hazards` what
is hard to test in them, each at its line.

## 2. Plan

Every step is done; the parts left out are in section 7.

1. `ConnectionPool`, `PgEventStore`, `EventLog`: the append path and what it promises.
2. `EventSubscriber`: `LastExecution`, `Search` and `getMaxEvent` over a stream whose
   transactions are still open while it is read.
3. `MssqlNotifier`: calls, thread and broker queue; several notifiers of one table.
4. `PgClient`: documents, streams and large objects over a pool that is shared with an
   event store; composes `ConnectionPool`.
5. `MongoEventStore`: `SaveOne` by several savers, call by call.
6. `CaResourceManager`: polls, cursor, shared callbacks, the end of the process.
7. `SessionServers`: tokens, publishing, web socket users, the broadcast from Redis.
8. `SqlServerClients`: the unlocked container of pools, the constructors, the calls.

Every safety property and every action property the runs check is a theorem too.
Worth proving next: that the writers `EventSubscriber` assumes are what `PgEventStore`
lets a reader of one stream see, so that `NothingPassed` holds of the two together; and
what several notifiers of one table still guarantee, where `TriggerHasTarget` does not hold.

## 3. Modules

| Module | Models | Used by |
|---|---|---|
| `ConnectionPool` | the external pool: borrow (idle, or a replacement for an abandoned connection), unborrow, a client that returns early, connections the server drops | `PgEventStore`, `EventSubscriber` (as `Pool`), `PgClient` |
| `PgEventStore` | `EventStore::Append`, `Reset`, `PgEventStore::Save`, `mt_append_event`, several sessions, the pool, a failing server | `MCPgEventStore` |
| `EventLog` | what an event store promises: outstanding events and logs of whole batches | `PgEventStore` (as `Log`, with the refinement mapping) |
| `MCPgEventStore` | symmetry | the `pg_*` runs |
| `PgEventStoreProofs` | theorems about the event store | |
| `EventSubscriber` | `LastExecution`, exact `Search`, `getMaxEvent`, instances of one subscriber, the pool, a failing server; writers reduced to what a reader sees of them | `MCEventSubscriber` |
| `MCEventSubscriber` | symmetry | the `sub_*` runs |
| `EventSubscriberProofs` | theorems about the subscriber | |
| `MssqlNotifier` | `Notifier`: its calls, its thread, the trigger, service and queue in the database | runs `mssql`, `mssql_check` |
| `MssqlNotifierProofs` | theorems about the notifiers | |
| `PgClient` | `Client` and `LargeObjectHandler`: threads that share a client, an event store of the same pool, a failing server | run `pg_client` |
| `PgClientProofs` | theorems about the clients, and lemmas about the pool under any use of it | `PgEventStoreProofs` (as `PoolFacts`, for what it says of the pool) |
| `MongoEventStore` | `MongoEventStore::SaveOne`, `getUid`, `getNextSequenceValue`, `insertOne`, `upsertOne` | run `mongo` |
| `CaResourceManager` | the managers of one process over `CassandraBaseClient`, writers, the end of the process | run `cassandra` |
| `SessionServers` | `RS256SecureServer`, `RS256SecureRedisServer`, `RS256SecureRedisWsServer`, web tokens | run `servers` |
| `SqlServerClients` | `MsSqlBaseClient`, `MsSqlDbLibBaseClient`, `createPoolImpl`, `testPool`, `IOCContainer` | run `sql_clients` |
| `MongoEventStoreProofs` | theorems about the savers | |
| `CaResourceManagerProofs` | theorems about the resource managers | |
| `SessionServersProofs` | theorems about the servers | |
| `SqlServerClientsProofs` | theorems about the clients of SQL Server | |

An operator whose comment begins with "Variant" is a version of the code with a bug, kept
beside the operator it is a version of: with the variant in its place a property must fail.

### State and actions of PgEventStore

A *session* is a client object with its own `pending`; one thread uses it at a time.
`pc`, `todo` and `tx` are the local variables of a running `Save()` and of the SQL
function it calls; `mt_streams`, `mt_events` and `seq` are the committed tables and
the sequence; `free`, `borrowed`, `held` and `dead` are the pool's.

| Action | Code |
|---|---|
| `AppendEvent` | `EventStore::Append` (`eventstore.hpp` 14-18) |
| `Save` | entry of `Save()`: `groupBy` (`pg_eventstore.hpp` 28-30) |
| `Send` | statement built, `borrow`, `execute` (32-57) |
| `SelectVersion`, `InsertStream`, `NextVal`, `InsertEvent`, `Commit` | `mt_append_event`, one action per statement (`test/README.md` 164-196) |
| `Receive` | `unborrow`, next stream (79-81) |
| `Finish` | `Reset()`, 200 (83-87) |
| `Unavailable` | `borrow` throws: 500 (72-77) |
| `SentOnDead`, `ConnectionLost` | connection gone before the statement, or before its answer: 503 or 400 (59-71) |
| `Violation` | a unique key is violated: 400 (63-71) |
| `BreakIdle` | the server drops an idle connection |

`Save()` is split exactly where another session or the server can act in between.
Each statement of `mt_append_event` sees the committed tables (READ COMMITTED); rows
of an open transaction are invisible, but an insert that meets one of their unique
keys waits until that transaction ends (`StreamLocked`, `RowLocked`).  The error
actions return at once, without `unborrow` and without `Reset()`, as the code does:
`Fail` keeps `pending`, and the connection stays in `borrowed` with no owner.

Events are records *(session, number, stream)*; bodies, types, ids and wording are
left out.  Ids are fresh uuids on every `Save()`, so the unique key on them never
collides.  An event's stream is fixed by its type, as `rx.hpp` generates it.

### State and actions of EventSubscriber

An *instance* is a thread or process that polls under one subscriber name: it calls
`LastExecution` for the offset, `Search`es past it, keeps the latest event of every
entity (`getMaxEvent`), hands them over, and calls `LastExecution` again with the last
sequence number as `newSeqId`.  That loop is the application's and not in `src/`
(`Handle` is external); it is the use the three functions are made for.  `table`,
`drawn` and `seq` are what `PgEventStore` lets a reader see: `CommitEvent` needs a
number above the committed ones, which is `SeqFollowsVersion`.  `offset` is the
subscription's row, `arg`, `seqId` and `found` are the instance's local values,
`handled` is a history of what the application was given.

| Action | Code (`pg_eventstore.hpp`) |
|---|---|
| `CallLastExecution` | entry, `borrow`; when it throws the call returns 0 (89-95) |
| `SelectOffset` | the select, and the branch on its result (97-119) |
| `InsertDefault`, `NoSuchStream` | the default row -1, and its foreign key failing while the stream does not exist (120-126) |
| `UpdateOffset` | the update under `newSeqId > -1` (128-135) |
| `StatementFails` | any statement on a dropped connection: caught, `seqId` as it was (137-143) |
| `Return` | `unborrow` on every path, `seqId` (145-148) |
| `StartSearch`, `Search`, `SearchFails` | borrow, the query, its failure; `unborrow` on every path (150-214) |

A statement commits on its own, so other instances and writers act between any two.

### State and actions of MssqlNotifier

All notifiers of one table have the same identity and share five database objects
(`objects`: queue, service, trigger and the two procedures) and the messages in the
queue.  A call of `start`, `uninstall` or `cleanDatabase` is a `script`, a sequence of
batches of statements; a procedure's body is put in place of the statement that calls it.
Each statement commits alone, so what other notifiers do, and what a failing connection
leaves behind, falls between any two of them.  A message is the number of the change it
reports; `sent`, `received` and `lost` are histories.

| Action | Code (`mssql_notifier.hpp`) |
|---|---|
| `Start`, `notificationLoop` | `checkServiceExists`, `installNotification`; the thread is launched (52-58, 173-212) |
| `uninstall`, `cleanDatabase`, `Return` | one batch each (70-86) |
| `ExecProcedure`, `CreateObject`, `DropObject`, `StatementRefused` | the statements of the scripts (237-473, 496-500) |
| `BatchFails` | `executeNonQuery` catches and returns; `start` does not look at what it returned (95-115, 174) |
| `Stop`, `Join` | the flag, then `join` (60-68) |
| `CheckCancel`, `Receive`, `Timeout`, `NoQueue`, `ReceiveFails`, `Callback` | the loop (183-206), one query with a timeout (475-486) |
| `Change` | the trigger: it sends if it finds the service (268-306) |

A statement the server refuses ends the statement or the batch, depending on the error
and on settings outside the repository: the model allows both.  The sleeps (500 ms
before the join, 100 ms between receives) order nothing and are left out.

### State and actions of PgClient

A *client* (in the sense of the pool) is a thread.  A call that writes is a `script` of
statements given one by one to `save(sql, errType)`, and returns strings: `retval` holds the
statements of which they say that they have succeeded.  `errType` is the one `ErrorType` a
thread hands to all its own calls of `save`, `given` a history of the documents that went
along.  `tables`, `docs` and `versions` are the database, `upload` the open transaction of a
large object, `objects` the committed ones, each reduced to the number of its buffers.

What an application does with an answer is its own affair and external: here it repeats what
failed with a connection error or an unknown one, and gives up an execution error
(`Continue`, `Retry`).  A statement over a dead connection is a connection error for the one
wording that `save` looks for and an execution error for any other (`ExecuteOnDead`), so the
same failure may be repeated or given up.

| Action | Code (`pg_client.hpp`, `pg_largeobject.hpp`) |
|---|---|
| `Begin`, `Scripts`, `Proceed`, `Answer` | `createStore`, `save`, `insertOne`, `createStreamId`, `list` and the other reads (128-435) |
| `BorrowConnection`, `Execute`, `ExecuteOnDead`, `Said`, `Classified` | `save(sql, errType)`: borrow, execute, the three handlers, unborrow (83-126) |
| `EventStoreSave`, `EventStoreReturns` | a `PgEventStore` of the same pool, reduced to what it does to the pool and to the versions; its append creates the stream if it is not there |
| `getConnInfo`, `Connect` | a pooled connection tells where the database is (168-190); an empty string connects to whatever the library's defaults are |
| `Open`, `Write`, `Commit` | `upload` (46-90); the other operations are `uploadFile`, `download`, `deleteOid` |
| `Break` | the server drops a connection, before or after what it executed |

### State and actions of MongoEventStore

`pc` and `local` are a saver's place and variables in `SaveOne`; `streams`, `counters` and
`events` are the collections.  One action for every call to the server, each of which may
fail with or without effect: `getUid` and `createUid` (`mongo_base_client.hpp` 176-204),
`NextSequence` and `NextVersion` (`getNextSequenceValue`, 153-174), `saveOneEvent`
(`insertOne`, 88-103), `saveOneEventStream` (`upsertOne`, 110-127), `Return`
(`mongo_client.hpp` 65-85).  `NoClient` is a pool without a free client, whose thrown
string no handler catches.  A uuid is the number of the streams before it.

### State and actions of CaResourceManager

A modification is its time uuid, a number drawn in order (`getUUID`); it becomes visible
later (`Arrive`), perhaps after a younger one (`late`).  `processed` is the log table by
purpose.  The two callbacks are variables of the process, which every manager sets; `inside`
says in whose callback a thread is, `row` what it carries from query to query.

| Action | Code (`ca_resource_manager.hpp`) |
|---|---|
| `SetModifiedCallback`, `SelectProcessed` | `fetchNextTasks` (103-174) |
| `rowToCaResourceProcessedTapFunc`, `Cursor`, `NextRow` | the answer to the first query, the second one (191-205, 368-446) |
| `rowToCaResourceModifiedTapFunc` | the handler is called, the batch built (221-332) |
| `insertSync`, `insertAsync` | `cassandra_base_client.hpp` 247-279 |
| `Crash` | `print_error` rethrows where there is nothing to rethrow (375-389), or the process is killed; it starts again |
| `Undefined` | a callback is called while another manager replaces it, or after the poll of the manager that set it has ended: it refers to the handler by reference (107-119), and `run()` passes a temporary (98) |

The outcomes of `Undefined` are those the build can produce: what is left of the old callback
is still good, or the new one is there (both are the steps of the poll, by whoever's callback
it is), or the process ends.  `mixed` records that a thread was exposed to it.

Waiting between polls orders nothing and is left out.

### State and actions of SessionServers

A token is its algorithm, its session and when it expires.  `createJwt` signs with the
private key (`rs256`).  `decryptJwt` also accepts a token signed as `hs256` with the public key
as the secret (`web_token.hpp` 125), in which whoever made it has put any session and any
time: those are the sessions in `Others`.  `decode` compares the expiry, in milliseconds, with
the seconds of the clock (`now \div Second`), so only `tokenExpired` ever refuses one.

`user_vec`, `state`, `sess` and `msg` are the web socket server's, shared by the event loop and
the Redis thread; `writing` has the users without a session to whom something is being
written; `chan`, `i` and `found` are the place of the Redis thread in `broadcast`.  A change
of the list or of a session during a broadcast is a data race: the message is then
`disturbed`, the step reads the new list, or the process ends (`Undefined`).  Sending also
uses a `bufferevent` that the event loop may be using, without a lock and with nothing
disturbed; of that race the model has the end of the process, not a frame that is mangled.

| Action or operator | Code (`src/store.servers/src`) |
|---|---|
| `createJwt`, `decryptJwt`, `isRS256Authenticated`, `from_json` | `web_token.hpp` in `store.common`, `session.hpp` |
| `ProcessRequest`, `RequestToken` | `rs256-secure-server.hpp` 55-141: a request for a secured route that publishes to the session of its token; all others leave no trace and are not steps |
| `listencb`, `handshake_cb_handler`, `frame_recv_cb`, `frame_write_cb`, `user_disconnect_cb` | the callbacks of `ws-server.hpp` and `rs256-secure-ws-server.hpp` |
| `Unauthorized` | the answer to the frame of a user without a session (`rs256-secure-ws-server.hpp` 56-60) |
| `publish`, `Announce`, `Take`, `Test`, `Send`, `Dropped` | `rs256-secure-redis-server.hpp`, `rs256-secure-redis-ws-server.hpp` 26-41 |

The callback for frames does not look at the opcode; the model assumes of the web socket
library that it keeps control frames to itself.

### State and actions of SqlServerClients

`instance` is the container's map for the one key all clients use, by library; `idle` and
`abandoned` count the connections of each pool; `pc` is where a thread is in a
constructor or a call, `pool` the pool its client holds.

| Action | Code |
|---|---|
| `Construct`, `Check`, `Create`, `CannotCreate`, `RegisterInstanceWithKey`, `GetInstanceWithKey` | the constructors, `createPoolImpl` (`mssql.hpp` 52-99, `mssql_dblib.hpp`), `simple_container.hpp` 59-134 |
| `TestBorrows`, `TestReturns`, `TestFails` | `testPool` of a DEBUG build (`mssql.hpp` 20-50) |
| `Borrow`, `Unavailable`, `Succeeded`, `Exception` | `execute`, `insertOne` (`mssql_base_client.hpp` 65-125) |
| `QuickDone`, `QuickFails` | `quick` (`mssql_dblib_base_client.hpp` 37-66), whose result is any number where it has no return |
| `runQuery`, `DataRace` | the process ends: a null pointer (line 49), or the map is changed while it is read |

## 4. Runs

| Run | Instance | Checks | Shows |
|---|---|---|---|
| `pg_safety` | 2 sessions, 2 streams, 2 connections, 2 events, 2 failures, 1 fault | `VersionsContiguous`, `SeqFollowsVersion`, `NothingLost`, `BoundedCopies`, `ImplementsEventLog` | the append path is correct under races, conflicts, partial Saves and retries |
| `pg_scarce` | the same with 1 connection | `ConnectionsServeCalls`, `ReturnCodeTruthful` | borrow failing in the middle of a Save, abandoned connections being replaced |
| `pg_retry` | 2 sessions, 2 streams, 1 event, 2 faults, up to 10 failures | `EventuallyStored`, `SaveReturns` | retrying callers get through, no transaction waits for ever |
| `pg_client` | 3 threads, 2 connections, 1 document, 1 stream, maps of up to 2 entries, 3 calls, 1 fault | `TypeOK`, `ConnectionsServeCalls`, `SucceededMeansDone`, `NoErrorMeansDone`, `VersionsNeverFall`, `EventuallySaved` | no way out of a call keeps a connection, whatever its handlers have done; strings and error types report nothing as done that is not; creating a stream does not set it back; what is repeated is stored |
| `sub_safety` | 2 instances, 2 entities, 1 connection, 3 sequence values, 1 fault | `NothingPassed`, `EventuallySeen` | the stored offset never passes an event that was not handed over, and polling reaches every event although the offset moves back |
| `sub_limit` | 1 instance, limit 1, 2 events | `StartsFromOffset` (violated) | see section 6 |
| `mssql` | 2 notifiers, 1 change, 2 failures; 6 calls of one notifier, or 3 when both call | `Accounted`, `StoppedMeansSilent`, `TriggerHasTarget`, `RemovalComplete`, `StopReturns`, `EventuallyReceived` | nothing is duplicated or forgotten while notifiers install and remove each other's objects; whatever statement fails, a lone notifier leaves no trigger without a target; `stop` returns |
| `mssql_check` | 1 notifier, 2 calls | `InstalledOnce` (violated) | see section 6 |
| `mongo` | 2 savers, 2 saves each, 2 failures | `NumbersUnique`, `DenseWhenQuiet`, `StreamsBounded`, `TwoMeansStored`, `SnapshotNotOutdated` | what five calls that nothing ties together still guarantee |
| `cassandra` | 2 managers, 2 modifications, 1 end of the process, calls counted up to 3 | `ProcessedMeansHandled`, `NothingPassedOver`, `HandledAgainOnlyAfterCrash`, `EventuallyHandled` | what polling over shared callbacks guarantees, and what it does without a swap |
| `servers` | 2 users, 2 sessions, one of them also in tokens of others, 2 ticks, 2 frames, 1 message | `TypeOK`, `MessagesWhole`, `OnlyToSession`, `AllOfSession`, `StrangersLeave` | messages whole and at their session; a user without one is told so and leaves |
| `sql_clients` | 3 threads, 2 libraries, pools of 1, 5 calls, 2 failures | `ClientsUsable`, `ConnectionsReturned`, `ResultTruthful` | whoever wins the race for the key, every client has a usable pool; no call costs a connection |

### Bounds

Every bound is a constant named in its module; it ends counters (events, calls, saves,
uuids, frames, failures) and never a choice inside a step.

*`pg_*`.*  Races are between two transactions on one stream; two sessions with two events
each give a winner, a loser that fails on the row of the streams table, a loser that fails
on the version, a loser that waits and then goes on because the winner rolled back, and
Saves that commit one stream and fail on the other.  Two failures per session give a
duplicate of a duplicate.  In `pg_retry` the bounds on failures and on the sequence are
above what the bounded faults and conflicts can cause, so no retry is cut off.

*`pg_client`.*  Three threads over two connections make the pool run dry while one works
and one has abandoned its connection; one fault lets a connection break, idle or at work,
or an upload fail, while the event store abandons the other.  Three calls are the least for
`createStore`, a `save` and a third user of the pool; a map with two entries has a
statement whose result is not the one returned.  The model has no large object of more than
one buffer here: no property but `TypeOK` is about them.

*`sub_safety`.*  Two instances are enough for one to be refused the only connection while the other
stores a stale offset over a newer one; three sequence values give a late commit, a rolled
back draw and two states of one entity.  The limit is the number of events.

*`mssql`.*  One notifier can start, receive and remove everything while the other is at
any statement of its own script, or waits, or holds a message.  The number of calls is
bounded by `(changes + 1) * notifiers that have called <= MaxCalls`, so a notifier that
is alone gets enough calls to install, fail halfway through a removal, fail again and
recover.  `TriggerHasTarget` and `RemovalComplete` are about a notifier that has its table
to itself: with two, one may drop the service between the other's creation of the service
and of the trigger.

*`mongo`.*  Two savers interleave at any of the five calls; the second save of each meets
the stream and snapshot of the first; two failures hit two calls of one save or one of each.

*`cassandra`.*  Two managers are the least that can swap callbacks; two modifications give
an order in which they arrive; the end of the process falls anywhere.  Calls of a handler are
counted beyond the two that one end of the process allows, so that a third would show.

*`servers`.*  Two users make an index that shifts when one leaves; two sessions, one
that is not the user's, which others can put into a token too; `Lifetime = 0` makes a token
expire at the second tick; two frames are one message in two parts or two messages.

*`sql_clients`.*  Three threads are two that race for the key and one that comes late, over
pools of one connection, which two threads share and one is refused.

Deadlock is checked in `sub_*` and `cassandra`, where writers end but polls go on for ever.
In the other runs the bounds on events or calls end every behaviour.

### Fairness

`PgEventStore`: `FairSpec` has weak fairness on `Progress(s)`: `Save()` is straight-line
code on its caller's thread and the server executes what it is sent.  It gives no
fairness to faults or to the user.  `RetrySpec` adds weak fairness on `Save(s)`: a
caller that calls again until it gets 200, as the return code invites it to.
`EventuallyStored` needs as many connections as sessions.  With fewer, two retrying
sessions with several streams each can turn each other away for ever, each time
storing another copy of their first stream.

`EventSubscriber`: weak fairness on `Step(i)`, an application that polls for ever.
`LastExecution` and `Search` return a connection to the pool even when it is broken, so one
that broke stays for ever and a poll may meet it every time; and an instance may be refused
a connection at every poll while the others have them all.  `EventuallySeen` therefore
speaks of behaviours without a broken connection, in which the pool in the end has one for everybody.

`MssqlNotifier`: weak fairness on `Owner(n)`, a call that has begun, and on `Thread(n)`:
the receive has a timeout, so the thread gets back to the flag, if the callback returns.

`PgClient`: weak fairness on `Step(cl)`: a call goes on once begun and its caller repeats
what `save` did not do.

`CaResourceManager`: weak fairness on `Poll(m)`: `run()` polls for ever.  Writers, time and
the end of the process have none.

`SessionServers`: weak fairness on the subscriber's thread as long as the process lives, and
on the callback that says that what there was to write has been written: libevent calls it
when the client has taken the bytes, or the connection closes, which is the other way out.
None for users, clients and the connection to Redis.

### What the properties mean for a user

- PostgreSQL events are stored **at least once**.  `Save()` keeps everything pending after any
  failure, also the streams that had already committed, and stores them again under
  fresh ids.  `BoundedCopies` states what remains true: never more copies than one
  plus the failed Saves, and none when no Save failed.
- A version conflict is an ordinary outcome: the loser gets 400, its pool slot is
  replaced later, and its retry continues after the winner.
- 503 does not mean "not stored" (`ConnectionLost` at `reply`).
- Whether a failed `save` may be repeated cannot be told from its `ErrorType`: a lost connection
  is reported as such for one wording of the message and as an execution error otherwise, and
  either may come after the statement was executed.  What can be relied on is that
  nothing is reported as done that is not (`SucceededMeansDone`, `NoErrorMeansDone`).
- `createStreamId` returns the result of its last statement only.  A success sets no
  `ErrorType`, so one that is used again has to be reset by the caller.
- A broken connection goes back to the client's pool as idle, and while one is idle the
  pool replaces none that were abandoned: event stores and clients that share a pool can
  leave it with broken connections only.  `EventuallySaved` has to exclude that case.
- `upload` does not test what its COMMIT returns and gives out the oid even when nothing was
  stored; that no part of an object becomes visible is the server's doing.
- A notifier gives a change **at most once**: a message is lost when the connection fails
  after the server has taken it from the queue, or when somebody uninstalls.  Notifiers of
  one table compete for its messages; each change goes to one of them.
- A notifier that was stopped does not listen again: the flag is never reset, and after
  another `start` the thread ends at once while the trigger goes on filling the queue.
- A subscriber sees every event **at least once**, never fewer, as long as `Search`'s
  limit is not reached: the stored offset may move back (two instances, or a failure
  that makes `LastExecution` return 0), and then events are handed over again.
- In MongoDB a snapshot may go back to an older version than one that was stored, but only
  by savers that overlapped; one type may get as many streams as savers raced for the first.
- A resource manager handles **at least once** and misses what becomes visible after a
  younger modification was processed, or is older than two days when the purpose begins.
  With several managers in one process a modification may go to the wrong one's handler.
- Whoever has the public key can make tokens that the servers accept, for any session.
- A web socket user keeps its session when the token expires.  A broadcast is only good while no
  user comes, goes or shakes hands: of a message disturbed by that, nothing is promised.  Once the subscriber's
  connection has dropped nothing is pushed any more.
- A SQL Server client that cannot get a connection throws; `(0, message)` says nothing
  about whether the statement was executed.

## 5. Proofs

All theorems are checked by `tlapm` with no assumption beyond the ASSUMEs of the
modules: streams are numbers, the pool is finite, bounds are naturals,
and the id of a session is not the one that stands for none.  Theorems that count
threads, savers or users assume in their statement that these are finitely many, as those
of one process or one database are; no other theorem does.  The type invariants
of `PgClient` and `SessionServers` are checked by runs too, since what they say of
versions, scripts and lists can go wrong; the others are only proved.

`PgClientProofs`.  Two facts about the external pool are kept as lemmas of other theorems, and
are no claims about this code: `PoolIsConserved` and `CapacityIsKept` hold for any use of the
pool, the second by mapping the holding clients of a dry pool onto the connections.  The
theorems about the clients rest on one inductive invariant, `Parts`:

- `TypeCorrect`: a version is bounded by the calls because each append is a call of its own,
  counted from its first step on (`AppendsCounted`); what a client has still to do is the
  rest of a script (`Scripted`, with lemmas on suffixes: `SuffixElements`, `SuffixTail`),
  so a statement that writes a document names one.
- `EveryWayOutUnborrows`: a client holds a connection exactly where its call talks over one
  (`HeldStep`), so only a `Save` that fails leaves one behind, and pays for it (`PaidStep`);
  that a dry pool means that all connections are at work then follows by counting (`PoolUse`).
- `SuccessesAreTrue`: what is said to be done was done when it was said (`AppliedInPlace`) and
  no step undoes it (`InPlaceStays`).
- `SilenceIsTruthful`: every way out of `save` but the success sets the `ErrorType`, and none
  resets it (`SilenceStep`).
- `VersionsDoNotFall` (an action property), by the three steps that write versions (`GrowStep`).

`PgEventStoreProofs`:

- `TypeCorrect`: the type invariant, one lemma per group of actions.
- `VersionsAreContiguous`, `SequenceFollowsVersions`, `NoEventIsLost`: none of the
  three is inductive, because what a commit writes was computed from what its
  transaction read many steps before.  `IInv` (at the end of `PgEventStore`) says what
  an open transaction knows:
  - `TxVersions`: it started from a version that was committed; once it has inserted
    a row, that version is *still* the committed one.  The first insert establishes
    this (lemma `NextVersion`): its version was free, the committed versions are
    contiguous, so it is the one after the last;
  - `OneWriter`: only one open transaction has rows in a stream, since a second one
    would have to insert the version the first holds, and waits;
  - `TxSeqs`: the values it drew rise, above those of every version it started from;
  - `TxEvents`, `SaveInv`: its rows hold the pending events of its stream up to the
    position reached, and streams Save() is done with are stored.
  `InsideTx` and `OutsideTx` carry the invariant through the steps that leave the
  tables alone; `CommitInv` is the step that uses everything.
- `ReturnCodesAreTruthful` (an action property): when nothing is left to do, `SaveInv` says
  that everything pending is stored; every other way out goes through `Fail`.
- `PoolServesCalls`: `PgEventStore` uses the pool as its specification allows
  (`PoolIsUsedProperly`), so what `PgClientProofs` proves of any use of a pool applies;
  together with "a connection is held exactly during a call" it gives
  `ConnectionsServeCalls`.
- `BatchesAreWhole`: the invariant of the next two theorems, inductive with `IInv`.
  `BatchInv` says that events are numbered as they were appended (`Numbered`), that the rows
  of an open transaction are the pending events of its stream up to its position, in order
  and once each (`TxBatch`), that the stream being saved is one Save() has not finished with
  (`TxTodo`), and counts the copies (`CopiesInv`): a pending event whose stream the Save under
  way has not committed has at most one per Save that failed.
- `CopiesAreBounded` follows from `CopiesInv`; a failure pays for a copy only when Save
  returns, so the count differs for streams committed and not committed by the one under way.
- `EventStoreImplementsLog`: the refinement of `EventLog`.  The mapping reads the log of a
  stream off the committed rows in version order, which is well defined because versions are
  contiguous.  `AppendEvent` maps to `Accept` (nobody has appended an event of this
  number: `Numbered`), `Commit` to `Store` (the batch is whole and in order: `TxBatch`, and
  goes to the end of the log: `TxVersions`), `Finish` to `Release` (`SaveInv`), a
  `ConnectionLost` whose transaction commits to `Store` too, every other step to a stutter.

`EventSubscriberProofs`:

- `TypeCorrect`, the type invariant.
- `NothingIsPassed`: `NothingPassed` under `Limit >= MaxSeq`.  The stored offset is
  overwritten with numbers that instances have carried around for many steps, so `IInv`
  says of *every* number that may become the offset that it is safe (`SafeOffset`: what
  lies below it has been seen, and it is at most the last committed number, so that
  nothing commits below it later), and that what an instance has found leaves no gap
  above its offset (`FoundAll`).  `SafeStable` carries safety through commits,
  `MaxEventCovers` says that what `getMaxEvent` drops is covered by what it keeps,
  `LimitIsNoLimit` counts the rows of a search, `HandledIsSafe` uses all three.

`MssqlNotifierProofs`, for any number of notifiers:

- `TypeCorrect`, the type invariant.  Scripts grow when a procedure is called, so it
  rests on lemmas about sequences of sequences (`ScriptSteps`).
- `StaysSilent`: a thread may be in its callback when `stop` sets the flag; the strengthening
  `SilentInv` says that after the join it is gone, and that a later one only reads the flag.
- `MessagesAreAccounted`: inductive once a thread holds a message only in its callback
  (`NextHand`) and every message has the number of a change already made, so that a new
  one is in no other place (`NextBalance`).
- `TriggersHaveTargets`, `RemovalIsComplete` (an action property): both speak of a notifier
  that has its table to itself, and depend on the order of statements in scripts of which any
  batch may be cut off.  `LoneInv` says what a script under way has still to do: an object that
  needs another is created after it and dropped before it, by an earlier statement of the batch
  if not by the objects there are (`Ordered`); and while nothing failed, what is missing is what
  is still to be created, and what is there what is still to be dropped (`Whole`).

`CaResourceManagerProofs`, for any number of managers, rows and crashes:

- `ProcessedWereHandled` needs to know of the row a thread carries (`RowKnown`): it was
  modified, and once the thread is about to mark it the callback of the purpose it marks it
  for has had it, also when the shared callbacks are those of another manager.
- `NothingIsPassedOver` and `HandledOncePerLife` hold as long as no two threads mixed up
  their callbacks and none called one that was being replaced (`mixed`, as in the
  properties).  `OwnInv` then says of a purpose that the
  cursor is above all it marked, that every row on time below its cursor was handled
  (`Passed`), and that a row handled once more than there were crashes is marked or about to
  be: an unmarked row can be handled again only when a crash has paid for it.  `MinIsLeast`
  and `MaxIsGreatest` say that the two queries find what they look for.

`MongoEventStoreProofs`, for any number of savers, calls and failures:

- `EventsNumberedApart`: a number is drawn some calls before the event that bears it is
  inserted.  `Unused` says that what a saver carries is in no event yet, `Apart` that no two
  savers carry the same, `Counted` that all of it is at most the counter, which is why the
  next one drawn is new.
- `StreamsAreBounded`: `CreatorsCounted` counts the streams together with the savers about to
  create one.  A saver joins these only if it finds no stream, when they alone are counted.
- `EventsAreDense`: as long as nothing failed, every number drawn is in an event or carried by
  a saver (`NoneLost`); when nobody saves nothing is carried, and `EventsNumberedApart` makes
  it a count.
- `TwoIsTruthful`: `Told` keeps what the calls that succeeded have put in the collections.
- `SnapshotsNotOutdated` (an action property): a version is drawn after `SaveOne` began, so
  it is above everything reported until then (`Later`, from `floor <= completed <=` the
  counter).

`SqlServerClientsProofs`, for any finite set of threads, with and without DEBUG:

- `ClientsAreUsable`: a registered pool is created and of the library it is registered for
  (`Registered`); a created one is registered or about to be by its thread (`Announced`),
  so a constructor that finds nothing has no pool of its own yet (`Reliable`).
- `ConnectionsAreReturned`: `Balanced` counts the connections of every pool, of those not
  created yet too.  A step moves a connection in three ways only, and each has a lemma:
  `Took`, `LetGo`, `NoneMoved`.
- `ResultsAreTruthful` is inductive with the type invariant.

`SessionServersProofs`, for any number of users, sessions and messages:

- `AcceptedToken`: a token that is accepted gives the session that is in it, one made here or
  one of `Others`; with it `PublishedToSessions`: a route publishes to sessions only.
- `MessagesAreWhole` needs that a user has nothing before its handshake (`Unready`).
- `SentOnlyToSession`: `Matched` says that what one line of the broadcast has tested still
  holds at the next, unless the list was changed in between; `Genuine` that every message
  under way has been published, and so belongs to a session.
- `TypeCorrect`: the list without repetitions rests on what erasing the first match and
  appending do to a sequence (`EraseUser`, `AppendUser`); it makes the list no longer than
  there are users (`ListLength`), which bounds the index of the broadcast (`TypeInv`).
  `WritesStep`: a user that is still being written to has not left.

Only model-checked: the violations of section 6, and the liveness properties
`SaveReturns`, `EventuallyStored`, `EventuallySaved`, `EventuallySeen`, `StopReturns`,
`EventuallyReceived`, `EventuallyHandled`, `AllOfSession` and `StrangersLeave`.
Liveness under fairness is out of the prover's reach.

## 6. Findings

**`sub_limit`.**  `Search` "Returns a set of IEvent starting from a sequence id offset"
(`eventstore.hpp:61`), at most `limit` of them, 10 by default.  Its query
(`pg_eventstore.hpp:176`) has a limit and no ORDER BY.  Run `sub_limit` finds a step in
which a later event is returned and an earlier one is not; a subscriber that then moves
the offset to the last event it got has passed over the other.  PostgreSQL usually
returns rows in the order they were inserted, but does not promise it, and will not after
updates, deletes or with another plan.

**`mssql_check`.**  `start` means to "Check if service is already installed"
(`mssql_notifier.hpp:53`).  The query (line 492) compares the names of the services with the
bare identity, but the service is called `ListenerService_` and the identity (line 134):
it is never found, and every `start` runs the three installation scripts.  They do no
harm, since each statement tests for its object, and repair an installation that is
incomplete; a check that worked would have to look at more than the service.

## 7. Not modelled

Parts:

- **Kafka client.**  What is delivered again after a stop between the callback and the
  commit (`kafka_base_client.hpp:107`) is decided by librdkafka and the broker; the code in
  `src/` is one loop.  `on_signal` is a global that the second client overwrites.
- **MySQL client.**  Errors are only printed; a second `connectAsync` runs an `io_service`
  that has stopped.  **Redis client**: one command, one `sync_commit`.
- **PostgreSQL notifier.**  One connection, one endless loop, one callback.
- **Logging, background workers, Rx, models, encoders, sockets, files, the Kudu example**: no state
  that a property could relate to other state.
- **HTTP `serv`**, which starts threads and, when one cannot be started, returns -1 while the
  others run on with an array on its stack; the reading of key files.
- **The replies of the HTTP server**: every branch of `ProcessRequest` answers for itself and
  keeps nothing, so a reply is a function of the request, the token and the clock.
- MongoDB's plain `insert` and `upsert`, one call each.  Cassandra's `tryConnect` and binding.

Behaviour of the modelled parts:

- The rows and the texts of queries.
- Two threads in one `LargeObjectHandler`: `connInfo` is a member without a lock.
- The key of a `Client`'s pool is the name of its type: a second client of the same type gets
  the first one's pool and database.  Nothing in the repository says otherwise.
- `download` returns a part of an object when a read fails.  The quotes in large objects' statements.
- The number of an untouched `ErrorType`.  One made by `make_shared` is 0, which is not `none`
  (200, `pg_eventstore.hpp:19`), and a successful `save` does not set it, so the assertion
  `*errType == ErrorType::none` of `test/007-pgsql-err-handling.cpp:60` cannot hold.
  `PgClient` calls it `"unset"`.
- What the library's defaults connect a large object to when `getConnInfo` got no connection:
  another database than the one modelled, or none.
- What a dangling handler or a mangled frame might do besides the outcomes named in section 3.
- `quick` and `getPathValueFromJson` return indeterminate values: in the model, any.
- A process crash: `pending` lives in memory and is lost with the process; nothing in
  the repository claims otherwise.
- A transaction that survives its broken connection and commits after the session has
  retried.  The model ends it, committed or rolled back, before the session goes on.
- Two threads in one session: `pending` has no lock, so this is undefined behaviour.
- `int` overflow of `seq` in `mt_append_event`.
- `Search` by pattern, keys and filters.  With a pattern, events of several streams are
  read, which may commit out of sequence order; nothing in the repository says which
  offset such a caller keeps.
- Two first calls of `LastExecution` racing in `create table if not exists`; the loser
  would return 0, as after any failed statement.
- In `MssqlNotifier`: the broker's own end-of-dialog and error messages, which occupy a
  receive and give an empty string like a timeout; enabling the broker and the local route;
  the text of a message; the value `executeNonQuery` returns after an exception, which is
  indeterminate and ignored by the callers in the class.  `start` on a running notifier and `stop` without
  `start` end the program, so the model's owner does neither.  `IF NOT EXISTS ... CREATE`
  is one step: the loser of a race gets an error and the same objects.
- `cleanDatabase` ("remove ALL listeners") removes those whose uninstall procedure exists.
  If the script that creates it failed during `start`, the trigger, service and queue stay.
- Other users of the tables, schema changes, deletes (`ON DELETE CASCADE`).
