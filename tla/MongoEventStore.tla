-------------------------- MODULE MongoEventStore --------------------------
(***************************************************************************)
(* store::storage::mongo::MongoClient::MongoEventStore: savers (threads or *)
(* processes) append events of one type with SaveOne.  It makes five calls *)
(* to the server that nothing ties together: find the stream of the type   *)
(* or create it, draw the global sequence number, draw the version, insert *)
(* the event, replace the stream's document with the new snapshot.         *)
(*                                                                         *)
(* A call that fails is logged and gives a default (an empty id, -1, 0),   *)
(* with which SaveOne goes on; only a pool without a free client makes it  *)
(* stop, by a thrown string that no handler in the way catches.            *)
(***************************************************************************)
EXTENDS Integers, FiniteSets

CONSTANTS
    Savers,
    MaxSaves,    \* bound: calls of SaveOne by each saver
    MaxFaults    \* bound: calls to the server that fail

ASSUME BoundsAssumption == MaxSaves \in Nat /\ MaxFaults \in Nat

VARIABLES
    streams,     \* collection eventstreams: version of the snapshot by _id
    counters,    \* collection events_counter
    events,      \* collection events
    pc,          \* where a saver is in SaveOne
    local,       \* its streamId, globalseq, nextver and rc
    saves, faults,
    completed,   \* history: the highest version a SaveOne returned 2 for
    floor        \* history: completed, when the saver's SaveOne began

vars == <<streams, counters, events, pc, local, saves, faults, completed, floor>>

NoId == 0                        \* the empty string
NoSnapshot == 0                  \* as getUid creates the document
Ids == Nat                       \* uuids, numbered
Numbers == Nat \cup {-1}
Fresh == [streamId |-> NoId, globalseq |-> -1, nextver |-> -1, rc |-> 0]

Init == /\ streams = << >>
        /\ counters = [all_events |-> 0, type |-> 0]
        /\ events = {}
        /\ pc = [s \in Savers |-> "idle"]
        /\ local = [s \in Savers |-> Fresh]
        /\ saves = [s \in Savers |-> 0] /\ faults = 0
        /\ completed = 0
        /\ floor = [s \in Savers |-> 0]

-----------------------------------------------------------------------------
Fault == faults < MaxFaults /\ faults' = faults + 1
Goto(s, label) == pc' = [pc EXCEPT ![s] = label]
Set(s, field, value) == local' = [local EXCEPT ![s][field] = value]

SaveOne(s) == /\ pc[s] = "idle" /\ saves[s] < MaxSaves
              /\ saves' = [saves EXCEPT ![s] = @ + 1]
              /\ local' = [local EXCEPT ![s] = Fresh]
              /\ floor' = [floor EXCEPT ![s] = completed]
              /\ Goto(s, "find")
              /\ UNCHANGED <<streams, counters, events, faults, completed>>

quiet == <<counters, events, saves, completed, floor>>

(* Variant that looks for the new uuid, not for the type.                  *)
getUidByUuid(s) ==
    /\ pc[s] = "find"
    /\ Goto(s, "create")
    /\ UNCHANGED <<streams, local, faults, quiet>>

(* getUid: any document of the type, else insert one with a new uuid.      *)
getUid(s) ==
    /\ pc[s] = "find"
    /\ \/ /\ \E id \in DOMAIN streams : Set(s, "streamId", id)
          /\ Goto(s, "sequence") /\ UNCHANGED faults
       \/ /\ streams = << >>
          /\ Goto(s, "create") /\ UNCHANGED <<local, faults>>
       \/ Goto(s, "sequence") /\ Fault /\ UNCHANGED local
    /\ UNCHANGED <<streams, quiet>>

Document(id, version) == [i \in DOMAIN streams \cup {id} |->
                             IF i = id THEN version ELSE streams[i]]

createUid(s) ==
    /\ pc[s] = "create"
    /\ LET id == Cardinality(DOMAIN streams \cup {NoId}) IN
       \/ /\ streams' = Document(id, NoSnapshot)
          /\ Set(s, "streamId", id) /\ UNCHANGED faults
       \/ Fault /\ UNCHANGED local /\ streams' \in {streams, Document(id, NoSnapshot)}
    /\ Goto(s, "sequence")
    /\ UNCHANGED quiet

(* Variant that reads the counter and leaves the increment for later.      *)
getNextValueUnchanged(s, name, field) ==
    /\ Set(s, field, counters[name] + 1)
    /\ UNCHANGED <<counters, faults>>

(* $inc, with upsert and the document after the update.                    *)
getNextSequenceValue(s, name, field) ==
    \/ /\ counters' = [counters EXCEPT ![name] = @ + 1]
       /\ Set(s, field, counters[name] + 1) /\ UNCHANGED faults
    \/ /\ Fault /\ UNCHANGED local
       /\ counters' \in {counters, [counters EXCEPT ![name] = @ + 1]}

NextSequence(s) == /\ pc[s] = "sequence"
                   /\ getNextSequenceValue(s, "all_events", "globalseq")
                   /\ Goto(s, "version")
                   /\ UNCHANGED <<streams, events, saves, completed, floor>>

(* Variant that draws the version from the counter of all events.          *)
NextVersionGlobal(s) == /\ pc[s] = "version"
                        /\ getNextSequenceValue(s, "all_events", "nextver")
                        /\ Goto(s, "event")
                        /\ UNCHANGED <<streams, events, saves, completed, floor>>

NextVersion(s) == /\ pc[s] = "version"
                  /\ getNextSequenceValue(s, "type", "nextver")
                  /\ Goto(s, "event")
                  /\ UNCHANGED <<streams, events, saves, completed, floor>>

Event(s) == [by |-> s, no |-> saves[s], streamId |-> local[s].streamId,
             seqId |-> local[s].globalseq, version |-> local[s].nextver]

(* Variant that counts the event before it is inserted.                    *)
saveOneEventCounted(s) ==
    /\ pc[s] = "event"
    /\ Set(s, "rc", local[s].rc + 1)
    /\ \/ events' = events \cup {Event(s)} /\ UNCHANGED faults
       \/ Fault /\ events' \in {events, events \cup {Event(s)}}
    /\ Goto(s, "stream")
    /\ UNCHANGED <<streams, counters, saves, completed, floor>>

saveOneEvent(s) ==
    /\ pc[s] = "event"
    /\ \/ events' = events \cup {Event(s)} /\ Set(s, "rc", local[s].rc + 1) /\ UNCHANGED faults
       \/ Fault /\ UNCHANGED local /\ events' \in {events, events \cup {Event(s)}}
    /\ Goto(s, "stream")
    /\ UNCHANGED <<streams, counters, saves, completed, floor>>

(* replace_one by _id with upsert, whatever version the document has.      *)
saveOneEventStream(s) ==
    /\ pc[s] = "stream"
    /\ LET after == Document(local[s].streamId, local[s].nextver) IN
       \/ streams' = after /\ Set(s, "rc", local[s].rc + 1) /\ UNCHANGED faults
       \/ Fault /\ UNCHANGED local /\ streams' \in {streams, after}
    /\ Goto(s, "return")
    /\ UNCHANGED quiet

Return(s) ==
    /\ pc[s] = "return"
    /\ completed' = IF local[s].rc = 2 /\ local[s].nextver > completed
                      THEN local[s].nextver ELSE completed
    /\ Goto(s, "idle")
    /\ UNCHANGED <<streams, counters, events, local, saves, faults, floor>>

(* try_acquire finds no client: the string flies past catch (exception).   *)
NoClient(s) == /\ pc[s] \notin {"idle", "return"}
               /\ Fault
               /\ Goto(s, "idle")
               /\ UNCHANGED <<streams, counters, events, local, saves, completed, floor>>

Step(s) == \/ getUid(s) \/ createUid(s) \/ NextSequence(s) \/ NextVersion(s)
           \/ saveOneEvent(s) \/ saveOneEventStream(s) \/ Return(s)

Next == \E s \in Savers : SaveOne(s) \/ Step(s) \/ NoClient(s)

Spec == Init /\ [][Next]_vars

-----------------------------------------------------------------------------
(* Properties.                                                             *)

TypeOK ==
    /\ DOMAIN streams \subseteq Ids /\ \A id \in DOMAIN streams : streams[id] \in Numbers
    /\ counters \in [all_events : Nat, type : Nat]
    /\ events \subseteq [by : Savers, no : 0..MaxSaves, streamId : Ids,
                         seqId : Numbers, version : Numbers]
    /\ pc \in [Savers -> {"idle", "find", "create", "sequence", "version", "event",
                          "stream", "return"}]
    /\ local \in [Savers -> [streamId : Ids, globalseq : Numbers, nextver : Numbers, rc : 0..2]]
    /\ saves \in [Savers -> 0..MaxSaves] /\ faults \in 0..MaxFaults
    /\ completed \in Nat /\ floor \in [Savers -> Nat]

(* No two events have the same version or global number, except -1, which  *)
(* stands for a counter that could not be read.                            *)
NumbersUnique ==
    \A e, f \in events :
       e # f => /\ e.version = f.version => e.version = -1
                /\ e.seqId = f.seqId => e.seqId = -1

(* When nobody is saving and nothing has failed, the events of the type    *)
(* are numbered without a gap, by both counters.                           *)
DenseWhenQuiet ==
    faults = 0 /\ (\A s \in Savers : pc[s] = "idle") =>
       LET all == 1..Cardinality(events) IN
       {e.version : e \in events} = all /\ {e.seqId : e \in events} = all

(* A type gets more than one stream only from savers that all looked for   *)
(* it before the first was there; one more, with the empty id, from a      *)
(* saver whose search failed.                                              *)
StreamsBounded == Cardinality(DOMAIN streams \ {NoId}) <= Cardinality(Savers)

(* SaveOne returns 2 only for an event that is stored, in a stream that is *)
(* there, under a version the counter has given out.                       *)
TwoMeansStored ==
    \A s \in Savers : pc[s] = "return" /\ local[s].rc = 2 =>
       \E e \in events : /\ e.by = s /\ e.no = saves[s]
                         /\ e.streamId \in DOMAIN streams
                         /\ e.version <= counters.type

(* Savers overwrite each other's snapshots in any order, so the snapshot   *)
(* may go back; but never to a version older than one whose SaveOne had    *)
(* returned before this one began (unless the version could not be drawn). *)
SnapshotNotOutdated ==
    [][\A s \in Savers : pc[s] = "stream" /\ pc'[s] = "return" /\ streams' # streams
          => local[s].nextver > floor[s] \/ local[s].nextver = -1]_vars
-----------------------------------------------------------------------------
(* The inductive invariant behind the safety properties: the numbers a     *)
(* saver carries from a counter to its event are nobody else's yet.        *)

Counted == /\ \A e \in events : e.seqId <= counters.all_events /\ e.version <= counters.type
           /\ \A s \in Savers : /\ local[s].globalseq <= counters.all_events
                                /\ local[s].nextver <= counters.type
                                /\ floor[s] <= completed
           /\ completed <= counters.type

Sequenced(s) == pc[s] \in {"version", "event"}
Versioned(s) == pc[s] = "event"

Unused(s) ==
    /\ pc[s] \in {"find", "create", "sequence"} => local[s].globalseq = -1
    /\ pc[s] \in {"find", "create", "sequence", "version"} => local[s].nextver = -1
    /\ Sequenced(s) => \A e \in events : e.seqId = local[s].globalseq => e.seqId = -1
    /\ Versioned(s) => \A e \in events : e.version = local[s].nextver => e.version = -1

Apart(s, t) ==
    /\ Sequenced(s) /\ Sequenced(t) /\ local[s].globalseq = local[t].globalseq
          => local[s].globalseq = -1
    /\ Versioned(s) /\ Versioned(t) /\ local[s].nextver = local[t].nextver
          => local[s].nextver = -1

Later(s) == pc[s] \in {"event", "stream"}
               => local[s].nextver = -1 \/ local[s].nextver > floor[s]

Told(s) ==
    /\ pc[s] \in {"find", "create", "sequence", "version", "event"} => local[s].rc = 0
    /\ pc[s] = "stream" => local[s].rc = 0 \/ (local[s].rc = 1 /\ Event(s) \in events)
    /\ pc[s] = "return" /\ local[s].rc = 2
          => Event(s) \in events /\ local[s].streamId \in DOMAIN streams

IInv == /\ TypeOK /\ IsFiniteSet(DOMAIN streams)
        /\ NumbersUnique
        /\ Counted
        /\ \A s \in Savers : Unused(s) /\ Later(s) /\ Told(s)
        /\ \A s, t \in Savers : s # t => Apart(s, t)
-----------------------------------------------------------------------------
(* What StreamsBounded and DenseWhenQuiet rest on besides IInv: every saver*)
(* that may still create a stream is counted, and every number drawn is in *)
(* an event or on its way to one.                                          *)

KnownStream(s) == local[s].streamId \in DOMAIN streams \cup {NoId}

Creators == {s \in Savers : pc[s] = "create"}

CreatorsCounted ==
    Cardinality(DOMAIN streams \ {NoId}) + Cardinality(Creators) <= Cardinality(Savers)

Carried(field, S) == {local[s][field] : s \in S}

NoneLost ==
    faults = 0 =>
       /\ {e.version : e \in events} \cup Carried("nextver", {s \in Savers : Versioned(s)})
             = 1..counters.type
       /\ {e.seqId : e \in events} \cup Carried("globalseq", {s \in Savers : Sequenced(s)})
             = 1..counters.all_events

CountInv == (\A s \in Savers : KnownStream(s)) /\ CreatorsCounted /\ NoneLost
=============================================================================
