--------------------------- MODULE EventSubscriber ---------------------------
(***************************************************************************)
(* The reading side of PgEventStore.  Instances of one application, all    *)
(* under the same subscriber name, ask LastExecution for the offset of an  *)
(* event type, Search the events past it, hand the latest one of every     *)
(* entity (getMaxEvent) to the application, and move the offset with       *)
(* LastExecution again.                                                    *)
(*                                                                         *)
(* The events of the type live in one stream, as rx.hpp generates them.    *)
(* Writers are reduced to what PgEventStore lets a reader see: sequence    *)
(* values are drawn before the commit, a draw may be rolled back, and      *)
(* inside a stream an event commits only above the committed ones.  Every  *)
(* statement of LastExecution commits on its own.                          *)
(***************************************************************************)
EXTENDS Integers, Sequences, FiniteSets

CONSTANTS
    Instances,    \* threads or processes of the subscribing application
    Entities,     \* values of data["id"]
    Conns, NoConn,
    Limit,        \* the limit Search is called with
    MaxSeq,       \* bound: values drawn from mt_events_sequence
    MaxFaults     \* bound: connections the server drops

ASSUME LimitAssumption == Limit \in Nat \ {0}
ASSUME BoundsAssumption == MaxSeq \in Nat /\ MaxFaults \in Nat
ASSUME ConnsAssumption == IsFiniteSet(Conns) /\ NoConn \notin Conns

VARIABLES
    table,        \* committed events of the type
    drawn,        \* sequence values of open transactions
    seq,          \* last value of mt_events_sequence
    offset,       \* seq_id in mt_last_execution, NoRow if absent
    pc,           \* where the instance is
    arg,          \* newSeqId of its LastExecution call
    seqId,        \* what that call will return
    found,        \* events the instance's last Search returned
    handled,      \* history: events handed to the application
    faults,       \* connections the server has dropped
    free, borrowed, held, dead   \* the pool, see ConnectionPool

Pool == INSTANCE ConnectionPool WITH Clients <- Instances

dbVars == <<table, drawn, seq>>
poolVars == <<free, borrowed, held, dead>>
vars == <<table, drawn, seq, offset, pc, arg, seqId, found, handled, faults,
          free, borrowed, held, dead>>

NoRow == -2                         \* -1 is the default LastExecution inserts
Read  == -1                         \* the default of newSeqId

Event == [seq : 1..MaxSeq, entity : Entities]
Statements == {"select", "default", "update"}
PCs == {"idle", "advance", "return", "search", "searching", "handle"} \cup Statements

Init == /\ table = {}
        /\ drawn = {}
        /\ seq = 0
        /\ offset = NoRow
        /\ pc = [i \in Instances |-> "idle"]
        /\ arg = [i \in Instances |-> Read]
        /\ seqId = [i \in Instances |-> 0]
        /\ found = [i \in Instances |-> {}]
        /\ handled = {}
        /\ faults = 0
        /\ Pool!Init

-----------------------------------------------------------------------------
(* Writers, and the server.                                                *)

readerVars == <<offset, pc, arg, seqId, found, handled, faults, poolVars>>

Draw == /\ seq < MaxSeq
        /\ seq' = seq + 1
        /\ drawn' = drawn \cup {seq + 1}
        /\ UNCHANGED <<table, readerVars>>

CommitEvent == \E n \in drawn, entity \in Entities :
    /\ \A e \in table : e.seq < n
    /\ table' = table \cup {[seq |-> n, entity |-> entity]}
    /\ drawn' = drawn \ {n}
    /\ UNCHANGED <<seq, readerVars>>

Rollback == \E n \in drawn : /\ drawn' = drawn \ {n}
                             /\ UNCHANGED <<table, seq, readerVars>>

(* The server drops a connection, idle or in use.                          *)
Break == /\ faults < MaxFaults
         /\ faults' = faults + 1
         /\ \E c \in Conns \ dead : dead' = dead \cup {c}
         /\ UNCHANGED <<dbVars, offset, pc, arg, seqId, found, handled, free, borrowed, held>>

-----------------------------------------------------------------------------
(* LastExecution.                                                          *)

(* Called to read the offset, or to move it to the last event handled.     *)
CallLastExecution(i) ==
    /\ pc[i] \in {"idle", "advance"}
    /\ seqId' = [seqId EXCEPT ![i] = 0]
    /\ \/ /\ Pool!Borrow(i)
          /\ pc' = [pc EXCEPT ![i] = "select"]
       \/ /\ Pool!Exhausted                  \* caught: returns 0
          /\ pc' = [pc EXCEPT ![i] = "return"]
          /\ UNCHANGED poolVars
    /\ UNCHANGED <<dbVars, offset, arg, found, handled, faults>>

At(i, label) == pc[i] = label /\ held[i] \notin dead

statement == <<dbVars, arg, found, handled, faults, poolVars>>

Goto(i, label) == pc' = [pc EXCEPT ![i] = label]
NextStatement(i) == IF arg[i] > Read THEN "update" ELSE "return"

(* create table if not exists, and select seq_id.                          *)
SelectOffset(i) ==
    /\ At(i, "select")
    /\ \/ /\ offset = NoRow
          /\ Goto(i, "default")
          /\ UNCHANGED seqId
       \/ /\ offset # NoRow
          /\ Goto(i, NextStatement(i))
          /\ seqId' = [seqId EXCEPT ![i] = offset]
    /\ UNCHANGED <<statement, offset>>

(* Variant that registers a new subscriber at the end of the stream.       *)
InsertDefaultAtEnd(i) ==
    /\ At(i, "default")
    /\ table # {}
    /\ offset' = IF offset = NoRow THEN seq ELSE offset
    /\ Goto(i, NextStatement(i))
    /\ UNCHANGED <<statement, seqId>>

(* insert ... -1 on conflict do nothing; seqId stays 0.                    *)
InsertDefault(i) ==
    /\ At(i, "default")
    /\ table # {}
    /\ offset' = IF offset = NoRow THEN -1 ELSE offset
    /\ Goto(i, NextStatement(i))
    /\ UNCHANGED <<statement, seqId>>

(* The stream does not exist yet: foreign key violation, caught.           *)
NoSuchStream(i) ==
    /\ At(i, "default")
    /\ table = {}
    /\ Goto(i, "return")
    /\ UNCHANGED <<statement, offset, seqId>>

(* Variant that stores the next sequence number to look for.               *)
UpdateOffsetToNext(i) ==
    /\ At(i, "update")
    /\ offset' = arg[i] + 1
    /\ seqId' = [seqId EXCEPT ![i] = arg[i] + 1]
    /\ Goto(i, "return")
    /\ UNCHANGED statement

UpdateOffset(i) ==
    /\ At(i, "update")
    /\ offset' = arg[i]
    /\ seqId' = [seqId EXCEPT ![i] = arg[i]]
    /\ Goto(i, "return")
    /\ UNCHANGED statement

(* A statement on a broken connection: the exception is caught and logged. *)
StatementFails(i) ==
    /\ pc[i] \in Statements
    /\ held[i] \in dead
    /\ Goto(i, "return")
    /\ UNCHANGED <<statement, offset, seqId>>

(* Unborrow, on every path, and return seqId.                              *)
Return(i) ==
    /\ pc[i] = "return"
    /\ IF held[i] # NoConn THEN Pool!Unborrow(i) ELSE UNCHANGED poolVars
    /\ Goto(i, IF arg[i] = Read THEN "search" ELSE "idle")
    /\ arg' = [arg EXCEPT ![i] = Read]
    /\ UNCHANGED <<dbVars, offset, seqId, found, handled, faults>>

-----------------------------------------------------------------------------
(* Search, past the offset LastExecution returned.                         *)

searchVars == <<dbVars, offset, arg, seqId, handled, faults>>

StartSearch(i) ==
    /\ pc[i] = "search"
    /\ \/ /\ Pool!Borrow(i)
          /\ Goto(i, "searching")
          /\ UNCHANGED found
       \/ /\ Pool!Exhausted                  \* caught: returns no events
          /\ Goto(i, "idle")
          /\ found' = [found EXCEPT ![i] = {}]
          /\ UNCHANGED poolVars
    /\ UNCHANGED searchVars

Past(n) == {e \in table : e.seq > n}

(* The query has a limit and no order: which rows it leaves out is the     *)
(* database's choice.                                                      *)
Search(i) ==
    /\ At(i, "searching")
    /\ \E events \in SUBSET Past(seqId[i]) :
          /\ \/ events = Past(seqId[i]) /\ Cardinality(events) <= Limit
             \/ events # Past(seqId[i]) /\ Cardinality(events) = Limit
          /\ found' = [found EXCEPT ![i] = events]
          /\ Goto(i, IF events = {} THEN "idle" ELSE "handle")
    /\ Pool!Unborrow(i)
    /\ UNCHANGED searchVars

SearchFails(i) ==
    /\ pc[i] = "searching"
    /\ held[i] \in dead
    /\ found' = [found EXCEPT ![i] = {}]
    /\ Goto(i, "idle")
    /\ Pool!Unborrow(i)
    /\ UNCHANGED searchVars

(* getMaxEvent: the latest event of every entity.                          *)
getMaxEvent(events) ==
    {e \in events : \A f \in events : f.entity = e.entity => f.seq <= e.seq}

(* The application takes the events and asks to go on after the last one.  *)
Handle(i) ==
    /\ pc[i] = "handle"
    /\ handled' = handled \cup getMaxEvent(found[i])
    /\ \E e \in found[i] : /\ \A f \in found[i] : f.seq <= e.seq
                           /\ arg' = [arg EXCEPT ![i] = e.seq]
    /\ Goto(i, "advance")
    /\ UNCHANGED <<dbVars, offset, seqId, found, faults, poolVars>>

-----------------------------------------------------------------------------
Step(i) == \/ CallLastExecution(i)
           \/ SelectOffset(i)
           \/ InsertDefault(i)
           \/ NoSuchStream(i)
           \/ UpdateOffset(i)
           \/ StatementFails(i)
           \/ Return(i)
           \/ StartSearch(i)
           \/ Search(i)
           \/ SearchFails(i)
           \/ Handle(i)

Next == \/ Draw
        \/ CommitEvent
        \/ Rollback
        \/ Break
        \/ \E i \in Instances : Step(i)

Spec == Init /\ [][Next]_vars

(* The application polls for ever.                                         *)
FairSpec == Spec /\ \A i \in Instances : WF_vars(Step(i))

-----------------------------------------------------------------------------
(* Properties.                                                             *)

TypeOK ==
    /\ table \in SUBSET Event
    /\ drawn \in SUBSET (1..MaxSeq)
    /\ seq \in 0..MaxSeq
    /\ offset \in -2..MaxSeq
    /\ pc \in [Instances -> PCs]
    /\ arg \in [Instances -> -1..MaxSeq]
    /\ seqId \in [Instances -> -1..MaxSeq]
    /\ found \in [Instances -> SUBSET Event]
    /\ handled \in SUBSET Event
    /\ faults \in 0..MaxFaults
    /\ Pool!PoolTypeOK

(* The application has seen e, or a later state of the same entity.        *)
Seen(e) == \E h \in handled : h.entity = e.entity /\ h.seq >= e.seq

(* At least once: the stored offset is never ahead of an event the         *)
(* application has not seen, however calls of several instances, failures  *)
(* that make LastExecution return 0, late commits and gaps interleave.     *)
NothingPassed == \A e \in table : e.seq <= offset => Seen(e)

(* A LastExecution or a Search that the pool has no connection for.        *)
Refused == \E i \in Instances : \/ pc[i] \in {"idle", "advance"} /\ pc'[i] = "return"
                                \/ pc[i] = "search" /\ pc'[i] = "idle"

(* A polling application sees every event, although its instances move     *)
(* the offset back under each other's feet, once the pool has connections  *)
(* enough.                                                                 *)
EventuallySeen ==
    [](dead = {}) /\ <>[][~Refused]_vars =>
    \A n \in 1..MaxSeq : (\E e \in table : e.seq = n)
                            ~> (\E e \in table : e.seq = n /\ Seen(e))

(* eventstore.hpp: "Returns a set of IEvent starting from a sequence id    *)
(* offset."  No event is left out between the offset and what is returned. *)
StartsFromOffset ==
    [][\A i \in Instances :
          pc[i] = "searching" /\ pc'[i] = "handle" =>
             \A e \in Past(seqId[i]) \ found'[i] :
                \A f \in found'[i] : e.seq > f.seq]_vars
-----------------------------------------------------------------------------
(* The inductive invariant behind NothingPassed: every number an instance  *)
(* may come to use as an offset is as safe as the stored one, also for     *)
(* events that commit later.                                               *)

SafeOffset(n) == /\ \A e \in table : e.seq <= n => Seen(e)
                 /\ n <= 0 \/ \E e \in table : n <= e.seq

SeqUnique == \A e, f \in table : e.seq = f.seq => e = f

(* Nothing committed lies between the offset an instance searched from and *)
(* the last event it found.                                                *)
FoundAll == \A i \in Instances :
               /\ found[i] \subseteq table
               /\ pc[i] = "handle" =>
                    \A e \in table : \/ e.seq <= seqId[i]
                                     \/ e \in found[i]
                                     \/ \A f \in found[i] : f.seq < e.seq

IInv == /\ SafeOffset(offset)
        /\ \A i \in Instances : SafeOffset(seqId[i]) /\ SafeOffset(arg[i])
        /\ SeqUnique
        /\ FoundAll
=============================================================================
