----------------------- MODULE MongoEventStoreProofs -----------------------
(* The safety properties of the savers, for any number of savers, calls    *)
(* and failures.                                                           *)
EXTENDS MongoEventStore, FiniteSetTheorems, TLAPS

USE BoundsAssumption

-----------------------------------------------------------------------------
(* The inductive invariant, one lemma per action.                          *)

LEMMA InitInv == Init => IInv
<1> SUFFICES ASSUME Init PROVE IInv
  OBVIOUS
<1> USE DEF Init
<1>0. DOMAIN streams = {}
  OBVIOUS
<1>1. TypeOK
  BY <1>0 DEF TypeOK, Ids, Numbers, Fresh, NoId
<1>2. IsFiniteSet(DOMAIN streams)
  BY <1>0, FS_EmptySet
<1>3. NumbersUnique
  BY DEF NumbersUnique
<1>4. Counted
  BY DEF Counted, Fresh
<1>5. ASSUME NEW s \in Savers PROVE Unused(s) /\ Later(s) /\ Told(s)
  BY DEF Unused, Later, Told, Sequenced, Versioned, Fresh
<1>6. ASSUME NEW s \in Savers, NEW t \in Savers PROVE Apart(s, t)
  BY DEF Apart, Sequenced, Versioned
<1> QED
  BY <1>1, <1>2, <1>3, <1>4, <1>5, <1>6 DEF IInv

LEMMA AddStream ==
  ASSUME TypeOK, IsFiniteSet(DOMAIN streams), NEW id \in Nat, NEW version \in Numbers
  PROVE  /\ DOMAIN Document(id, version) = DOMAIN streams \cup {id}
         /\ \A i \in DOMAIN Document(id, version) : i \in Ids /\ Document(id, version)[i] \in Numbers
         /\ IsFiniteSet(DOMAIN Document(id, version))
<1>1. DOMAIN Document(id, version) = DOMAIN streams \cup {id}
  BY DEF Document
<1>2. \A i \in DOMAIN Document(id, version) : i \in Ids /\ Document(id, version)[i] \in Numbers
  BY DEF Document, TypeOK, Ids
<1>3. IsFiniteSet(DOMAIN streams \cup {id})
  BY FS_AddElement
<1> QED
  BY <1>1, <1>2, <1>3

LEMMA SaveOneInv == ASSUME IInv, NEW s \in Savers, SaveOne(s) PROVE IInv'
<1>0. TypeOK /\ IsFiniteSet(DOMAIN streams) /\ NumbersUnique /\ Counted
  BY DEF IInv
<1>a. ASSUME NEW t \in Savers PROVE Unused(t) /\ Later(t) /\ Told(t)
  BY DEF IInv
<1>b. ASSUME NEW t \in Savers, NEW u \in Savers, t # u PROVE Apart(t, u)
  BY <1>b DEF IInv
<1> USE DEF SaveOne, Goto, Set, Fault, quiet, Fresh
<1>1. TypeOK'
  <2>1. DOMAIN streams' \subseteq Ids /\ \A id \in DOMAIN streams' : streams'[id] \in Numbers
    BY <1>0, <1>a DEF TypeOK, Numbers, Ids
  <2>2. counters' \in [all_events : Nat, type : Nat]
    BY <1>0, <1>a DEF TypeOK, Numbers, Ids
  <2>3. events' \subseteq [by : Savers, no : 0..MaxSaves, streamId : Ids, seqId : Numbers,
                     version : Numbers]
    BY <1>0, <1>a DEF TypeOK, Numbers, Ids
  <2>4. pc' \in [Savers -> {"idle", "find", "create", "sequence", "version", "event",
                      "stream", "return"}]
    BY <1>0, <1>a DEF TypeOK, Numbers, Ids
  <2>5. local' \in [Savers -> [streamId : Ids, globalseq : Numbers, nextver : Numbers, rc : 0..2]]
    BY <1>0 DEF TypeOK, Numbers, Ids, NoId
  <2>6. saves' \in [Savers -> 0..MaxSaves] /\ faults' \in 0..MaxFaults
    BY <1>0, <1>a DEF TypeOK, Numbers, Ids
  <2>7. completed' \in Nat /\ floor' \in [Savers -> Nat]
    BY <1>0, <1>a DEF TypeOK, Numbers, Ids
  <2> QED
    BY <2>1, <2>2, <2>3, <2>4, <2>5, <2>6, <2>7 DEF TypeOK
<1>2. IsFiniteSet(DOMAIN streams)'
  BY <1>0
<1>3. NumbersUnique'
  BY <1>0, <1>a DEF NumbersUnique, TypeOK, Unused, Sequenced, Versioned, Event
<1>4. Counted'
  BY <1>0 DEF Counted, TypeOK, Numbers, Event
<1>5. ASSUME NEW t \in Savers PROVE Unused(t)'
  BY <1>0, <1>a, <1>b DEF Unused, Apart, TypeOK, Sequenced, Versioned, Counted, Numbers, Event
<1>6. ASSUME NEW t \in Savers PROVE Later(t)'
  BY <1>0, <1>a DEF Later, TypeOK, Counted, Numbers
<1>7. ASSUME NEW t \in Savers PROVE Told(t)'
  BY <1>0, <1>a DEF Told, TypeOK, Event
<1>8. ASSUME NEW t \in Savers, NEW u \in Savers, t # u PROVE Apart(t, u)'
  BY <1>0, <1>a, <1>b, <1>8 DEF Apart, Unused, TypeOK, Sequenced, Versioned, Counted, Numbers
<1> QED
  BY <1>1, <1>2, <1>3, <1>4, <1>5, <1>6, <1>7, <1>8 DEF IInv

LEMMA GetUidInv == ASSUME IInv, NEW s \in Savers, getUid(s) PROVE IInv'
<1>0. TypeOK /\ IsFiniteSet(DOMAIN streams) /\ NumbersUnique /\ Counted
  BY DEF IInv
<1>a. ASSUME NEW t \in Savers PROVE Unused(t) /\ Later(t) /\ Told(t)
  BY DEF IInv
<1>b. ASSUME NEW t \in Savers, NEW u \in Savers, t # u PROVE Apart(t, u)
  BY <1>b DEF IInv
<1> USE DEF getUid, Goto, Set, Fault, quiet, Fresh
<1>p. pc[s] = "find"
  OBVIOUS
<1>c. /\ pc' \in {[pc EXCEPT ![s] = label] : label \in {"create", "sequence"}}
      /\ local' \in [Savers -> [streamId : Ids, globalseq : Numbers, nextver : Numbers, rc : 0..2]]
      /\ \A t \in Savers : /\ local'[t].globalseq = local[t].globalseq
                           /\ local'[t].nextver = local[t].nextver
                           /\ local'[t].rc = local[t].rc
                           /\ t # s => local'[t] = local[t]
      /\ UNCHANGED <<counters, events, saves, completed, floor>> /\ faults' \in 0..MaxFaults
  <2>0. local[s] \in [streamId : Ids, globalseq : Numbers, nextver : Numbers, rc : 0..2]
    BY <1>0 DEF TypeOK
  <2>1. CASE \E id \in DOMAIN streams : Set(s, "streamId", id)
                 /\ Goto(s, "sequence") /\ UNCHANGED faults
    <3>1. PICK id \in DOMAIN streams : Set(s, "streamId", id)
      BY <2>1
    <3>2. id \in Ids
      BY <1>0 DEF TypeOK
    <3>3. [local[s] EXCEPT !.streamId = id]
             \in [streamId : Ids, globalseq : Numbers, nextver : Numbers, rc : 0..2]
      BY <2>0, <3>2
    <3>4. local' = [local EXCEPT ![s] = [local[s] EXCEPT !.streamId = id]]
      BY <3>1
    <3> QED
      BY <1>0, <2>0, <2>1, <3>3, <3>4 DEF TypeOK
  <2>2. CASE UNCHANGED local /\ (Goto(s, "create") \/ Goto(s, "sequence")) 
             /\ (UNCHANGED faults \/ Fault)
    BY <1>0, <2>2 DEF TypeOK
  <2> QED
    BY <2>1, <2>2
<1>d. UNCHANGED streams
  OBVIOUS
<1> HIDE DEF getUid, Goto, Set, Fault, quiet
<1>1. TypeOK'
  <2>1. DOMAIN streams' \subseteq Ids /\ \A id \in DOMAIN streams' : streams'[id] \in Numbers
    BY <1>0, <1>a, <1>c, <1>d, <1>p DEF TypeOK, Numbers, Ids
  <2>2. counters' \in [all_events : Nat, type : Nat]
    BY <1>0, <1>a, <1>c, <1>d, <1>p DEF TypeOK, Numbers, Ids
  <2>3. events' \subseteq [by : Savers, no : 0..MaxSaves, streamId : Ids, seqId : Numbers,
                     version : Numbers]
    BY <1>0, <1>a, <1>c, <1>d, <1>p DEF TypeOK, Numbers, Ids
  <2>4. pc' \in [Savers -> {"idle", "find", "create", "sequence", "version", "event",
                      "stream", "return"}]
    BY <1>0, <1>a, <1>c, <1>d, <1>p DEF TypeOK, Numbers, Ids
  <2>5. local' \in [Savers -> [streamId : Ids, globalseq : Numbers, nextver : Numbers, rc : 0..2]]
    BY <1>0, <1>a, <1>c, <1>d, <1>p DEF TypeOK, Numbers, Ids
  <2>6. saves' \in [Savers -> 0..MaxSaves] /\ faults' \in 0..MaxFaults
    BY <1>0, <1>a, <1>c, <1>d, <1>p DEF TypeOK, Numbers, Ids
  <2>7. completed' \in Nat /\ floor' \in [Savers -> Nat]
    BY <1>0, <1>a, <1>c, <1>d, <1>p DEF TypeOK, Numbers, Ids
  <2> QED
    BY <2>1, <2>2, <2>3, <2>4, <2>5, <2>6, <2>7 DEF TypeOK
<1>2. IsFiniteSet(DOMAIN streams)'
  BY <1>0, <1>c, <1>d, <1>p
<1>3. NumbersUnique'
  BY <1>0, <1>a, <1>c, <1>d, <1>p DEF NumbersUnique, TypeOK, Unused, Sequenced, Versioned, Event
<1>4. Counted'
  BY <1>0, <1>c, <1>d, <1>p DEF Counted, TypeOK, Numbers, Event
<1>5. ASSUME NEW t \in Savers PROVE Unused(t)'
  BY <1>0, <1>a, <1>b, <1>c, <1>d, <1>p DEF Unused, Apart, TypeOK, Sequenced, Versioned, Counted, Numbers, Event
<1>6. ASSUME NEW t \in Savers PROVE Later(t)'
  BY <1>0, <1>a, <1>c, <1>d, <1>p DEF Later, TypeOK, Counted, Numbers
<1>7. ASSUME NEW t \in Savers PROVE Told(t)'
  <2>1. UNCHANGED <<events, saves>> /\ DOMAIN streams \subseteq DOMAIN streams'
    BY <1>c, <1>d
  <2>2. CASE t # s
    <3>1. local'[t] = local[t] /\ pc'[t] = pc[t]
      BY <1>0, <1>c, <1>d, <2>2 DEF TypeOK
    <3>2. Event(t)' = Event(t)
      BY <2>1, <3>1 DEF Event
    <3> QED
      BY <1>a, <2>1, <3>1, <3>2 DEF Told
  <2>3. CASE t = s
    <3>1. pc'[s] \in {"create", "sequence"} /\ local[s].rc = 0 /\ local'[s].rc = local[s].rc
      BY <1>0, <1>c, <1>d, <1>p, <1>a DEF TypeOK, Told
    <3> QED
      BY <2>3, <3>1 DEF Told
  <2> QED
    BY <2>2, <2>3
<1>8. ASSUME NEW t \in Savers, NEW u \in Savers, t # u PROVE Apart(t, u)'
  BY <1>0, <1>a, <1>b, <1>c, <1>d, <1>p, <1>8 DEF Apart, Unused, TypeOK, Sequenced, Versioned, Counted, Numbers
<1> QED
  BY <1>1, <1>2, <1>3, <1>4, <1>5, <1>6, <1>7, <1>8 DEF IInv

LEMMA CreateUidInv == ASSUME IInv, NEW s \in Savers, createUid(s) PROVE IInv'
<1>0. TypeOK /\ IsFiniteSet(DOMAIN streams) /\ NumbersUnique /\ Counted
  BY DEF IInv
<1>a. ASSUME NEW t \in Savers PROVE Unused(t) /\ Later(t) /\ Told(t)
  BY DEF IInv
<1>b. ASSUME NEW t \in Savers, NEW u \in Savers, t # u PROVE Apart(t, u)
  BY <1>b DEF IInv
<1> USE DEF createUid, Goto, Set, Fault, quiet, Fresh
<1>p. pc[s] = "create"
  OBVIOUS
<1> DEFINE id == Cardinality(DOMAIN streams \cup {NoId})
<1>i. id \in Nat
  BY <1>0, FS_AddElement, FS_CardinalityType
<1>v. NoSnapshot \in Numbers
  BY DEF NoSnapshot, Numbers
<1>d. streams' = streams \/ streams' = Document(id, NoSnapshot)
  OBVIOUS
<1> HIDE DEF id
<1>g. /\ DOMAIN Document(id, NoSnapshot) = DOMAIN streams \cup {id}
      /\ \A i \in DOMAIN Document(id, NoSnapshot) :
            i \in Ids /\ Document(id, NoSnapshot)[i] \in Numbers
      /\ IsFiniteSet(DOMAIN Document(id, NoSnapshot))
  BY <1>0, <1>i, <1>v, AddStream
<1>e. /\ DOMAIN streams \subseteq DOMAIN streams'
      /\ \A i \in DOMAIN streams' : i \in Ids /\ streams'[i] \in Numbers
      /\ IsFiniteSet(DOMAIN streams')
  <2>1. CASE streams' = streams
    BY <1>0, <2>1 DEF TypeOK
  <2>2. CASE streams' = Document(id, NoSnapshot)
    BY <1>g, <2>2
  <2> QED
    BY <1>d, <2>1, <2>2
<1>c. /\ pc' \in {[pc EXCEPT ![s] = label] : label \in {"sequence"}}
      /\ local' \in [Savers -> [streamId : Ids, globalseq : Numbers, nextver : Numbers, rc : 0..2]]
      /\ \A t \in Savers : /\ local'[t].globalseq = local[t].globalseq
                           /\ local'[t].nextver = local[t].nextver
                           /\ local'[t].rc = local[t].rc
                           /\ t # s => local'[t] = local[t]
      /\ UNCHANGED <<counters, events, saves, completed, floor>> /\ faults' \in 0..MaxFaults
  <2>0. local[s] \in [streamId : Ids, globalseq : Numbers, nextver : Numbers, rc : 0..2]
    BY <1>0 DEF TypeOK
  <2>1. CASE Set(s, "streamId", id) /\ UNCHANGED faults
    <3>1. [local[s] EXCEPT !.streamId = id]
             \in [streamId : Ids, globalseq : Numbers, nextver : Numbers, rc : 0..2]
      BY <2>0, <1>i DEF Ids
    <3>2. local' = [local EXCEPT ![s] = [local[s] EXCEPT !.streamId = id]]
      BY <2>1
    <3> QED
      BY <1>0, <2>0, <2>1, <3>1, <3>2 DEF TypeOK
  <2>2. CASE UNCHANGED local /\ Fault
    BY <1>0, <2>2 DEF TypeOK
  <2> QED
    BY <2>1, <2>2 DEF id
<1> HIDE DEF createUid, Goto, Set, Fault, quiet
<1>1. TypeOK'
  <2>1. DOMAIN streams' \subseteq Ids /\ \A i \in DOMAIN streams' : streams'[i] \in Numbers
    BY <1>0, <1>a, <1>c, <1>e, <1>p DEF TypeOK, Numbers, Ids
  <2>2. counters' \in [all_events : Nat, type : Nat]
    BY <1>0, <1>a, <1>c, <1>e, <1>p DEF TypeOK, Numbers, Ids
  <2>3. events' \subseteq [by : Savers, no : 0..MaxSaves, streamId : Ids, seqId : Numbers,
                     version : Numbers]
    BY <1>0, <1>a, <1>c, <1>e, <1>p DEF TypeOK, Numbers, Ids
  <2>4. pc' \in [Savers -> {"idle", "find", "create", "sequence", "version", "event",
                      "stream", "return"}]
    BY <1>0, <1>a, <1>c, <1>e, <1>p DEF TypeOK, Numbers, Ids
  <2>5. local' \in [Savers -> [streamId : Ids, globalseq : Numbers, nextver : Numbers, rc : 0..2]]
    BY <1>0, <1>a, <1>c, <1>e, <1>p DEF TypeOK, Numbers, Ids
  <2>6. saves' \in [Savers -> 0..MaxSaves] /\ faults' \in 0..MaxFaults
    BY <1>0, <1>a, <1>c, <1>e, <1>p DEF TypeOK, Numbers, Ids
  <2>7. completed' \in Nat /\ floor' \in [Savers -> Nat]
    BY <1>0, <1>a, <1>c, <1>e, <1>p DEF TypeOK, Numbers, Ids
  <2> QED
    BY <2>1, <2>2, <2>3, <2>4, <2>5, <2>6, <2>7 DEF TypeOK
<1>2. IsFiniteSet(DOMAIN streams)'
  BY <1>0, <1>c, <1>e, <1>p
<1>3. NumbersUnique'
  BY <1>0, <1>a, <1>c, <1>e, <1>p DEF NumbersUnique, TypeOK, Unused, Sequenced, Versioned, Event
<1>4. Counted'
  BY <1>0, <1>c, <1>e, <1>p DEF Counted, TypeOK, Numbers, Event
<1>5. ASSUME NEW t \in Savers PROVE Unused(t)'
  BY <1>0, <1>a, <1>b, <1>c, <1>e, <1>p DEF Unused, Apart, TypeOK, Sequenced, Versioned, Counted, Numbers, Event
<1>6. ASSUME NEW t \in Savers PROVE Later(t)'
  BY <1>0, <1>a, <1>c, <1>e, <1>p DEF Later, TypeOK, Counted, Numbers
<1>7. ASSUME NEW t \in Savers PROVE Told(t)'
  <2>1. UNCHANGED <<events, saves>> /\ DOMAIN streams \subseteq DOMAIN streams'
    BY <1>c, <1>e
  <2>2. CASE t # s
    <3>1. local'[t] = local[t] /\ pc'[t] = pc[t]
      BY <1>0, <1>c, <1>e, <2>2 DEF TypeOK
    <3>2. Event(t)' = Event(t)
      BY <2>1, <3>1 DEF Event
    <3> QED
      BY <1>a, <2>1, <3>1, <3>2 DEF Told
  <2>3. CASE t = s
    <3>1. pc'[s] \in {"sequence"} /\ local[s].rc = 0 /\ local'[s].rc = local[s].rc
      BY <1>0, <1>c, <1>e, <1>p, <1>a DEF TypeOK, Told
    <3> QED
      BY <2>3, <3>1 DEF Told
  <2> QED
    BY <2>2, <2>3
<1>8. ASSUME NEW t \in Savers, NEW u \in Savers, t # u PROVE Apart(t, u)'
  BY <1>0, <1>a, <1>b, <1>8, <1>c, <1>e, <1>p DEF Apart, Unused, TypeOK, Sequenced, Versioned, Counted, Numbers
<1> QED
  BY <1>1, <1>2, <1>3, <1>4, <1>5, <1>6, <1>7, <1>8 DEF IInv

LEMMA NextSequenceInv == ASSUME IInv, NEW s \in Savers, NextSequence(s) PROVE IInv'
<1>0. TypeOK /\ IsFiniteSet(DOMAIN streams) /\ NumbersUnique /\ Counted
  BY DEF IInv
<1>a. ASSUME NEW t \in Savers PROVE Unused(t) /\ Later(t) /\ Told(t)
  BY DEF IInv
<1>b. ASSUME NEW t \in Savers, NEW u \in Savers, t # u PROVE Apart(t, u)
  BY <1>b DEF IInv
<1> USE DEF NextSequence, getNextSequenceValue, Goto, Set, Fault, quiet, Fresh
<1>1. TypeOK'
  BY <1>0, <1>a DEF TypeOK, Numbers, Ids, Event
<1>2. IsFiniteSet(DOMAIN streams)'
  BY <1>0
<1>3. NumbersUnique'
  BY <1>0, <1>a DEF NumbersUnique, TypeOK, Unused, Sequenced, Versioned, Event
<1>c. /\ counters.all_events <= counters'.all_events /\ counters'.type = counters.type
      /\ \A t \in Savers : /\ local'[t].globalseq \in {local[t].globalseq, counters'.all_events}
                           /\ local'[t].nextver = local[t].nextver
      /\ UNCHANGED <<events, completed, floor>>
      /\ counters.all_events \in Nat /\ counters'.all_events \in Nat
  BY <1>0 DEF TypeOK
<1>4. Counted'
  <2>1. \A e \in events : e.seqId \in Int
    BY <1>0 DEF TypeOK, Numbers
  <2>2. \A t \in Savers : local[t].globalseq \in Int /\ local'[t].globalseq \in Int
    BY <1>0, <1>c DEF TypeOK, Numbers
  <2> HIDE DEF NextSequence, getNextSequenceValue, Goto, Set, Fault
  <2> QED
    BY <1>0, <1>c, <2>1, <2>2 DEF Counted
<1>5. ASSUME NEW t \in Savers PROVE Unused(t)'
  BY <1>0, <1>a, <1>b DEF Unused, Apart, TypeOK, Sequenced, Versioned, Counted, Numbers, Event
<1>6. ASSUME NEW t \in Savers PROVE Later(t)'
  BY <1>0, <1>a DEF Later, TypeOK, Counted, Numbers
<1>7. ASSUME NEW t \in Savers PROVE Told(t)'
  <2>1. UNCHANGED <<events, saves>> /\ DOMAIN streams \subseteq DOMAIN streams'
    BY <1>0
  <2>2. CASE t # s
    <3>1. local'[t] = local[t] /\ pc'[t] = pc[t]
      BY <1>0, <2>2 DEF TypeOK
    <3>2. Event(t)' = Event(t)
      BY <2>1, <3>1 DEF Event
    <3> QED
      BY <1>a, <2>1, <3>1, <3>2 DEF Told
  <2>3. CASE t = s
    <3>1. pc'[s] \in {"version"} /\ local[s].rc = 0 /\ local'[s].rc = local[s].rc
      BY <1>0, <1>a DEF TypeOK, Told
    <3> QED
      BY <2>3, <3>1 DEF Told
  <2> QED
    BY <2>2, <2>3
<1>8. ASSUME NEW t \in Savers, NEW u \in Savers, t # u PROVE Apart(t, u)'
  BY <1>0, <1>a, <1>b, <1>8 DEF Apart, Unused, TypeOK, Sequenced, Versioned, Counted, Numbers
<1> QED
  BY <1>1, <1>2, <1>3, <1>4, <1>5, <1>6, <1>7, <1>8 DEF IInv

LEMMA NextVersionInv == ASSUME IInv, NEW s \in Savers, NextVersion(s) PROVE IInv'
<1>0. TypeOK /\ IsFiniteSet(DOMAIN streams) /\ NumbersUnique /\ Counted
  BY DEF IInv
<1>a. ASSUME NEW t \in Savers PROVE Unused(t) /\ Later(t) /\ Told(t)
  BY DEF IInv
<1>b. ASSUME NEW t \in Savers, NEW u \in Savers, t # u PROVE Apart(t, u)
  BY <1>b DEF IInv
<1> USE DEF NextVersion, getNextSequenceValue, Goto, Set, Fault, quiet, Fresh
<1>1. TypeOK'
  BY <1>0, <1>a DEF TypeOK, Numbers, Ids, Event
<1>2. IsFiniteSet(DOMAIN streams)'
  BY <1>0
<1>3. NumbersUnique'
  BY <1>0, <1>a DEF NumbersUnique, TypeOK, Unused, Sequenced, Versioned, Event
<1>c. /\ counters.type <= counters'.type /\ counters'.all_events = counters.all_events
      /\ \A t \in Savers : /\ local'[t].nextver \in {local[t].nextver, counters'.type}
                           /\ local'[t].globalseq = local[t].globalseq
      /\ UNCHANGED <<events, completed, floor>>
      /\ counters.type \in Nat /\ counters'.type \in Nat
  BY <1>0 DEF TypeOK
<1>4. Counted'
  <2>1. (\A e \in events : e.version \in Int) /\ completed \in Int
    BY <1>0 DEF TypeOK, Numbers
  <2>2. \A t \in Savers : local[t].nextver \in Int /\ local'[t].nextver \in Int
    BY <1>0, <1>c DEF TypeOK, Numbers
  <2> HIDE DEF NextVersion, getNextSequenceValue, Goto, Set, Fault
  <2> QED
    BY <1>0, <1>c, <2>1, <2>2 DEF Counted
<1>5. ASSUME NEW t \in Savers PROVE Unused(t)'
  BY <1>0, <1>a, <1>b DEF Unused, Apart, TypeOK, Sequenced, Versioned, Counted, Numbers, Event
<1>6. ASSUME NEW t \in Savers PROVE Later(t)'
  <2>1. floor[t] <= completed /\ completed <= counters.type
        /\ floor[t] \in Int /\ completed \in Int /\ counters.type \in Int
    BY <1>0 DEF Counted, TypeOK
  <2>2. CASE t = s
    <3>1. local[s].nextver = -1
      BY <1>a DEF Unused
    <3>2. local'[s].nextver = -1 \/ local'[s].nextver = counters.type + 1
      BY <1>0, <3>1 DEF TypeOK
    <3>3. floor' = floor
      OBVIOUS
    <3> HIDE DEF NextVersion, getNextSequenceValue, Goto, Set, Fault
    <3> QED
      BY <2>1, <2>2, <3>2, <3>3 DEF Later
  <2>3. CASE t # s
    BY <1>0, <1>a, <2>3 DEF Later, TypeOK
  <2> QED
    BY <2>2, <2>3
<1>7. ASSUME NEW t \in Savers PROVE Told(t)'
  <2>1. UNCHANGED <<events, saves>> /\ DOMAIN streams \subseteq DOMAIN streams'
    BY <1>0
  <2>2. CASE t # s
    <3>1. local'[t] = local[t] /\ pc'[t] = pc[t]
      BY <1>0, <2>2 DEF TypeOK
    <3>2. Event(t)' = Event(t)
      BY <2>1, <3>1 DEF Event
    <3> QED
      BY <1>a, <2>1, <3>1, <3>2 DEF Told
  <2>3. CASE t = s
    <3>1. pc'[s] \in {"event"} /\ local[s].rc = 0 /\ local'[s].rc = local[s].rc
      BY <1>0, <1>a DEF TypeOK, Told
    <3> QED
      BY <2>3, <3>1 DEF Told
  <2> QED
    BY <2>2, <2>3
<1>8. ASSUME NEW t \in Savers, NEW u \in Savers, t # u PROVE Apart(t, u)'
  BY <1>0, <1>a, <1>b, <1>8 DEF Apart, Unused, TypeOK, Sequenced, Versioned, Counted, Numbers
<1> QED
  BY <1>1, <1>2, <1>3, <1>4, <1>5, <1>6, <1>7, <1>8 DEF IInv

LEMMA SaveOneEventInv == ASSUME IInv, NEW s \in Savers, saveOneEvent(s) PROVE IInv'
<1>0. TypeOK /\ IsFiniteSet(DOMAIN streams) /\ NumbersUnique /\ Counted
  BY DEF IInv
<1>a. ASSUME NEW t \in Savers PROVE Unused(t) /\ Later(t) /\ Told(t)
  BY DEF IInv
<1>b. ASSUME NEW t \in Savers, NEW u \in Savers, t # u PROVE Apart(t, u)
  BY <1>b DEF IInv
<1> USE DEF saveOneEvent, Goto, Set, Fault, quiet, Fresh
<1>p. pc[s] = "event" /\ pc' = [pc EXCEPT ![s] = "stream"]
  OBVIOUS
<1>q. local[s] \in [streamId : Ids, globalseq : Numbers, nextver : Numbers, rc : 0..2]
  BY <1>0 DEF TypeOK
<1>r. /\ local' \in [Savers -> [streamId : Ids, globalseq : Numbers, nextver : Numbers, rc : 0..2]]
      /\ \A t \in Savers : /\ local'[t].streamId = local[t].streamId
                           /\ local'[t].globalseq = local[t].globalseq
                           /\ local'[t].nextver = local[t].nextver
                           /\ t # s => local'[t] = local[t]
      /\ faults' \in 0..MaxFaults
  <2>1. CASE Set(s, "rc", local[s].rc + 1) /\ UNCHANGED faults
    <3>1. [local[s] EXCEPT !.rc = local[s].rc + 1]
             \in [streamId : Ids, globalseq : Numbers, nextver : Numbers, rc : 0..2]
      BY <1>a, <1>p, <1>q DEF Told
    <3>2. local' = [local EXCEPT ![s] = [local[s] EXCEPT !.rc = local[s].rc + 1]]
      BY <2>1
    <3> QED
      BY <1>0, <1>q, <2>1, <3>1, <3>2 DEF TypeOK
  <2>2. CASE UNCHANGED local /\ Fault
    BY <1>0, <2>2 DEF TypeOK
  <2> QED
    BY <2>1, <2>2
<1>e. /\ events' = events \/ events' = events \cup {Event(s)}
      /\ local'[s].rc = local[s].rc \/ (local'[s].rc = local[s].rc + 1 /\ Event(s) \in events')
      /\ UNCHANGED <<streams, counters, saves, completed, floor>>
  BY <1>0 DEF TypeOK
<1>f. Event(s) \in [by : Savers, no : 0..MaxSaves, streamId : Ids, seqId : Numbers,
                     version : Numbers]
  BY <1>0, <1>q DEF TypeOK, Event
<1> HIDE DEF saveOneEvent, Goto, Set, Fault, quiet
<1>1. TypeOK'
  <2>1. DOMAIN streams' \subseteq Ids /\ \A id \in DOMAIN streams' : streams'[id] \in Numbers
    BY <1>0, <1>a, <1>e, <1>f, <1>p, <1>q, <1>r DEF TypeOK, Numbers, Ids
  <2>2. counters' \in [all_events : Nat, type : Nat]
    BY <1>0, <1>a, <1>e, <1>f, <1>p, <1>q, <1>r DEF TypeOK, Numbers, Ids
  <2>3. events' \subseteq [by : Savers, no : 0..MaxSaves, streamId : Ids, seqId : Numbers,
                     version : Numbers]
    BY <1>0, <1>a, <1>e, <1>f, <1>p, <1>q, <1>r DEF TypeOK, Numbers, Ids
  <2>4. pc' \in [Savers -> {"idle", "find", "create", "sequence", "version", "event",
                      "stream", "return"}]
    BY <1>0, <1>a, <1>e, <1>f, <1>p, <1>q, <1>r DEF TypeOK, Numbers, Ids
  <2>5. local' \in [Savers -> [streamId : Ids, globalseq : Numbers, nextver : Numbers, rc : 0..2]]
    BY <1>0, <1>a, <1>e, <1>f, <1>p, <1>q, <1>r DEF TypeOK, Numbers, Ids
  <2>6. saves' \in [Savers -> 0..MaxSaves] /\ faults' \in 0..MaxFaults
    BY <1>0, <1>a, <1>e, <1>f, <1>p, <1>q, <1>r DEF TypeOK, Numbers, Ids
  <2>7. completed' \in Nat /\ floor' \in [Savers -> Nat]
    BY <1>0, <1>a, <1>e, <1>f, <1>p, <1>q, <1>r DEF TypeOK, Numbers, Ids
  <2> QED
    BY <2>1, <2>2, <2>3, <2>4, <2>5, <2>6, <2>7 DEF TypeOK
<1>2. IsFiniteSet(DOMAIN streams)'
  BY <1>0, <1>e, <1>f, <1>p, <1>q, <1>r
<1>3. NumbersUnique'
  <2>1. Event(s).version = local[s].nextver /\ Event(s).seqId = local[s].globalseq
    BY DEF Event
  <2>2. \A e \in events : /\ e.version = Event(s).version => e.version = -1
                          /\ e.seqId = Event(s).seqId => e.seqId = -1
    BY <1>a, <1>p, <2>1 DEF Unused, Sequenced, Versioned
  <2> QED
    BY <1>0, <1>e, <2>2 DEF NumbersUnique
<1>4. Counted'
  BY <1>0, <1>e, <1>f, <1>p, <1>q, <1>r DEF Counted, TypeOK, Numbers, Event
<1>5. ASSUME NEW t \in Savers PROVE Unused(t)'
  BY <1>0, <1>a, <1>b, <1>e, <1>f, <1>p, <1>q, <1>r DEF Unused, Apart, TypeOK, Sequenced, Versioned, Counted, Numbers, Event
<1>6. ASSUME NEW t \in Savers PROVE Later(t)'
  BY <1>0, <1>a, <1>e, <1>f, <1>p, <1>q, <1>r DEF Later, TypeOK, Counted, Numbers
<1>7. ASSUME NEW t \in Savers PROVE Told(t)'
  BY <1>0, <1>a, <1>e, <1>f, <1>p, <1>q, <1>r DEF Told, TypeOK, Event
<1>8. ASSUME NEW t \in Savers, NEW u \in Savers, t # u PROVE Apart(t, u)'
  BY <1>0, <1>a, <1>b, <1>8, <1>e, <1>f, <1>p, <1>q, <1>r DEF Apart, Unused, TypeOK, Sequenced, Versioned, Counted, Numbers
<1> QED
  BY <1>1, <1>2, <1>3, <1>4, <1>5, <1>6, <1>7, <1>8 DEF IInv

LEMMA SaveOneEventStreamInv == ASSUME IInv, NEW s \in Savers, saveOneEventStream(s) PROVE IInv'
<1>0. TypeOK /\ IsFiniteSet(DOMAIN streams) /\ NumbersUnique /\ Counted
  BY DEF IInv
<1>a. ASSUME NEW t \in Savers PROVE Unused(t) /\ Later(t) /\ Told(t)
  BY DEF IInv
<1>b. ASSUME NEW t \in Savers, NEW u \in Savers, t # u PROVE Apart(t, u)
  BY <1>b DEF IInv
<1> USE DEF saveOneEventStream, Goto, Set, Fault, quiet, Fresh
<1>p. pc[s] = "stream" /\ pc' = [pc EXCEPT ![s] = "return"]
  OBVIOUS
<1>q. local[s] \in [streamId : Ids, globalseq : Numbers, nextver : Numbers, rc : 0..2]
  BY <1>0 DEF TypeOK
<1>r. /\ local' \in [Savers -> [streamId : Ids, globalseq : Numbers, nextver : Numbers, rc : 0..2]]
      /\ \A t \in Savers : /\ local'[t].streamId = local[t].streamId
                           /\ local'[t].globalseq = local[t].globalseq
                           /\ local'[t].nextver = local[t].nextver
                           /\ t # s => local'[t] = local[t]
      /\ faults' \in 0..MaxFaults
  <2>1. CASE Set(s, "rc", local[s].rc + 1) /\ UNCHANGED faults
    <3>1. [local[s] EXCEPT !.rc = local[s].rc + 1]
             \in [streamId : Ids, globalseq : Numbers, nextver : Numbers, rc : 0..2]
      BY <1>a, <1>p, <1>q DEF Told
    <3>2. local' = [local EXCEPT ![s] = [local[s] EXCEPT !.rc = local[s].rc + 1]]
      BY <2>1
    <3> QED
      BY <1>0, <1>q, <2>1, <3>1, <3>2 DEF TypeOK
  <2>2. CASE UNCHANGED local /\ Fault
    BY <1>0, <2>2 DEF TypeOK
  <2> QED
    BY <2>1, <2>2
<1> DEFINE after == Document(local[s].streamId, local[s].nextver)
<1>d. /\ streams' = streams \/ streams' = after
      /\ local'[s].rc = local[s].rc \/ (local'[s].rc = local[s].rc + 1 /\ streams' = after)
      /\ UNCHANGED <<events, counters, saves, completed, floor>>
  BY <1>0 DEF TypeOK
<1>g. /\ DOMAIN after = DOMAIN streams \cup {local[s].streamId}
      /\ \A i \in DOMAIN after : i \in Ids /\ after[i] \in Numbers
      /\ IsFiniteSet(DOMAIN after)
  BY <1>0, <1>q, AddStream DEF Ids
<1>e. /\ DOMAIN streams \subseteq DOMAIN streams'
      /\ \A i \in DOMAIN streams' : i \in Ids /\ streams'[i] \in Numbers
      /\ IsFiniteSet(DOMAIN streams')
      /\ local'[s].rc = local[s].rc
           \/ (local'[s].rc = local[s].rc + 1 /\ local[s].streamId \in DOMAIN streams')
  <2> HIDE DEF after
  <2> QED
    BY <1>0, <1>d, <1>g DEF TypeOK
<1>f. UNCHANGED <<events, counters, saves, completed, floor>>
  BY <1>d
<1> HIDE DEF after, saveOneEventStream, Goto, Set, Fault, quiet
<1>1. TypeOK'
  <2>1. DOMAIN streams' \subseteq Ids /\ \A id \in DOMAIN streams' : streams'[id] \in Numbers
    BY <1>0, <1>a, <1>e, <1>f, <1>p, <1>q, <1>r DEF TypeOK, Numbers, Ids
  <2>2. counters' \in [all_events : Nat, type : Nat]
    BY <1>0, <1>a, <1>e, <1>f, <1>p, <1>q, <1>r DEF TypeOK, Numbers, Ids
  <2>3. events' \subseteq [by : Savers, no : 0..MaxSaves, streamId : Ids, seqId : Numbers,
                     version : Numbers]
    BY <1>0, <1>a, <1>e, <1>f, <1>p, <1>q, <1>r DEF TypeOK, Numbers, Ids
  <2>4. pc' \in [Savers -> {"idle", "find", "create", "sequence", "version", "event",
                      "stream", "return"}]
    BY <1>0, <1>a, <1>e, <1>f, <1>p, <1>q, <1>r DEF TypeOK, Numbers, Ids
  <2>5. local' \in [Savers -> [streamId : Ids, globalseq : Numbers, nextver : Numbers, rc : 0..2]]
    BY <1>0, <1>a, <1>e, <1>f, <1>p, <1>q, <1>r DEF TypeOK, Numbers, Ids
  <2>6. saves' \in [Savers -> 0..MaxSaves] /\ faults' \in 0..MaxFaults
    BY <1>0, <1>a, <1>e, <1>f, <1>p, <1>q, <1>r DEF TypeOK, Numbers, Ids
  <2>7. completed' \in Nat /\ floor' \in [Savers -> Nat]
    BY <1>0, <1>a, <1>e, <1>f, <1>p, <1>q, <1>r DEF TypeOK, Numbers, Ids
  <2> QED
    BY <2>1, <2>2, <2>3, <2>4, <2>5, <2>6, <2>7 DEF TypeOK
<1>2. IsFiniteSet(DOMAIN streams)'
  BY <1>0, <1>e, <1>f, <1>p, <1>q, <1>r
<1>3. NumbersUnique'
  BY <1>0, <1>a, <1>e, <1>f, <1>p, <1>q, <1>r DEF NumbersUnique, TypeOK, Unused, Sequenced, Versioned, Event
<1>4. Counted'
  BY <1>0, <1>e, <1>f, <1>p, <1>q, <1>r DEF Counted, TypeOK, Numbers, Event
<1>5. ASSUME NEW t \in Savers PROVE Unused(t)'
  BY <1>0, <1>a, <1>b, <1>e, <1>f, <1>p, <1>q, <1>r DEF Unused, Apart, TypeOK, Sequenced, Versioned, Counted, Numbers, Event
<1>6. ASSUME NEW t \in Savers PROVE Later(t)'
  BY <1>0, <1>a, <1>e, <1>f, <1>p, <1>q, <1>r DEF Later, TypeOK, Counted, Numbers
<1>7. ASSUME NEW t \in Savers PROVE Told(t)'
  BY <1>0, <1>a, <1>e, <1>f, <1>p, <1>q, <1>r DEF Told, TypeOK, Event
<1>8. ASSUME NEW t \in Savers, NEW u \in Savers, t # u PROVE Apart(t, u)'
  BY <1>0, <1>a, <1>b, <1>8, <1>e, <1>f, <1>p, <1>q, <1>r DEF Apart, Unused, TypeOK, Sequenced, Versioned, Counted, Numbers
<1> QED
  BY <1>1, <1>2, <1>3, <1>4, <1>5, <1>6, <1>7, <1>8 DEF IInv

LEMMA ReturnInv == ASSUME IInv, NEW s \in Savers, Return(s) PROVE IInv'
<1>0. TypeOK /\ IsFiniteSet(DOMAIN streams) /\ NumbersUnique /\ Counted
  BY DEF IInv
<1>a. ASSUME NEW t \in Savers PROVE Unused(t) /\ Later(t) /\ Told(t)
  BY DEF IInv
<1>b. ASSUME NEW t \in Savers, NEW u \in Savers, t # u PROVE Apart(t, u)
  BY <1>b DEF IInv
<1> USE DEF Return, Goto, Set, Fault, quiet, Fresh
<1>1. TypeOK'
  BY <1>0, <1>a DEF TypeOK, Numbers, Ids, Event
<1>2. IsFiniteSet(DOMAIN streams)'
  BY <1>0
<1>3. NumbersUnique'
  BY <1>0, <1>a DEF NumbersUnique, TypeOK, Unused, Sequenced, Versioned, Event
<1>4. Counted'
  BY <1>0 DEF Counted, TypeOK, Numbers, Event
<1>5. ASSUME NEW t \in Savers PROVE Unused(t)'
  BY <1>0, <1>a, <1>b DEF Unused, Apart, TypeOK, Sequenced, Versioned, Counted, Numbers, Event
<1>6. ASSUME NEW t \in Savers PROVE Later(t)'
  BY <1>0, <1>a DEF Later, TypeOK, Counted, Numbers
<1>7. ASSUME NEW t \in Savers PROVE Told(t)'
  BY <1>0, <1>a DEF Told, TypeOK, Event
<1>8. ASSUME NEW t \in Savers, NEW u \in Savers, t # u PROVE Apart(t, u)'
  BY <1>0, <1>a, <1>b, <1>8 DEF Apart, Unused, TypeOK, Sequenced, Versioned, Counted, Numbers
<1> QED
  BY <1>1, <1>2, <1>3, <1>4, <1>5, <1>6, <1>7, <1>8 DEF IInv

LEMMA NoClientInv == ASSUME IInv, NEW s \in Savers, NoClient(s) PROVE IInv'
<1>0. TypeOK /\ IsFiniteSet(DOMAIN streams) /\ NumbersUnique /\ Counted
  BY DEF IInv
<1>a. ASSUME NEW t \in Savers PROVE Unused(t) /\ Later(t) /\ Told(t)
  BY DEF IInv
<1>b. ASSUME NEW t \in Savers, NEW u \in Savers, t # u PROVE Apart(t, u)
  BY <1>b DEF IInv
<1> USE DEF NoClient, Goto, Set, Fault, quiet, Fresh
<1>1. TypeOK'
  BY <1>0, <1>a DEF TypeOK, Numbers, Ids, Event
<1>2. IsFiniteSet(DOMAIN streams)'
  BY <1>0
<1>3. NumbersUnique'
  BY <1>0, <1>a DEF NumbersUnique, TypeOK, Unused, Sequenced, Versioned, Event
<1>4. Counted'
  BY <1>0 DEF Counted, TypeOK, Numbers, Event
<1>5. ASSUME NEW t \in Savers PROVE Unused(t)'
  BY <1>0, <1>a, <1>b DEF Unused, Apart, TypeOK, Sequenced, Versioned, Counted, Numbers, Event
<1>6. ASSUME NEW t \in Savers PROVE Later(t)'
  BY <1>0, <1>a DEF Later, TypeOK, Counted, Numbers
<1>7. ASSUME NEW t \in Savers PROVE Told(t)'
  BY <1>0, <1>a DEF Told, TypeOK, Event
<1>8. ASSUME NEW t \in Savers, NEW u \in Savers, t # u PROVE Apart(t, u)'
  BY <1>0, <1>a, <1>b, <1>8 DEF Apart, Unused, TypeOK, Sequenced, Versioned, Counted, Numbers
<1> QED
  BY <1>1, <1>2, <1>3, <1>4, <1>5, <1>6, <1>7, <1>8 DEF IInv

LEMMA StutterInv == IInv /\ UNCHANGED vars => IInv'
BY DEF IInv, TypeOK, NumbersUnique, Counted, Unused, Sequenced, Versioned, Apart, Later, Told,
       Event, vars

LEMMA StepInv == IInv /\ [Next]_vars => IInv'
<1> SUFFICES ASSUME IInv, [Next]_vars PROVE IInv'
  OBVIOUS
<1>1. CASE UNCHANGED vars
  BY <1>1, StutterInv
<1>2. ASSUME NEW s \in Savers, SaveOne(s) \/ Step(s) \/ NoClient(s) PROVE IInv'
  BY <1>2, SaveOneInv, GetUidInv, CreateUidInv, NextSequenceInv, NextVersionInv, SaveOneEventInv,
     SaveOneEventStreamInv, ReturnInv, NoClientInv DEF Step
<1> QED
  BY <1>1, <1>2 DEF Next

-----------------------------------------------------------------------------
(* Type correctness of every reachable state.                              *)
THEOREM TypeCorrect == Spec => []TypeOK
<1>1. IInv => TypeOK
  BY DEF IInv
<1> QED
  BY <1>1, InitInv, StepInv, PTL DEF Spec

(* No two events have the same version or the same global number (unless   *)
(* it could not be drawn), whatever getNextSequenceValue interleaves with. *)
THEOREM EventsNumberedApart == Spec => []NumbersUnique
<1>1. IInv => NumbersUnique
  BY DEF IInv
<1> QED
  BY <1>1, InitInv, StepInv, PTL DEF Spec

(* SaveOne returns 2 only for an event that is stored, in a stream that is *)
(* there: a failure of any of its calls shows in what it returns.          *)
THEOREM TwoIsTruthful == Spec => []TwoMeansStored
<1>1. IInv => TwoMeansStored
  <2> SUFFICES ASSUME IInv, NEW s \in Savers, pc[s] = "return", local[s].rc = 2
               PROVE  \E e \in events : /\ e.by = s /\ e.no = saves[s]
                                        /\ e.streamId \in DOMAIN streams
                                        /\ e.version <= counters.type
    BY DEF TwoMeansStored
  <2>1. Event(s) \in events /\ local[s].streamId \in DOMAIN streams
    BY DEF IInv, Told
  <2>2. Event(s).by = s /\ Event(s).no = saves[s] /\ Event(s).streamId = local[s].streamId
    BY DEF Event
  <2>3. Event(s).version <= counters.type
    BY <2>1 DEF IInv, Counted
  <2> QED
    BY <2>1, <2>2, <2>3
<1> QED
  BY <1>1, InitInv, StepInv, PTL DEF Spec

(* A snapshot that saveOneEventStream writes is younger than any that had  *)
(* been reported as saved when its SaveOne began.                          *)
THEOREM SnapshotsNotOutdated == Spec => SnapshotNotOutdated
<1>1. IInv /\ [Next]_vars =>
        [\A s \in Savers : pc[s] = "stream" /\ pc'[s] = "return" /\ streams' # streams
            => local[s].nextver > floor[s] \/ local[s].nextver = -1]_vars
  BY DEF IInv, Later
<1> QED
  BY <1>1, InitInv, StepInv, PTL DEF Spec, SnapshotNotOutdated

-----------------------------------------------------------------------------
(* Counting streams and numbers.                                           *)

LEMMA CreatorsFinite ==
  ASSUME IsFiniteSet(Savers), IInv
  PROVE  /\ IsFiniteSet(Creators) /\ Cardinality(Creators) \in Nat
         /\ Cardinality(Creators) <= Cardinality(Savers) /\ Cardinality(Savers) \in Nat
         /\ IsFiniteSet(DOMAIN streams \ {NoId}) /\ Cardinality(DOMAIN streams \ {NoId}) \in Nat
<1>1. Creators \subseteq Savers
  BY DEF Creators
<1>2. IsFiniteSet(Creators) /\ Cardinality(Creators) <= Cardinality(Savers)
  BY <1>1, FS_Subset
<1>3. IsFiniteSet(DOMAIN streams) /\ DOMAIN streams \ {NoId} \subseteq DOMAIN streams
  BY DEF IInv
<1>4. IsFiniteSet(DOMAIN streams \ {NoId})
  BY <1>3, FS_Subset
<1> QED
  BY <1>2, <1>4, FS_CardinalityType

(* A step after which there are no more streams and no more creators.      *)
LEMMA FewerCreators ==
  ASSUME IsFiniteSet(Savers), IInv, CreatorsCounted,
         DOMAIN streams' \ {NoId} = DOMAIN streams \ {NoId}, Creators' \subseteq Creators
  PROVE  CreatorsCounted'
<1>1. IsFiniteSet(Creators')
      /\ Cardinality(Creators') \in Nat /\ Cardinality(Creators') <= Cardinality(Creators)
  BY CreatorsFinite, FS_Subset, FS_CardinalityType
<1> QED
  BY <1>1, CreatorsFinite DEF CreatorsCounted

LEMMA LocalSet ==
  ASSUME TypeOK, NEW s \in Savers, NEW field \in {"streamId", "globalseq", "nextver", "rc"},
         NEW value, Set(s, field, value)
  PROVE  /\ local'[s][field] = value
         /\ \A t \in Savers \ {s} : local'[t] = local[t]
         /\ \A f \in {"streamId", "globalseq", "nextver", "rc"} \ {field} :
               local'[s][f] = local[s][f]
<1>1. local[s] \in [streamId : Ids, globalseq : Numbers, nextver : Numbers, rc : 0..2]
      /\ s \in DOMAIN local
  BY DEF TypeOK
<1>2. DOMAIN local[s] = {"streamId", "globalseq", "nextver", "rc"}
  BY <1>1
<1>3. local' = [local EXCEPT ![s] = [local[s] EXCEPT ![field] = value]]
  BY DEF Set
<1> QED
  BY <1>1, <1>2, <1>3

LEMMA Moved ==
  ASSUME TypeOK, NEW s \in Savers, NEW label, Goto(s, label)
  PROVE  pc'[s] = label /\ \A t \in Savers \ {s} : pc'[t] = pc[t]
BY DEF Goto, TypeOK

LEMMA CreateCounted ==
  ASSUME IsFiniteSet(Savers), IInv, CreatorsCounted, NEW s \in Savers, createUid(s)
  PROVE  CreatorsCounted'
<1>0. TypeOK
  BY DEF IInv
<1>1. Creators' = Creators \ {s} /\ s \in Creators
  BY <1>0, Moved DEF createUid, Creators
<1>2. Cardinality(Creators') = Cardinality(Creators) - 1
  BY <1>1, CreatorsFinite, FS_RemoveElement
<1>3. PICK id : id = Cardinality(DOMAIN streams \cup {NoId})
  OBVIOUS
<1>4. DOMAIN streams' \subseteq DOMAIN streams \cup {id}
  BY <1>3 DEF createUid, Document
<1> DEFINE old == DOMAIN streams \ {NoId}
           now == DOMAIN streams' \ {NoId}
<1>5. now \subseteq old \cup {id}
  BY <1>4
<1>6. IsFiniteSet(old) /\ Cardinality(old) \in Nat
  BY CreatorsFinite
<1> HIDE DEF old, now
<1>7. /\ IsFiniteSet(old \cup {id})
      /\ Cardinality(old \cup {id}) \in Nat
      /\ Cardinality(old \cup {id}) <= Cardinality(old) + 1
  <2>1. Cardinality(old \cup {id}) = IF id \in old THEN Cardinality(old) ELSE Cardinality(old) + 1
    BY <1>6, FS_AddElement
  <2>2. IsFiniteSet(old \cup {id})
    BY <1>6, FS_AddElement
  <2> QED
    BY <2>1, <2>2, <1>6
<1>8. Cardinality(now) \in Nat /\ Cardinality(now) <= Cardinality(old) + 1
  <2>1. IsFiniteSet(now) /\ Cardinality(now) <= Cardinality(old \cup {id})
    BY <1>5, <1>7, FS_Subset
  <2>2. Cardinality(now) \in Nat
    BY <2>1, FS_CardinalityType
  <2> QED
    BY <2>1, <2>2, <1>6, <1>7
<1>9. Cardinality(old) + Cardinality(Creators) <= Cardinality(Savers)
  BY DEF CreatorsCounted, old
<1>10. Cardinality(now) + Cardinality(Creators') <= Cardinality(Savers)
  BY <1>2, <1>6, <1>8, <1>9, CreatorsFinite
<1> QED
  BY <1>10 DEF CreatorsCounted, now

LEMMA StreamsStep ==
  ASSUME IsFiniteSet(Savers), IInv, CreatorsCounted, \A t \in Savers : KnownStream(t),
         NEW s \in Savers, SaveOne(s) \/ Step(s) \/ NoClient(s)
  PROVE  CreatorsCounted' /\ \A t \in Savers : KnownStream(t)'
<1>0. TypeOK
  BY DEF IInv
<1>1. CASE SaveOne(s) \/ NextSequence(s) \/ NextVersion(s) \/ saveOneEvent(s) \/ Return(s)
           \/ NoClient(s)
  <2>1. UNCHANGED streams
    BY <1>1 DEF SaveOne, NextSequence, NextVersion, saveOneEvent, Return, NoClient
  <2>2. \E label \in {"idle", "find", "version", "event", "stream"} : Goto(s, label)
    BY <1>1 DEF SaveOne, NextSequence, NextVersion, saveOneEvent, Return, NoClient
  <2>3. Creators' \subseteq Creators
    BY <2>2, <1>0, Moved DEF Creators
  <2>4. ASSUME NEW t \in Savers PROVE local'[t].streamId \in {local[t].streamId, NoId}
    <3>1. CASE SaveOne(s)
      BY <3>1, <1>0 DEF SaveOne, TypeOK, Fresh
    <3>2. CASE NextSequence(s)
      BY <3>2, <1>0, LocalSet DEF NextSequence, getNextSequenceValue
    <3>3. CASE NextVersion(s)
      BY <3>3, <1>0, LocalSet DEF NextVersion, getNextSequenceValue
    <3>4. CASE saveOneEvent(s)
      BY <3>4, <1>0, LocalSet DEF saveOneEvent
    <3>5. CASE Return(s) \/ NoClient(s)
      BY <3>5 DEF Return, NoClient
    <3> QED
      BY <1>1, <3>1, <3>2, <3>3, <3>4, <3>5
  <2> QED
    BY <2>1, <2>3, <2>4, FewerCreators DEF KnownStream
<1>2. CASE getUid(s)
  <2>1. UNCHANGED streams
    BY <1>2 DEF getUid
  <2>2. ASSUME NEW t \in Savers PROVE KnownStream(t)'
    <3>1. CASE UNCHANGED local
      BY <2>1, <3>1 DEF KnownStream
    <3>2. CASE \E id \in DOMAIN streams : Set(s, "streamId", id)
      <4>1. local'[t].streamId \in DOMAIN streams \cup {local[t].streamId}
        BY <3>2, <1>0, LocalSet
      <4> QED
        BY <4>1, <2>1 DEF KnownStream
    <3> QED
      BY <1>2, <3>1, <3>2 DEF getUid
  <2>3. CASE Goto(s, "sequence")
    <3>1. Creators' \subseteq Creators
      BY <2>3, <1>0, Moved DEF Creators
    <3> QED
      BY <2>1, <2>2, <3>1, FewerCreators
  <2>4. CASE streams = << >>
    <3>1. DOMAIN streams' \ {NoId} = {}
      BY <2>1, <2>4
    <3>2. Creators' \subseteq Savers
      BY DEF Creators
    <3>3. IsFiniteSet(Creators') /\ Cardinality(Creators') <= Cardinality(Savers)
      BY <3>2, FS_Subset
    <3>4. Cardinality(Creators') \in Nat /\ Cardinality(DOMAIN streams' \ {NoId}) = 0
      BY <3>1, <3>3, FS_CardinalityType, FS_EmptySet
    <3> QED
      BY <2>2, <3>3, <3>4 DEF CreatorsCounted
  <2> QED
    BY <1>2, <2>3, <2>4 DEF getUid
<1>3. CASE createUid(s)
  <2>1. PICK id : id = Cardinality(DOMAIN streams \cup {NoId})
    OBVIOUS
  <2>2. /\ DOMAIN streams \subseteq DOMAIN streams'
        /\ \/ Set(s, "streamId", id) /\ id \in DOMAIN streams'
           \/ UNCHANGED local
    BY <1>3, <2>1 DEF createUid, Document
  <2>3. \A t \in Savers : local'[t].streamId \in DOMAIN streams' \cup {local[t].streamId}
    BY <2>2, <1>0, LocalSet
  <2> QED
    BY <1>3, <2>2, <2>3, CreateCounted DEF KnownStream
<1>4. CASE saveOneEventStream(s)
  <2>1. DOMAIN streams' \in {DOMAIN streams, DOMAIN streams \cup {local[s].streamId}}
    BY <1>4 DEF saveOneEventStream, Document
  <2>2. DOMAIN streams' \ {NoId} = DOMAIN streams \ {NoId} /\ DOMAIN streams \subseteq DOMAIN streams'
    BY <2>1 DEF KnownStream
  <2>3. Creators' \subseteq Creators
    BY <1>4, <1>0, Moved DEF saveOneEventStream, Creators
  <2>4. \A t \in Savers : local'[t].streamId = local[t].streamId
    BY <1>4, <1>0, LocalSet DEF saveOneEventStream
  <2> QED
    BY <2>2, <2>3, <2>4, FewerCreators DEF KnownStream
<1> QED
  BY <1>1, <1>2, <1>3, <1>4 DEF Step

(* Savers racing for a new type leave at most one stream each, however     *)
(* their searches and creations interleave and fail.                       *)
THEOREM StreamsAreBounded ==
  ASSUME IsFiniteSet(Savers)
  PROVE  Spec => []StreamsBounded
<1> DEFINE Inv == CreatorsCounted /\ \A s \in Savers : KnownStream(s)
<1>1. Init => Inv
  <2> SUFFICES ASSUME Init PROVE Inv
    OBVIOUS
  <2>1. DOMAIN streams \ {NoId} = {} /\ Creators = {}
    BY DEF Init, Creators
  <2>2. CreatorsCounted
    <3>1. Cardinality({}) = 0 /\ Cardinality(Savers) \in Nat
      BY FS_EmptySet, FS_CardinalityType
    <3> QED
      BY <2>1, <3>1 DEF CreatorsCounted
  <2>3. \A s \in Savers : KnownStream(s)
    BY DEF Init, KnownStream, Fresh
  <2> QED
    BY <2>2, <2>3
<1>2. IInv /\ Inv /\ [Next]_vars => Inv'
  <2> SUFFICES ASSUME IInv, Inv, [Next]_vars PROVE Inv'
    OBVIOUS
  <2>1. CASE UNCHANGED vars
    BY <2>1 DEF vars, CreatorsCounted, Creators, KnownStream
  <2>2. CASE Next
    BY <2>2, StreamsStep DEF Next
  <2> QED
    BY <2>1, <2>2
<1>3. IInv /\ Inv => StreamsBounded
  <2> SUFFICES ASSUME IInv, Inv PROVE StreamsBounded
    OBVIOUS
  <2>1. Cardinality(DOMAIN streams \ {NoId}) + Cardinality(Creators) <= Cardinality(Savers)
    BY DEF CreatorsCounted
  <2> QED
    BY <2>1, CreatorsFinite DEF StreamsBounded
<1> HIDE DEF Inv
<1> QED
  BY <1>1, <1>2, <1>3, InitInv, StepInv, PTL DEF Spec
-----------------------------------------------------------------------------
(* No number is lost while nothing fails.                                  *)

LEMMA Steady ==
  ASSUME NoneLost, faults' = 0 => faults = 0, UNCHANGED <<counters, events>>,
         \A t \in Savers : /\ Versioned(t)' <=> Versioned(t)
                           /\ Versioned(t) => local'[t].nextver = local[t].nextver
                           /\ Sequenced(t)' <=> Sequenced(t)
                           /\ Sequenced(t) => local'[t].globalseq = local[t].globalseq
  PROVE  NoneLost'
<1>1. Carried("nextver", {t \in Savers : Versioned(t)})'
         = Carried("nextver", {t \in Savers : Versioned(t)})
  BY DEF Carried
<1>2. Carried("globalseq", {t \in Savers : Sequenced(t)})'
         = Carried("globalseq", {t \in Savers : Sequenced(t)})
  BY DEF Carried
<1> QED
  BY <1>1, <1>2 DEF NoneLost

LEMMA SequenceKept ==
  ASSUME TypeOK, NoneLost, NEW s \in Savers, NextSequence(s)
  PROVE  NoneLost'
<1> SUFFICES ASSUME faults' = 0
             PROVE  /\ {e.version : e \in events'}
                          \cup Carried("nextver", {t \in Savers : Versioned(t)})' = 1..counters'.type
                    /\ {e.seqId : e \in events'}
                          \cup Carried("globalseq", {t \in Savers : Sequenced(t)})'
                             = 1..counters'.all_events
  BY DEF NoneLost
<1>0. faults = 0 /\ faults \in Nat
  BY DEF NextSequence, getNextSequenceValue, Fault, TypeOK
<1>1. /\ counters' = [counters EXCEPT !["all_events"] = @ + 1]
      /\ Set(s, "globalseq", counters.all_events + 1)
      /\ pc[s] = "sequence" /\ Goto(s, "version") /\ events' = events
  BY <1>0 DEF NextSequence, getNextSequenceValue, Fault
<1>2. /\ counters'.all_events = counters.all_events + 1 /\ counters'.type = counters.type
      /\ counters.all_events \in Nat
  BY <1>1 DEF TypeOK
<1>3. /\ local'[s].globalseq = counters.all_events + 1
      /\ \A t \in Savers \ {s} : local'[t] = local[t]
      /\ \A t \in Savers : local'[t].nextver = local[t].nextver
  BY <1>1, LocalSet
<1>4. pc'[s] = "version" /\ \A t \in Savers \ {s} : pc'[t] = pc[t]
  BY <1>1, Moved
<1>5. {t \in Savers : Versioned(t)'} = {t \in Savers : Versioned(t)}
  BY <1>1, <1>4 DEF Versioned
<1>6. {t \in Savers : Sequenced(t)'} = {t \in Savers : Sequenced(t)} \cup {s}
  BY <1>1, <1>4 DEF Sequenced
<1>7. ~Sequenced(s)
  BY <1>1 DEF Sequenced
<1>8. Carried("nextver", {t \in Savers : Versioned(t)})'
         = Carried("nextver", {t \in Savers : Versioned(t)})
  BY <1>3, <1>5 DEF Carried
<1>9. Carried("globalseq", {t \in Savers : Sequenced(t)})'
         = Carried("globalseq", {t \in Savers : Sequenced(t)}) \cup {counters.all_events + 1}
  BY <1>3, <1>6, <1>7 DEF Carried
<1>10. 1..(counters.all_events + 1) = 1..counters.all_events \cup {counters.all_events + 1}
  BY <1>2
<1> QED
  BY <1>0, <1>1, <1>2, <1>8, <1>9, <1>10 DEF NoneLost

LEMMA VersionKept ==
  ASSUME TypeOK, NoneLost, NEW s \in Savers, NextVersion(s)
  PROVE  NoneLost'
<1> SUFFICES ASSUME faults' = 0
             PROVE  /\ {e.version : e \in events'}
                          \cup Carried("nextver", {t \in Savers : Versioned(t)})' = 1..counters'.type
                    /\ {e.seqId : e \in events'}
                          \cup Carried("globalseq", {t \in Savers : Sequenced(t)})'
                             = 1..counters'.all_events
  BY DEF NoneLost
<1>0. faults = 0 /\ faults \in Nat
  BY DEF NextVersion, getNextSequenceValue, Fault, TypeOK
<1>1. /\ counters' = [counters EXCEPT !["type"] = @ + 1]
      /\ Set(s, "nextver", counters.type + 1)
      /\ pc[s] = "version" /\ Goto(s, "event") /\ events' = events
  BY <1>0 DEF NextVersion, getNextSequenceValue, Fault
<1>2. /\ counters'.type = counters.type + 1 /\ counters'.all_events = counters.all_events
      /\ counters.type \in Nat
  BY <1>1 DEF TypeOK
<1>3. /\ local'[s].nextver = counters.type + 1
      /\ \A t \in Savers \ {s} : local'[t] = local[t]
      /\ \A t \in Savers : local'[t].globalseq = local[t].globalseq
  BY <1>1, LocalSet
<1>4. pc'[s] = "event" /\ \A t \in Savers \ {s} : pc'[t] = pc[t]
  BY <1>1, Moved
<1>5. {t \in Savers : Sequenced(t)'} = {t \in Savers : Sequenced(t)}
  BY <1>1, <1>4 DEF Sequenced
<1>6. {t \in Savers : Versioned(t)'} = {t \in Savers : Versioned(t)} \cup {s}
  BY <1>1, <1>4 DEF Versioned
<1>7. ~Versioned(s)
  BY <1>1 DEF Versioned
<1>8. Carried("globalseq", {t \in Savers : Sequenced(t)})'
         = Carried("globalseq", {t \in Savers : Sequenced(t)})
  BY <1>3, <1>5 DEF Carried
<1>9. Carried("nextver", {t \in Savers : Versioned(t)})'
         = Carried("nextver", {t \in Savers : Versioned(t)}) \cup {counters.type + 1}
  BY <1>3, <1>6, <1>7 DEF Carried
<1>10. 1..(counters.type + 1) = 1..counters.type \cup {counters.type + 1}
  BY <1>2
<1> QED
  BY <1>0, <1>1, <1>2, <1>8, <1>9, <1>10 DEF NoneLost

LEMMA EventKept ==
  ASSUME TypeOK, NoneLost, NEW s \in Savers, saveOneEvent(s)
  PROVE  NoneLost'
<1> SUFFICES ASSUME faults' = 0
             PROVE  /\ {e.version : e \in events'}
                          \cup Carried("nextver", {t \in Savers : Versioned(t)})' = 1..counters'.type
                    /\ {e.seqId : e \in events'}
                          \cup Carried("globalseq", {t \in Savers : Sequenced(t)})'
                             = 1..counters'.all_events
  BY DEF NoneLost
<1>0. faults = 0 /\ faults \in Nat
  BY DEF saveOneEvent, Fault, TypeOK
<1>1. PICK e : e = Event(s)
  OBVIOUS
<1>2. /\ events' = events \cup {e} /\ Set(s, "rc", local[s].rc + 1)
      /\ pc[s] = "event" /\ Goto(s, "stream") /\ counters' = counters
  BY <1>0, <1>1 DEF saveOneEvent, Fault
<1>3. e.version = local[s].nextver /\ e.seqId = local[s].globalseq
  BY <1>1 DEF Event
<1>4. \A t \in Savers : /\ local'[t].globalseq = local[t].globalseq
                        /\ local'[t].nextver = local[t].nextver
  BY <1>2, LocalSet
<1>5. pc'[s] = "stream" /\ \A t \in Savers \ {s} : pc'[t] = pc[t]
  BY <1>2, Moved
<1>6. /\ {t \in Savers : Sequenced(t)} = {t \in Savers : Sequenced(t)'} \cup {s}
      /\ {t \in Savers : Versioned(t)} = {t \in Savers : Versioned(t)'} \cup {s}
  BY <1>2, <1>5 DEF Sequenced, Versioned
<1>7. Carried("globalseq", {t \in Savers : Sequenced(t)})
         = Carried("globalseq", {t \in Savers : Sequenced(t)})' \cup {e.seqId}
  BY <1>3, <1>4, <1>6 DEF Carried
<1>8. Carried("nextver", {t \in Savers : Versioned(t)})
         = Carried("nextver", {t \in Savers : Versioned(t)})' \cup {e.version}
  BY <1>3, <1>4, <1>6 DEF Carried
<1>9. /\ {f.version : f \in events'} = {f.version : f \in events} \cup {e.version}
      /\ {f.seqId : f \in events'} = {f.seqId : f \in events} \cup {e.seqId}
  BY <1>2
<1> QED
  BY <1>0, <1>2, <1>7, <1>8, <1>9 DEF NoneLost

LEMMA NumbersStep ==
  ASSUME TypeOK, NoneLost, NEW s \in Savers, SaveOne(s) \/ Step(s) \/ NoClient(s)
  PROVE  NoneLost'
<1>1. CASE SaveOne(s)
  BY <1>1, Steady DEF SaveOne, Goto, TypeOK, Versioned, Sequenced
<1>2. CASE getUid(s)
  <2>1. /\ UNCHANGED <<counters, events>> /\ faults' \in {faults, faults + 1}
        /\ pc[s] = "find" /\ \E label \in {"create", "sequence"} : Goto(s, label)
    BY <1>2 DEF getUid, quiet, Fault
  <2>2. \A t \in Savers \ {s} : local'[t] = local[t]
    BY <1>2, LocalSet DEF getUid
  <2> QED
    BY <2>1, <2>2, Moved, Steady DEF TypeOK, Versioned, Sequenced
<1>3. CASE createUid(s)
  <2>1. /\ UNCHANGED <<counters, events>> /\ faults' \in {faults, faults + 1}
        /\ pc[s] = "create" /\ Goto(s, "sequence")
    BY <1>3 DEF createUid, quiet, Fault
  <2>2. \A t \in Savers \ {s} : local'[t] = local[t]
    BY <1>3, LocalSet DEF createUid
  <2> QED
    BY <2>1, <2>2, Moved, Steady DEF TypeOK, Versioned, Sequenced
<1>4. CASE saveOneEventStream(s)
  <2>1. /\ UNCHANGED <<counters, events>> /\ faults' \in {faults, faults + 1}
        /\ pc[s] = "stream" /\ Goto(s, "return")
    BY <1>4 DEF saveOneEventStream, quiet, Fault
  <2>2. \A t \in Savers \ {s} : local'[t] = local[t]
    BY <1>4, LocalSet DEF saveOneEventStream
  <2> QED
    BY <2>1, <2>2, Moved, Steady DEF TypeOK, Versioned, Sequenced
<1>5. CASE Return(s)
  BY <1>5, Moved, Steady DEF Return, Versioned, Sequenced
<1>6. CASE NoClient(s)
  <2>1. faults' # 0
    BY <1>6 DEF NoClient, Fault, TypeOK
  <2> QED
    BY <2>1 DEF NoneLost
<1> QED
  BY <1>1, <1>2, <1>3, <1>4, <1>5, <1>6, SequenceKept, VersionKept, EventKept DEF Step

(* As many events as numbers, when each has one of its own.                *)
LEMMA OneEach ==
  ASSUME NEW S, NEW n \in Nat, NEW f, f \in [S -> 1..n],
         \A x, y \in S : f[x] = f[y] => x = y, \A k \in 1..n : \E x \in S : f[x] = k
  PROVE  Cardinality(S) = n
<1>1. f \in Bijection(S, 1..n)
  BY DEF Bijection, Injection, Surjection, IsInjective
<1>2. IsFiniteSet(1..n) /\ Cardinality(1..n) = n
  BY FS_Interval
<1>3. IsFiniteSet(S)
  BY <1>1, <1>2, FS_Injection DEF Bijection
<1>4. ExistsBijection(S, 1..n)
  BY <1>1 DEF ExistsBijection
<1> QED
  BY <1>2, <1>3, <1>4, FS_Bijection

(* Without failures every number drawn ends up on an event: the events of  *)
(* a type are numbered from 1 without a gap when nobody is saving.         *)
THEOREM EventsAreDense == Spec => []DenseWhenQuiet
<1>1. Init => NoneLost
  <2> SUFFICES ASSUME Init PROVE NoneLost
    OBVIOUS
  <2>1. /\ {s \in Savers : Versioned(s)} = {} /\ {s \in Savers : Sequenced(s)} = {}
        /\ events = {} /\ counters.type = 0 /\ counters.all_events = 0
    BY DEF Init, Versioned, Sequenced
  <2>2. 1..0 = {}
    OBVIOUS
  <2> QED
    BY <2>1, <2>2 DEF NoneLost, Carried
<1>2. IInv /\ NoneLost /\ [Next]_vars => NoneLost'
  <2> SUFFICES ASSUME IInv, NoneLost, [Next]_vars PROVE NoneLost'
    OBVIOUS
  <2>1. CASE UNCHANGED vars
    BY <2>1 DEF vars, NoneLost, Carried, Versioned, Sequenced
  <2>2. CASE Next
    BY <2>2, NumbersStep DEF Next, IInv
  <2> QED
    BY <2>1, <2>2
<1>3. IInv /\ NoneLost => DenseWhenQuiet
  <2> SUFFICES ASSUME IInv, NoneLost, faults = 0, \A s \in Savers : pc[s] = "idle"
               PROVE  LET all == 1..Cardinality(events) IN
                      {e.version : e \in events} = all /\ {e.seqId : e \in events} = all
    BY DEF DenseWhenQuiet
  <2>1. {s \in Savers : Versioned(s)} = {} /\ {s \in Savers : Sequenced(s)} = {}
    BY DEF Versioned, Sequenced
  <2>2. /\ Carried("nextver", {s \in Savers : Versioned(s)}) = {}
        /\ Carried("globalseq", {s \in Savers : Sequenced(s)}) = {}
    BY <2>1 DEF Carried
  <2>3. {e.version : e \in events} = 1..counters.type /\ {e.seqId : e \in events} = 1..counters.all_events
    BY <2>2 DEF NoneLost
  <2>4. counters.type \in Nat /\ counters.all_events \in Nat
    BY DEF IInv, TypeOK
  <2>5. Cardinality(events) = counters.type
    <3> DEFINE f == [e \in events |-> e.version]
    <3>1. f \in [events -> 1..counters.type]
      BY <2>3
    <3>2. \A x, y \in events : f[x] = f[y] => x = y
      BY <2>3, <2>4 DEF IInv, NumbersUnique
    <3>3. \A k \in 1..counters.type : \E x \in events : f[x] = k
      BY <2>3
    <3> HIDE DEF f
    <3> QED
      BY <2>4, <3>1, <3>2, <3>3, OneEach
  <2>6. Cardinality(events) = counters.all_events
    <3> DEFINE f == [e \in events |-> e.seqId]
    <3>1. f \in [events -> 1..counters.all_events]
      BY <2>3
    <3>2. \A x, y \in events : f[x] = f[y] => x = y
      BY <2>3, <2>4 DEF IInv, NumbersUnique
    <3>3. \A k \in 1..counters.all_events : \E x \in events : f[x] = k
      BY <2>3
    <3> HIDE DEF f
    <3> QED
      BY <2>4, <3>1, <3>2, <3>3, OneEach
  <2> QED
    BY <2>3, <2>5, <2>6
<1> QED
  BY <1>1, <1>2, <1>3, InitInv, StepInv, PTL DEF Spec
=============================================================================
