------------------------ MODULE EventSubscriberProofs ------------------------
(* No event is passed over, for any instances, entities and connections.   *)
EXTENDS EventSubscriber, FiniteSetTheorems, FunctionTheorems, WellFoundedInduction, TLAPS

-----------------------------------------------------------------------------
(* Facts about numbers and getMaxEvent.                                    *)

LEMMA Smallest ==
  ASSUME NEW T, T \subseteq Nat, T # {}
  PROVE  \E m \in T : \A k \in T : m <= k
<1> DEFINE R == OpToRel(<, Nat)
<1>1. IsWellFoundedOn(R, Nat)
  BY NatLessThanWellFounded
<1>2. \A x, y \in Nat : x < y => <<x, y>> \in R
  BY DEF OpToRel
<1> HIDE DEF R
<1>3. PICK m \in T : \A k \in T : ~(<<k, m>> \in R)
  BY <1>1, WFMin
<1>4. ASSUME NEW k \in T PROVE m <= k
  <2>1. k \in Nat /\ m \in Nat
    OBVIOUS
  <2>2. ~(k < m)
    BY <2>1, <1>2, <1>3
  <2> QED
    BY <2>1, <2>2
<1> QED
  BY <1>4

LEMMA Largest ==
  ASSUME NEW n \in Nat, NEW T, T \subseteq 1..n, T # {}
  PROVE  \E m \in T : \A k \in T : k <= m
<1> DEFINE D == {n - k : k \in T}
<1>1. D \subseteq Nat /\ D # {}
  <2>1. PICK t : t \in T
    OBVIOUS
  <2>2. n - t \in D
    BY <2>1
  <2>3. \A k \in T : n - k \in Nat
    <3> SUFFICES ASSUME NEW k \in T PROVE n - k \in Nat
      OBVIOUS
    <3>1. k \in Int /\ 1 <= k /\ k <= n
      OBVIOUS
    <3> QED
      BY <3>1
  <2> QED
    BY <2>2, <2>3
<1>2. PICK d \in D : \A k \in D : d <= k
  BY <1>1, Smallest
<1>3. PICK m \in T : d = n - m
  OBVIOUS
<1>4. \A k \in T : n - m <= n - k
  BY <1>2, <1>3
<1> QED
  BY <1>4

(* getMaxEvent drops an event only for a later one of the same entity.     *)
LEMMA MaxEventCovers ==
  ASSUME NEW events, events \subseteq Event, NEW e \in events
  PROVE  \E h \in getMaxEvent(events) : h.entity = e.entity /\ h.seq >= e.seq
<1> DEFINE same == {f \in events : f.entity = e.entity}
           seqs == {f.seq : f \in same}
<1>1. seqs \subseteq 1..MaxSeq /\ e.seq \in seqs
  BY DEF Event
<1>2. PICK m \in seqs : \A k \in seqs : k <= m
  BY <1>1, BoundsAssumption, Largest
<1>3. PICK h \in same : h.seq = m
  OBVIOUS
<1>4. h \in getMaxEvent(events)
  BY <1>2, <1>3 DEF getMaxEvent
<1>5. h.seq >= e.seq
  BY <1>1, <1>2, <1>3, BoundsAssumption
<1> QED
  BY <1>3, <1>4, <1>5

-----------------------------------------------------------------------------
(* Type correctness.                                                       *)

LEMMA PoolType ==
  ASSUME Pool!PoolTypeOK, NEW i \in Instances, Pool!Borrow(i) \/ Pool!Unborrow(i)
  PROVE  Pool!PoolTypeOK'
<1> USE DEF Pool!PoolTypeOK
<1>1. CASE Pool!Borrow(i)
  BY <1>1 DEF Pool!Borrow, Pool!BorrowFree, Pool!BorrowAbandoned, Pool!Abandoned
<1>2. CASE Pool!Unborrow(i)
  BY <1>2 DEF Pool!Unborrow
<1> QED
  BY <1>1, <1>2

LEMMA PoolStill ==
  ASSUME Pool!PoolTypeOK, UNCHANGED poolVars
  PROVE  Pool!PoolTypeOK'
BY DEF Pool!PoolTypeOK, poolVars

LEMMA InitType == Init => TypeOK
<1> SUFFICES ASSUME Init PROVE TypeOK
  OBVIOUS
<1>1. Pool!PoolTypeOK
  <2>1. Pool!Cardinality(Conns) = Cardinality(Conns)
    BY Zenon DEF Pool!Cardinality, Cardinality
  <2>2. Pool!Cardinality(Conns) \in Nat
    BY <2>1, ConnsAssumption, FS_CardinalityType
  <2> QED
    BY <2>2 DEF Init, Pool!Init, Pool!PoolTypeOK
<1> QED
  BY <1>1, BoundsAssumption DEF Init, TypeOK, PCs, NoRow, Read

LEMMA NextType == TypeOK /\ [Next]_vars => TypeOK'
<1> SUFFICES ASSUME TypeOK, [Next]_vars PROVE TypeOK'
  OBVIOUS
<1> USE BoundsAssumption
<1>1. CASE Draw
  BY <1>1, PoolStill DEF Draw, readerVars, TypeOK
<1>2. CASE CommitEvent
  <2>1. \A n \in drawn, entity \in Entities : [seq |-> n, entity |-> entity] \in Event
    BY DEF TypeOK, Event
  <2> QED
    BY <1>2, <2>1, PoolStill DEF CommitEvent, readerVars, TypeOK
<1>3. CASE Rollback
  BY <1>3, PoolStill DEF Rollback, readerVars, TypeOK
<1>4. CASE Break
  BY <1>4 DEF Break, dbVars, TypeOK, Pool!PoolTypeOK
<1>5. ASSUME NEW i \in Instances, Step(i) PROVE TypeOK'
  <2>1. CASE CallLastExecution(i)
    BY <2>1, PoolType, PoolStill DEF CallLastExecution, dbVars, TypeOK, PCs, Statements
  <2>2. CASE SelectOffset(i)
    BY <2>2, PoolStill DEF SelectOffset, statement, dbVars, TypeOK, PCs, Statements, Goto,
                           NextStatement, NoRow, Read
  <2>3. CASE InsertDefault(i)
    BY <2>3, PoolStill DEF InsertDefault, statement, dbVars, TypeOK, PCs, Statements, Goto,
                           NextStatement, NoRow, Read
  <2>4. CASE NoSuchStream(i)
    BY <2>4, PoolStill DEF NoSuchStream, statement, dbVars, TypeOK, PCs, Goto
  <2>5. CASE UpdateOffset(i)
    BY <2>5, PoolStill DEF UpdateOffset, statement, dbVars, TypeOK, PCs, Goto
  <2>6. CASE StatementFails(i)
    BY <2>6, PoolStill DEF StatementFails, statement, dbVars, TypeOK, PCs, Goto
  <2>7. CASE Return(i)
    <3>1. Pool!PoolTypeOK'
      BY <2>7, PoolType, PoolStill DEF Return, TypeOK
    <3> QED
      BY <2>7, <3>1 DEF Return, dbVars, TypeOK, PCs, Goto, Read
  <2>8. CASE StartSearch(i)
    BY <2>8, PoolType, PoolStill DEF StartSearch, searchVars, dbVars, TypeOK, PCs, Goto
  <2>9. CASE Search(i)
    <3>1. Past(seqId[i]) \subseteq Event
      BY DEF Past, TypeOK
    <3>2. Pool!PoolTypeOK'
      BY <2>9, PoolType DEF Search, TypeOK
    <3> QED
      BY <2>9, <3>1, <3>2 DEF Search, searchVars, dbVars, TypeOK, PCs, Goto
  <2>10. CASE SearchFails(i)
    <3>1. Pool!PoolTypeOK'
      BY <2>10, PoolType DEF SearchFails, TypeOK
    <3> QED
      BY <2>10, <3>1 DEF SearchFails, searchVars, dbVars, TypeOK, PCs, Goto
  <2>11. CASE Handle(i)
    <3>1. found[i] \subseteq Event
      BY DEF TypeOK
    <3>2. getMaxEvent(found[i]) \subseteq Event
      BY <3>1 DEF getMaxEvent
    <3>3. \A e \in found[i] : e.seq \in -1..MaxSeq
      BY <3>1 DEF Event
    <3> QED
      BY <2>11, <3>2, <3>3, PoolStill DEF Handle, dbVars, TypeOK, PCs, Goto
  <2> QED
    BY <1>5, <2>1, <2>2, <2>3, <2>4, <2>5, <2>6, <2>7, <2>8, <2>9, <2>10, <2>11 DEF Step
<1>6. CASE UNCHANGED vars
  BY <1>6, PoolStill DEF vars, TypeOK, poolVars
<1> QED
  BY <1>1, <1>2, <1>3, <1>4, <1>5, <1>6 DEF Next

(* Every variable keeps its type.                                          *)
THEOREM TypeCorrect == Spec => []TypeOK
BY InitType, NextType, PTL DEF Spec
-----------------------------------------------------------------------------
(* Nothing is passed over.                                                 *)

(* The table grows above what it holds, and the history only grows.        *)
DbGrows == /\ table \subseteq table'
           /\ \A e \in table' \ table : /\ e \in Event
                                       /\ \A f \in table : f.seq < e.seq
           /\ \A e, f \in table' \ table : e = f
           /\ handled \subseteq handled'

LEMMA DbStep == ASSUME TypeOK, [Next]_vars PROVE DbGrows
<1> USE DEF DbGrows
<1>1. CASE Draw
  BY <1>1 DEF Draw, readerVars
<1>2. CASE CommitEvent
  <2>1. \A n \in drawn, entity \in Entities : [seq |-> n, entity |-> entity] \in Event
    BY DEF TypeOK, Event
  <2> QED
    BY <1>2, <2>1 DEF CommitEvent, readerVars
<1>3. CASE Rollback
  BY <1>3 DEF Rollback, readerVars
<1>4. CASE Break
  BY <1>4 DEF Break, dbVars
<1>5. ASSUME NEW i \in Instances, Step(i) PROVE DbGrows
  BY <1>5 DEF Step, CallLastExecution, SelectOffset, InsertDefault, NoSuchStream, UpdateOffset,
              StatementFails, Return, StartSearch, Search, SearchFails, Handle, statement,
              searchVars, dbVars
<1>6. CASE UNCHANGED vars
  BY <1>6 DEF vars
<1> QED
  BY <1>1, <1>2, <1>3, <1>4, <1>5, <1>6 DEF Next

(* A safe offset stays safe: what commits later commits above it.          *)
LEMMA SafeStable ==
  ASSUME TypeOK, DbGrows, NEW n \in -2..MaxSeq, SafeOffset(n)
  PROVE  SafeOffset(n)'
<1> USE BoundsAssumption
<1>1. ASSUME NEW e \in table', e.seq <= n PROVE Seen(e)'
  <2>1. CASE e \in table
    <3>1. Seen(e)
      BY <1>1, <2>1 DEF SafeOffset
    <3> QED
      BY <3>1 DEF Seen, DbGrows
  <2>2. CASE e \notin table
    <3>1. e.seq \in 1..MaxSeq /\ \A f \in table : f.seq < e.seq
      BY <2>2 DEF DbGrows, Event
    <3>2. \A f \in table : f.seq \in 1..MaxSeq
      BY DEF TypeOK, Event
    <3>3. n <= 0 \/ \E f \in table : n <= f.seq
      BY DEF SafeOffset
    <3> QED
      BY <1>1, <3>1, <3>2, <3>3
  <2> QED
    BY <2>1, <2>2
<1>2. n <= 0 \/ \E e \in table' : n <= e.seq
  BY DEF SafeOffset, DbGrows
<1> QED
  BY <1>1, <1>2 DEF SafeOffset

LEMMA SafeBelow ==
  ASSUME TypeOK', NEW n \in Int, n <= 0
  PROVE  SafeOffset(n)'
<1>1. \A e \in table' : e.seq \in Nat \ {0}
  BY DEF TypeOK, Event
<1> QED
  BY <1>1 DEF SafeOffset

(* Where the numbers that serve as offsets come from.                      *)
LEMMA Offsets ==
  ASSUME TypeOK, Next, NEW j \in Instances
  PROVE  /\ offset' \in {offset, -1} \cup {arg[i] : i \in Instances}
         /\ seqId'[j] \in {seqId[j], 0, offset, arg[j]}
         /\ \/ arg'[j] \in {arg[j], -1}
            \/ Handle(j)
<1>1. CASE Draw \/ CommitEvent \/ Rollback \/ Break
  BY <1>1 DEF Draw, CommitEvent, Rollback, Break, readerVars
<1>2. ASSUME NEW i \in Instances, Step(i)
      PROVE  /\ offset' \in {offset, -1, arg[i]}
             /\ seqId'[j] \in {seqId[j], 0, offset, arg[j]}
             /\ arg'[j] \in {arg[j], -1} \/ Handle(j)
  <2> USE DEF TypeOK
  <2>1. CASE CallLastExecution(i)
    BY <2>1 DEF CallLastExecution
  <2>2. CASE SelectOffset(i)
    BY <2>2 DEF SelectOffset, statement
  <2>3. CASE InsertDefault(i)
    BY <2>3 DEF InsertDefault, statement
  <2>4. CASE NoSuchStream(i)
    BY <2>4 DEF NoSuchStream, statement
  <2>5. CASE UpdateOffset(i)
    BY <2>5 DEF UpdateOffset, statement
  <2>6. CASE StatementFails(i)
    BY <2>6 DEF StatementFails, statement
  <2>7. CASE Return(i)
    BY <2>7 DEF Return, Read
  <2>8. CASE StartSearch(i) \/ Search(i) \/ SearchFails(i)
    BY <2>8 DEF StartSearch, Search, SearchFails, searchVars
  <2>9. CASE Handle(i)
    BY <2>9 DEF Handle
  <2> QED
    BY <1>2, <2>1, <2>2, <2>3, <2>4, <2>5, <2>6, <2>7, <2>8, <2>9 DEF Step
<1>3. CASE \E i \in Instances : Step(i)
  BY <1>2, <1>3
<1> QED
  BY <1>1, <1>3 DEF Next

(* A search whose limit is not below the events there are finds them all.  *)
LEMMA LimitIsNoLimit ==
  ASSUME TypeOK, SeqUnique, Limit >= MaxSeq, NEW n \in Int,
         NEW events \in SUBSET Past(n), Cardinality(events) = Limit
  PROVE  events = Past(n)
<1> USE BoundsAssumption, LimitAssumption
<1> DEFINE P == Past(n)
           number == [e \in P |-> e.seq]
<1>1. P \subseteq table /\ P \subseteq Event
  BY DEF Past, TypeOK
<1>2. number \in Injection(P, 1..MaxSeq)
  <2>1. \A e \in P : e.seq \in 1..MaxSeq
    BY <1>1 DEF Event
  <2>2. \A e, f \in P : e.seq = f.seq => e = f
    BY <1>1 DEF SeqUnique
  <2>3. number \in [P -> 1..MaxSeq]
    BY <2>1
  <2>4. \A e, f \in P : number[e] = number[f] => e = f
    BY <2>2
  <2> HIDE DEF number, P
  <2> QED
    BY <2>3, <2>4, Fun_IsInj
<1> HIDE DEF number, P
<1>3. IsFiniteSet(1..MaxSeq) /\ Cardinality(1..MaxSeq) = MaxSeq
  <2>1. IsFiniteSet(1..MaxSeq) /\ Cardinality(1..MaxSeq) = IF 1 > MaxSeq THEN 0 ELSE MaxSeq - 1 + 1
    BY FS_Interval
  <2> QED
    BY <2>1
<1>4. IsFiniteSet(P) /\ Cardinality(P) <= MaxSeq
  BY <1>2, <1>3, FS_Injection
<1>5. events \subseteq P
  BY DEF P
<1>6. /\ Cardinality(events) <= Cardinality(P)
      /\ Cardinality(P) = Cardinality(events) => P = events
  BY <1>4, <1>5, FS_Subset
<1>7. Cardinality(P) \in Nat
  BY <1>4, FS_CardinalityType
<1>8. P = events
  BY <1>4, <1>6, <1>7
<1> QED
  BY <1>8 DEF P

(* The last event handed over is safe to store: everything up to it was    *)
(* handed over, or lay before the offset of the search.                    *)
LEMMA HandledIsSafe ==
  ASSUME TypeOK, IInv, NEW i \in Instances, Handle(i),
         NEW last \in found[i], \A f \in found[i] : f.seq <= last.seq
  PROVE  SafeOffset(last.seq)'
<1> USE DEF IInv
<1>1. found[i] \subseteq table /\ found[i] \subseteq Event /\ pc[i] = "handle"
  BY DEF TypeOK, FoundAll, Handle
<1>2. table' = table /\ handled' = handled \cup getMaxEvent(found[i])
  BY DEF Handle, dbVars
<1>3. ASSUME NEW e \in table, e.seq <= last.seq PROVE Seen(e)'
  <2>1. CASE e.seq <= seqId[i]
    <3>1. Seen(e)
      BY <2>1 DEF SafeOffset
    <3> QED
      BY <3>1, <1>2 DEF Seen
  <2>2. CASE e \in found[i]
    <3>1. \E h \in getMaxEvent(found[i]) : h.entity = e.entity /\ h.seq >= e.seq
      BY <1>1, <2>2, MaxEventCovers
    <3> QED
      BY <3>1, <1>2 DEF Seen
  <2>3. ~(\A f \in found[i] : f.seq < e.seq)
    <3>1. e.seq \in Int /\ last.seq \in Int
      BY <1>1 DEF TypeOK, Event
    <3> QED
      BY <1>3, <3>1
  <2> QED
    BY <1>1, <2>1, <2>2, <2>3 DEF FoundAll
<1>4. last \in table' /\ last.seq <= last.seq
  <2>1. last.seq \in Int
    BY <1>1 DEF Event
  <2> QED
    BY <1>1, <1>2, <2>1
<1> QED
  BY <1>2, <1>3, <1>4 DEF SafeOffset

(* The initial states satisfy the invariant.                               *)
LEMMA InitSafe == Init => IInv
BY DEF Init, IInv, SafeOffset, SeqUnique, FoundAll, NoRow, Read

(* Offsets stay safe.                                                      *)
LEMMA OffsetsStep ==
  ASSUME TypeOK, TypeOK', Next, DbGrows, IInv
  PROVE  /\ SafeOffset(offset)'
         /\ \A j \in Instances : SafeOffset(seqId[j])' /\ SafeOffset(arg[j])'
<1>1. ASSUME NEW n \in -2..MaxSeq, SafeOffset(n) PROVE SafeOffset(n)'
  BY <1>1, SafeStable
<1>2. /\ offset \in -2..MaxSeq
      /\ \A j \in Instances : seqId[j] \in -2..MaxSeq /\ arg[j] \in -2..MaxSeq
  BY BoundsAssumption DEF TypeOK
<1>3. ASSUME NEW n \in Int, n <= 0 PROVE SafeOffset(n)'
  BY <1>3, SafeBelow
<1>4. SafeOffset(offset)'
  <2>1. CASE offset' = offset
    BY <2>1, <1>1, <1>2 DEF IInv, SafeOffset
  <2>2. CASE offset' = -1
    BY <2>2, <1>3 DEF SafeOffset
  <2>3. ASSUME NEW i \in Instances, offset' = arg[i] PROVE SafeOffset(offset)'
    BY <2>3, <1>1, <1>2 DEF IInv, SafeOffset
  <2>4. CASE Instances = {}
    BY <2>4, <2>1 DEF Next, Draw, CommitEvent, Rollback, Break, readerVars
  <2> QED
    BY <2>1, <2>2, <2>3, <2>4, Offsets
<1>5. ASSUME NEW j \in Instances PROVE SafeOffset(seqId[j])'
  <2>1. seqId'[j] \in {seqId[j], 0, offset, arg[j]}
    BY Offsets
  <2>2. CASE seqId'[j] = seqId[j]
    BY <2>2, <1>1, <1>2 DEF IInv, SafeOffset
  <2>3. CASE seqId'[j] = 0
    BY <2>3, <1>3 DEF SafeOffset
  <2>4. CASE seqId'[j] = offset
    BY <2>4, <1>1, <1>2 DEF IInv, SafeOffset
  <2>5. CASE seqId'[j] = arg[j]
    BY <2>5, <1>1, <1>2 DEF IInv, SafeOffset
  <2> QED
    BY <2>1, <2>2, <2>3, <2>4, <2>5
<1>6. ASSUME NEW j \in Instances PROVE SafeOffset(arg[j])'
  <2>1. arg'[j] = arg[j] \/ arg'[j] = -1 \/ Handle(j)
    BY Offsets
  <2>2. CASE arg'[j] = arg[j]
    BY <2>2, <1>1, <1>2 DEF IInv, SafeOffset
  <2>3. CASE arg'[j] = -1
    BY <2>3, <1>3 DEF SafeOffset
  <2>4. CASE Handle(j)
    <3>1. PICK e \in found[j] : /\ \A f \in found[j] : f.seq <= e.seq
                               /\ arg' = [arg EXCEPT ![j] = e.seq]
      BY <2>4 DEF Handle
    <3>2. SafeOffset(e.seq)'
      BY <2>4, <3>1, HandledIsSafe
    <3>3. arg'[j] = e.seq
      BY <3>1 DEF TypeOK
    <3> QED
      BY <3>2, <3>3 DEF SafeOffset
  <2> QED
    BY <2>1, <2>2, <2>3, <2>4
<1> QED
  BY <1>4, <1>5, <1>6

(* Sequence values stay unique.                                            *)
LEMMA UniqueStep == ASSUME TypeOK, TypeOK', DbGrows, SeqUnique PROVE SeqUnique'
<1> SUFFICES ASSUME NEW e \in table', NEW f \in table', e.seq = f.seq PROVE e = f
  BY DEF SeqUnique
<1>1. e.seq \in Int /\ f.seq \in Int
  BY DEF TypeOK, Event
<1>2. CASE e \in table /\ f \in table
  BY <1>2 DEF SeqUnique
<1>3. CASE e \notin table /\ f \notin table
  BY <1>3 DEF DbGrows
<1>4. CASE (e \in table) # (f \in table)
  BY <1>1, <1>4 DEF DbGrows
<1> QED
  BY <1>2, <1>3, <1>4

(* What a search finds leaves no gap.                                      *)
LEMMA FoundStep ==
  ASSUME TypeOK, TypeOK', Next, DbGrows, IInv, Limit >= MaxSeq
  PROVE  FoundAll'
<1> SUFFICES ASSUME NEW j \in Instances
             PROVE  /\ found'[j] \subseteq table'
                    /\ pc'[j] = "handle" =>
                         \A e \in table' : \/ e.seq <= seqId'[j]
                                           \/ e \in found'[j]
                                           \/ \A f \in found'[j] : f.seq < e.seq
  BY DEF FoundAll
<1>1. CASE found'[j] = found[j] /\ seqId'[j] = seqId[j] /\ (pc'[j] = "handle" => pc[j] = "handle")
  <2>1. found[j] \subseteq table
    BY DEF IInv, FoundAll
  <2>2. found'[j] \subseteq table'
    BY <1>1, <2>1 DEF DbGrows
  <2>3. ASSUME pc'[j] = "handle", NEW e \in table'
        PROVE  e.seq <= seqId'[j] \/ e \in found'[j] \/ \A f \in found'[j] : f.seq < e.seq
    <3>1. CASE e \in table
      BY <1>1, <2>3, <3>1 DEF IInv, FoundAll
    <3>2. CASE e \notin table
      BY <1>1, <2>1, <3>2 DEF DbGrows
    <3> QED
      BY <3>1, <3>2
  <2> QED
    BY <2>2, <2>3
<1>2. CASE found'[j] \in {found[j], {}} /\ pc'[j] # "handle"
  <2>1. found[j] \subseteq table'
    BY DEF IInv, FoundAll, DbGrows
  <2> QED
    BY <1>2, <2>1
<1>3. CASE Search(j)
  <2>1. PICK events \in SUBSET Past(seqId[j]) :
           /\ events = Past(seqId[j]) \/ Cardinality(events) = Limit
           /\ found' = [found EXCEPT ![j] = events]
    BY <1>3 DEF Search
  <2>2. seqId[j] \in Int
    BY BoundsAssumption DEF TypeOK
  <2>3. events = Past(seqId[j])
    BY <2>1, <2>2, LimitIsNoLimit DEF IInv
  <2>4. found'[j] = Past(seqId[j]) /\ table' = table /\ seqId' = seqId
    BY <1>3, <2>1, <2>3 DEF Search, searchVars, dbVars, TypeOK
  <2>5. \A e \in table : e.seq \in Int
    BY DEF TypeOK, Event
  <2> QED
    BY <2>2, <2>4, <2>5 DEF Past
<1>4. CASE Draw \/ CommitEvent \/ Rollback \/ Break
  BY <1>1, <1>4 DEF Draw, CommitEvent, Rollback, Break, readerVars
<1>5. ASSUME NEW i \in Instances, Step(i)
      PROVE  \/ found'[j] = found[j] /\ seqId'[j] = seqId[j] /\ (pc'[j] = "handle" => pc[j] = "handle")
             \/ found'[j] \in {found[j], {}} /\ pc'[j] # "handle"
             \/ Search(j)
  <2> USE DEF TypeOK, Goto, NextStatement
  <2>1. CASE CallLastExecution(i)
    BY <2>1 DEF CallLastExecution
  <2>2. CASE SelectOffset(i)
    BY <2>2 DEF SelectOffset, statement
  <2>3. CASE InsertDefault(i)
    BY <2>3 DEF InsertDefault, statement
  <2>4. CASE NoSuchStream(i)
    BY <2>4 DEF NoSuchStream, statement
  <2>5. CASE UpdateOffset(i)
    BY <2>5 DEF UpdateOffset, statement
  <2>6. CASE StatementFails(i)
    BY <2>6 DEF StatementFails, statement
  <2>7. CASE Return(i)
    BY <2>7 DEF Return
  <2>8. CASE StartSearch(i)
    BY <2>8 DEF StartSearch, searchVars
  <2>9. CASE Search(i)
    BY <2>9 DEF Search, searchVars
  <2>10. CASE SearchFails(i)
    BY <2>10 DEF SearchFails, searchVars
  <2>11. CASE Handle(i)
    BY <2>11 DEF Handle
  <2> QED
    BY <1>5, <2>1, <2>2, <2>3, <2>4, <2>5, <2>6, <2>7, <2>8, <2>9, <2>10, <2>11 DEF Step
<1> QED
  BY <1>1, <1>2, <1>3, <1>4, <1>5 DEF Next

LEMMA NextSafe == ASSUME Limit >= MaxSeq PROVE TypeOK /\ IInv /\ [Next]_vars => IInv'
<1> SUFFICES ASSUME TypeOK, IInv, [Next]_vars PROVE IInv'
  OBVIOUS
<1>1. TypeOK' /\ DbGrows
  BY NextType, DbStep
<1>2. CASE Next
  <2>1. SeqUnique'
    BY <1>1, UniqueStep DEF IInv
  <2>2. FoundAll'
    BY <1>1, <1>2, FoundStep
  <2>3. /\ SafeOffset(offset)'
        /\ \A j \in Instances : SafeOffset(seqId[j])' /\ SafeOffset(arg[j])'
    BY <1>1, <1>2, OffsetsStep
  <2> QED
    BY <2>1, <2>2, <2>3 DEF IInv
<1>3. CASE UNCHANGED vars
  BY <1>3 DEF vars, IInv, SafeOffset, Seen, SeqUnique, FoundAll
<1> QED
  BY <1>2, <1>3

(* As long as Search's limit is not below the number of events there are,  *)
(* the stored offset never passes an event the application has not seen.   *)
THEOREM NothingIsPassed == ASSUME Limit >= MaxSeq PROVE Spec => []NothingPassed
<1>1. TypeOK /\ IInv /\ [Next]_vars => IInv'
  BY NextSafe
<1>2. IInv => NothingPassed
  BY DEF IInv, SafeOffset, NothingPassed
<1> QED
  BY <1>1, <1>2, InitSafe, TypeCorrect, PTL DEF Spec
=============================================================================
