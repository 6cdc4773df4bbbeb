------------------------- MODULE PgEventStoreProofs -------------------------
(* Theorems about PgEventStore, for any sessions, streams and connections. *)
EXTENDS PgEventStore, FiniteSetTheorems, TLAPS

LEMMA NoTxType == NoTx \in Tx
BY StreamsAssumption DEF NoTx, Tx

-----------------------------------------------------------------------------
(* Type correctness.                                                       *)

LEMMA FailType ==
  ASSUME TypeOK, NEW s \in Sessions, NEW code \in Codes, Fail(s, code)
  PROVE  /\ pending' \in [Sessions -> Seq(Event)]
         /\ appended' \in [Sessions -> Nat]
         /\ pc' \in [Sessions -> PCs]
         /\ todo' \in [Sessions -> SUBSET Streams]
         /\ tx' \in [Sessions -> Tx]
         /\ ret' \in [Sessions -> Codes]
         /\ fails' \in [Sessions -> Nat]
BY NoTxType DEF TypeOK, Fail, PCs

LEMMA PendingType ==
  ASSUME TypeOK, NEW s \in Sessions, NEW i \in DOMAIN pending[s]
  PROVE  /\ i \in Nat
         /\ pending[s][i] \in Event
         /\ pending[s][i].stream \in Streams
<1>1. pending[s] \in Seq(Event)
  BY DEF TypeOK
<1>2. pending[s][i] \in Event /\ i \in Nat
  BY <1>1
<1> QED
  BY <1>2 DEF Event

LEMMA CodesOfFail == {400, 500, 503} \subseteq Codes
BY DEF Codes

LEMMA UserType ==
  ASSUME TypeOK, NEW s \in Sessions,
         (\E st \in Streams : AppendEvent(s, st)) \/ Save(s) \/ Finish(s)
  PROVE  TypeOK'
<1>1. ASSUME NEW st \in Streams, AppendEvent(s, st) PROVE TypeOK'
  <2>1. [by |-> s, no |-> appended[s] + 1, stream |-> st] \in Event
    BY DEF TypeOK, Event
  <2> QED
    BY <1>1, <2>1 DEF TypeOK, AppendEvent, dbVars, poolVars, Pool!PoolTypeOK
<1>2. CASE Save(s)
  <2>1. {pending[s][i].stream : i \in DOMAIN pending[s]} \subseteq Streams
    BY PendingType
  <2> QED
    BY <1>2, <2>1 DEF TypeOK, Save, PCs, dbVars, poolVars, Pool!PoolTypeOK
<1>3. CASE Finish(s)
  BY <1>3 DEF TypeOK, Finish, PCs, Codes, dbVars, poolVars, Pool!PoolTypeOK
<1> QED
  BY <1>1, <1>2, <1>3

LEMMA PoolType ==
  ASSUME Pool!PoolTypeOK, NEW s \in Sessions,
         \/ Pool!Borrow(s)
         \/ Pool!Unborrow(s)
         \/ Pool!Abandon(s)
         \/ Pool!AbandonBroken(s)
         \/ Pool!BreakIdle
  PROVE  Pool!PoolTypeOK'
<1> USE DEF Pool!PoolTypeOK
<1>1. CASE Pool!Borrow(s)
  BY <1>1 DEF Pool!Borrow, Pool!BorrowFree, Pool!BorrowAbandoned, Pool!Abandoned
<1>2. CASE Pool!Unborrow(s)
  BY <1>2 DEF Pool!Unborrow
<1>3. CASE Pool!Abandon(s) \/ Pool!AbandonBroken(s)
  BY <1>3 DEF Pool!Abandon, Pool!AbandonBroken
<1>4. CASE Pool!BreakIdle
  BY <1>4 DEF Pool!BreakIdle, Pool!Idle
<1> QED
  BY <1>1, <1>2, <1>3, <1>4

LEMMA CallType ==
  ASSUME TypeOK, NEW s \in Sessions, (\E st \in Streams : Send(s, st)) \/ Receive(s)
  PROVE  TypeOK'
<1>1. ASSUME NEW st \in Streams, Send(s, st) PROVE TypeOK'
  <2>1. [NoTx EXCEPT !.stream = st] \in Tx
    BY NoTxType DEF Tx
  <2>2. Pool!PoolTypeOK'
    BY <1>1, PoolType DEF Send, TypeOK
  <2> QED
    BY <1>1, <2>1, <2>2 DEF TypeOK, Send, PCs, InTx, sessionVars, dbVars
<1>2. CASE Receive(s)
  <2>1. Pool!PoolTypeOK'
    BY <1>2, PoolType DEF Receive, TypeOK
  <2> QED
    BY <1>2, <2>1, NoTxType DEF TypeOK, Receive, PCs, dbVars
<1> QED
  BY <1>1, <1>2

LEMMA ErrorType ==
  ASSUME TypeOK, NEW s \in Sessions,
         Unavailable(s) \/ SentOnDead(s) \/ ConnectionLost(s) \/ Violation(s)
  PROVE  TypeOK'
<1>1. PICK code \in {400, 500, 503} : Fail(s, code)
  BY DEF Unavailable, SentOnDead, ConnectionLost, Violation
<1>2. /\ UNCHANGED <<mt_streams, mt_events, seq>>
      /\ faults' \in Nat
  BY DEF Unavailable, SentOnDead, ConnectionLost, Violation, Fault, dbVars, TypeOK
<1>3. Pool!PoolTypeOK'
  BY PoolType DEF Unavailable, SentOnDead, ConnectionLost, Violation, TypeOK,
                  poolVars, Pool!PoolTypeOK
<1>4. code \in Codes
  BY CodesOfFail
<1> QED
  BY <1>1, <1>2, <1>3, <1>4, FailType DEF TypeOK

(* What each statement does to the transaction, field by field.            *)
LEMMA TxUpdate ==
  ASSUME TypeOK, NEW s \in Sessions, NEW new \in Tx, tx' = [tx EXCEPT ![s] = new]
  PROVE  /\ tx' \in [Sessions -> Tx]
         /\ tx'[s] = new
         /\ \A t \in Sessions \ {s} : tx'[t] = tx[t]
BY DEF TypeOK

LEMMA TxType ==
  ASSUME TypeOK, NEW s \in Sessions
  PROVE  /\ tx[s] \in Tx
         /\ tx[s].stream \in Streams
         /\ tx[s].version \in Nat
         /\ tx[s].at \in Nat
         /\ tx[s].seq \in Nat
         /\ tx[s].fresh \in BOOLEAN
         /\ tx[s].rows \in Seq(Row)
BY DEF TypeOK, Tx

LEMMA RowType ==
  ASSUME TypeOK, NEW s \in Sessions, NEW k \in DOMAIN tx[s].rows
  PROVE  /\ k \in Nat
         /\ tx[s].rows[k] \in Row
         /\ tx[s].rows[k].seq \in Nat
         /\ tx[s].rows[k].version \in Nat
<1>1. tx[s].rows \in Seq(Row)
  BY TxType
<1>2. tx[s].rows[k] \in Row /\ k \in Nat
  BY <1>1
<1> QED
  BY <1>2 DEF Row

SelectVersionTx(s) ==
  IF mt_streams[tx[s].stream] = NoRow
    THEN tx[s]
    ELSE [tx[s] EXCEPT !.version = mt_streams[tx[s].stream]]
NewStreamTx(s) == [tx[s] EXCEPT !.fresh = TRUE]
NextValTx(s) == [tx[s] EXCEPT !.seq = seq + 1]
InsertRow(s, i) == [seq |-> tx[s].seq, version |-> tx[s].version + 1, ev |-> pending[s][i]]
InsertEventTx(s, i) == [tx[s] EXCEPT !.version = tx[s].version + 1, !.at = i,
                                     !.rows = Append(tx[s].rows, InsertRow(s, i))]

LEMMA SelectVersionTxType ==
  ASSUME TypeOK, NEW s \in Sessions, SelectVersion(s)
  PROVE  /\ SelectVersionTx(s) \in Tx
         /\ tx' = [tx EXCEPT ![s] = SelectVersionTx(s)]
<1>1. mt_streams[tx[s].stream] = NoRow \/ mt_streams[tx[s].stream] \in Nat
  BY TxType DEF TypeOK
<1>2. SelectVersionTx(s) \in Tx
  BY <1>1, TxType DEF SelectVersionTx, Tx
<1>3. CASE mt_streams[tx[s].stream] = NoRow
  BY <1>2, <1>3 DEF SelectVersion, SelectVersionTx, TypeOK
<1>4. CASE mt_streams[tx[s].stream] # NoRow
  <2>1. tx' = [tx EXCEPT ![s].version = mt_streams[tx[s].stream]]
    BY <1>4 DEF SelectVersion
  <2> QED
    BY <2>1, <1>2, <1>4 DEF SelectVersionTx
<1> QED
  BY <1>3, <1>4

LEMMA NewStreamTxType ==
  ASSUME TypeOK, NEW s \in Sessions, InsertStream(s), ~Violation(s)
  PROVE  /\ NewStreamTx(s) \in Tx
         /\ tx' = [tx EXCEPT ![s] = NewStreamTx(s)]
<1>1. NewStreamTx(s) \in Tx
  BY TxType DEF NewStreamTx, Tx
<1>2. tx' = [tx EXCEPT ![s].fresh = TRUE]
  BY DEF InsertStream
<1> QED
  BY <1>1, <1>2 DEF NewStreamTx

LEMMA NextValTxType ==
  ASSUME TypeOK, NEW s \in Sessions, NextVal(s)
  PROVE  /\ NextValTx(s) \in Tx
         /\ tx' = [tx EXCEPT ![s] = NextValTx(s)]
<1>1. NextValTx(s) \in Tx
  <2>1. seq + 1 \in Nat
    BY DEF TypeOK
  <2> QED
    BY <2>1, TxType DEF NextValTx, Tx
<1>2. tx' = [tx EXCEPT ![s].seq = seq + 1]
  BY DEF NextVal
<1> QED
  BY <1>1, <1>2 DEF NextValTx

LEMMA InsertEventTxType ==
  ASSUME TypeOK, NEW s \in Sessions, InsertEvent(s), ~Violation(s)
  PROVE  \E i \in DOMAIN pending[s] :
            /\ IsNextEvent(s, tx[s].at, i)
            /\ InsertRow(s, i) \in Row
            /\ InsertEventTx(s, i) \in Tx
            /\ tx' = [tx EXCEPT ![s] = InsertEventTx(s, i)]
            /\ pc' = [pc EXCEPT ![s] =
                         IF \E j \in DOMAIN pending[s] : Later(s, i, j)
                           THEN "nextval" ELSE "update"]
<1>1. PICK i \in DOMAIN pending[s] :
        /\ IsNextEvent(s, tx[s].at, i)
        /\ tx' = [tx EXCEPT ![s].version = tx[s].version + 1, ![s].at = i,
                            ![s].rows = Append(@, InsertRow(s, i))]
        /\ pc' = [pc EXCEPT ![s] =
                     IF \E j \in DOMAIN pending[s] : Later(s, i, j)
                       THEN "nextval" ELSE "update"]
  BY DEF InsertEvent, InsertRow
<1>2. InsertRow(s, i) \in Row
  BY TxType, PendingType DEF Row, InsertRow
<1>3. InsertEventTx(s, i) \in Tx
  <2>1. Append(tx[s].rows, InsertRow(s, i)) \in Seq(Row)
    BY <1>2, TxType
  <2>2. tx[s].version + 1 \in Nat /\ i \in Nat
    BY TxType, PendingType
  <2> QED
    BY <2>1, <2>2, TxType DEF InsertEventTx, Tx
<1>4. tx' = [tx EXCEPT ![s] = InsertEventTx(s, i)]
  BY <1>1, <1>3, TxType DEF InsertEventTx
<1> QED
  BY <1>1, <1>2, <1>3, <1>4

LEMMA ServerType ==
  ASSUME TypeOK, NEW s \in Sessions, Server(s)
  PROVE  TypeOK'
<1> USE DEF txStep, sessionVars, dbVars, poolVars, PCs, InTx
<1>1. CASE Violation(s)
  BY <1>1, ErrorType
<1>2. CASE SelectVersion(s)
  <2>1. UNCHANGED txStep /\ UNCHANGED seq
    BY <1>2 DEF SelectVersion
  <2>2. tx' \in [Sessions -> Tx]
    BY <1>2, SelectVersionTxType, TxUpdate
  <2>3. \/ pc' = [pc EXCEPT ![s] = "newstream"]
        \/ pc' = [pc EXCEPT ![s] = "nextval"]
    BY <1>2 DEF SelectVersion
  <2>4. pc' \in [Sessions -> PCs]
    BY <2>3 DEF TypeOK
  <2> QED
    BY <2>1, <2>2, <2>4 DEF TypeOK, Pool!PoolTypeOK
<1>3. CASE InsertStream(s) /\ ~Violation(s)
  BY <1>3, NewStreamTxType, TxUpdate DEF TypeOK, InsertStream, Pool!PoolTypeOK
<1>4. CASE NextVal(s)
  <2>1. UNCHANGED txStep /\ seq' \in Nat /\ pc' \in [Sessions -> PCs]
    BY <1>4 DEF NextVal, TypeOK
  <2>2. tx' \in [Sessions -> Tx]
    BY <1>4, NextValTxType, TxUpdate
  <2> QED
    BY <2>1, <2>2 DEF TypeOK, Pool!PoolTypeOK
<1>5. CASE InsertEvent(s) /\ ~Violation(s)
  <2>1. UNCHANGED <<txStep, seq>>
    BY <1>5 DEF InsertEvent
  <2>2. tx' \in [Sessions -> Tx] /\ pc' \in [Sessions -> PCs]
    BY <1>5, InsertEventTxType, TxUpdate DEF TypeOK
  <2> QED
    BY <2>1, <2>2 DEF TypeOK, Pool!PoolTypeOK
<1>6. CASE Commit(s)
  <2>1. \A k \in DOMAIN tx[s].rows : tx[s].rows[k] \in Row
    BY TxType
  <2> QED
    BY TxType, <1>6, <2>1 DEF TypeOK, Commit, Pool!PoolTypeOK
<1> QED
  BY <1>1, <1>2, <1>3, <1>4, <1>5, <1>6 DEF Server

LEMMA InitType == Init => TypeOK
<1> SUFFICES ASSUME Init PROVE TypeOK
  OBVIOUS
<1>1. Pool!PoolTypeOK
  <2>1. Pool!Cardinality(Conns) = Cardinality(Conns)
    BY Zenon DEF Pool!Cardinality, Cardinality
  <2>2. Pool!Cardinality(Conns) \in Nat
    BY <2>1, FiniteConns, FS_CardinalityType
  <2> QED
    BY <2>2 DEF Init, Pool!Init, Pool!PoolTypeOK
<1> QED
  BY <1>1, NoTxType DEF Init, TypeOK, PCs, Codes, NoRow
LEMMA NextType == TypeOK /\ [Next]_vars => TypeOK'
<1> SUFFICES ASSUME TypeOK, [Next]_vars PROVE TypeOK'
  OBVIOUS
<1>1. ASSUME NEW s \in Sessions, Progress(s) PROVE TypeOK'
  BY <1>1, UserType, CallType, ErrorType, ServerType DEF Progress
<1>2. ASSUME NEW s \in Sessions,
             \/ \E st \in Streams : AppendEvent(s, st)
             \/ Save(s)
             \/ Unavailable(s)
             \/ ConnectionLost(s)
      PROVE TypeOK'
  BY <1>2, UserType, ErrorType
<1>3. CASE BreakIdle
  <2>1. Pool!PoolTypeOK'
    BY <1>3 DEF BreakIdle, TypeOK, Pool!BreakIdle, Pool!PoolTypeOK, Pool!Idle
  <2> QED
    BY <1>3, <2>1 DEF BreakIdle, Fault, TypeOK, sessionVars, dbVars
<1>4. CASE UNCHANGED vars
  BY <1>4 DEF vars, TypeOK, Pool!PoolTypeOK
<1> QED
  BY <1>1, <1>2, <1>3, <1>4 DEF Next

(* Every variable keeps its type, the transactions' local state included.  *)
THEOREM TypeCorrect == Spec => []TypeOK
BY InitType, NextType, PTL DEF Spec
-----------------------------------------------------------------------------
(* The inductive invariant.                                                *)

TxInvOf(t) == pc[t] \in InTx => TxVersions(t) /\ TxSeqs(t) /\ TxEvents(t)

(* A session that does not move keeps its part of TxInv while the tables   *)
(* stay as they are.                                                       *)
LEMMA StillTx ==
  ASSUME IInv, NEW t \in Sessions, TypeOK, TypeOK',
         pc'[t] = pc[t], tx'[t] = tx[t], pending'[t] = pending[t],
         UNCHANGED <<mt_streams, mt_events>>, seq <= seq'
  PROVE  TxInvOf(t)'
<1> SUFFICES ASSUME pc[t] \in InTx
             PROVE  (TxVersions(t) /\ TxSeqs(t) /\ TxEvents(t))'
  BY DEF TxInvOf
<1>1. TxVersions(t) /\ TxSeqs(t) /\ TxEvents(t)
  BY DEF IInv, TxInv
<1>2. TxVersions(t)'
  BY <1>1 DEF TxVersions, Base, Current
<1>3. TxSeqs(t)'
  <2>1. tx[t].seq <= seq'
    BY <1>1, TxType DEF TxSeqs, TypeOK
  <2> QED
    BY <2>1, <1>1 DEF TxSeqs, Base
<1>4. TxEvents(t)'
  BY <1>1 DEF TxEvents
<1> QED
  BY <1>2, <1>3, <1>4

(* Steps that leave the tables alone and after which the session has no    *)
(* open transaction.                                                       *)
LEMMA OutsideTx ==
  ASSUME IInv, TypeOK, TypeOK', NEW s \in Sessions,
         UNCHANGED <<mt_streams, mt_events, seq>>,
         pc'[s] \notin InTx,
         \A t \in Sessions \ {s} :
            pc'[t] = pc[t] /\ tx'[t] = tx[t] /\ pending'[t] = pending[t]
  PROVE  (VersionsContiguous /\ SeqFollowsVersion /\ TxInv /\ OneWriter /\ SeqsDrawn)'
<1>1. TxInv'
  <2>0. seq <= seq'
    BY DEF TypeOK
  <2>1. \A t \in Sessions \ {s} : TxInvOf(t)'
    BY <2>0, StillTx
  <2>2. TxInvOf(s)'
    BY DEF TxInvOf
  <2> QED
    BY <2>1, <2>2 DEF TxInv, TxInvOf
<1>2. OneWriter'
  BY DEF IInv, OneWriter
<1>3. (VersionsContiguous /\ SeqFollowsVersion /\ SeqsDrawn)'
  BY DEF IInv, VersionsContiguous, SeqFollowsVersion, SeqsDrawn
<1> QED
  BY <1>1, <1>2, <1>3
LEMMA AppendEventInv ==
  ASSUME IInv, TypeOK, TypeOK', NEW s \in Sessions, NEW st \in Streams, AppendEvent(s, st)
  PROVE  IInv'
<1> DEFINE e == [by |-> s, no |-> appended[s] + 1, stream |-> st]
<1>1. /\ pc[s] = "idle"
      /\ UNCHANGED <<pc, todo, tx, mt_streams, mt_events, seq>>
      /\ pending' = [pending EXCEPT ![s] = Append(@, e)]
      /\ appended' = [appended EXCEPT ![s] = @ + 1]
  BY DEF AppendEvent, dbVars
<1>2. (VersionsContiguous /\ SeqFollowsVersion /\ TxInv /\ OneWriter /\ SeqsDrawn)'
  BY <1>1, OutsideTx DEF TypeOK, InTx
<1>3. PICK n \in Nat : n = Len(pending[s]) /\ DOMAIN pending[s] = 1..n
  BY DEF TypeOK
<1>4. /\ DOMAIN pending'[s] = 1..(n + 1)
      /\ pending'[s][n + 1] = e
      /\ \A i \in 1..n : pending'[s][i] = pending[s][i]
  BY <1>1, <1>3 DEF TypeOK
<1>5. \A t \in Sessions \ {s} : pending'[t] = pending[t] /\ appended'[t] = appended[t]
  BY <1>1 DEF TypeOK
<1>6. NothingLost'
  <2> SUFFICES ASSUME NEW t \in Sessions, NEW m \in 1..appended'[t]
               PROVE  \/ \E i \in DOMAIN pending'[t] : pending'[t][i].no = m
                      \/ \E r \in mt_events : r.ev.by = t /\ r.ev.no = m
    BY <1>1 DEF NothingLost
  <2>1. CASE t # s
    BY <2>1, <1>5 DEF IInv, NothingLost
  <2>2. CASE t = s /\ m = appended[s] + 1
    <3>1. n + 1 \in DOMAIN pending'[s] /\ pending'[s][n + 1].no = m
      BY <2>2, <1>3, <1>4
    <3> QED
      BY <3>1, <2>2
  <2>3. CASE t = s /\ m \in 1..appended[s]
    BY <2>3, <1>3, <1>4 DEF IInv, NothingLost
  <2>4. t = s => m = appended[s] + 1 \/ m \in 1..appended[s]
    BY <1>1 DEF TypeOK
  <2> QED
    BY <2>1, <2>2, <2>3, <2>4
<1>7. SaveInv'
  <2> SUFFICES ASSUME NEW t \in Sessions, NEW i \in DOMAIN pending'[t]
               PROVE  /\ pending'[t][i].by = t
                      /\ pc[t] # "idle" /\ pending'[t][i].stream \notin todo[t]
                           => \E r \in mt_events : r.ev = pending'[t][i]
                      /\ pc[t] = "reply" /\ pending'[t][i].stream = tx[t].stream
                           => \E r \in mt_events : r.ev = pending'[t][i]
    BY <1>1 DEF SaveInv, Stored
  <2>1. CASE t # s
    BY <2>1, <1>5 DEF IInv, SaveInv, Stored
  <2>2. CASE t = s
    <3>1. i = n + 1 \/ i \in 1..n
      BY <2>2, <1>4
    <3> QED
      BY <3>1, <2>2, <1>1, <1>3, <1>4 DEF IInv, SaveInv
  <2> QED
    BY <2>1, <2>2
<1> QED
  BY <1>2, <1>6, <1>7 DEF IInv

LEMMA SaveCallInv ==
  ASSUME IInv, TypeOK, TypeOK', NEW s \in Sessions, Save(s)
  PROVE  IInv'
<1>1. /\ pc' = [pc EXCEPT ![s] = "loop"]
      /\ todo' = [todo EXCEPT ![s] = {pending[s][i].stream : i \in DOMAIN pending[s]}]
      /\ UNCHANGED <<pending, appended, tx, mt_streams, mt_events, seq>>
  BY DEF Save, dbVars
<1>2. (VersionsContiguous /\ SeqFollowsVersion /\ TxInv /\ OneWriter /\ SeqsDrawn)'
  BY <1>1, OutsideTx DEF TypeOK, InTx
<1>3. NothingLost'
  BY <1>1 DEF IInv, NothingLost
<1>4. SaveInv'
  <2>1. /\ pc'[s] = "loop"
        /\ todo'[s] = {pending[s][i].stream : i \in DOMAIN pending[s]}
        /\ \A t \in Sessions \ {s} : pc'[t] = pc[t] /\ todo'[t] = todo[t]
    BY <1>1 DEF TypeOK
  <2>2. \A i \in DOMAIN pending[s] : pending[s][i].by = s /\ pending[s][i].stream \in todo'[s]
    BY <2>1 DEF IInv, SaveInv
  <2> QED
    BY <1>1, <2>1, <2>2 DEF IInv, SaveInv, Stored
<1> QED
  BY <1>2, <1>3, <1>4 DEF IInv

LEMMA ReceiveInv ==
  ASSUME IInv, TypeOK, TypeOK', NEW s \in Sessions, Receive(s)
  PROVE  IInv'
<1>1. /\ pc[s] = "reply"
      /\ pc' = [pc EXCEPT ![s] = "loop"]
      /\ todo' = [todo EXCEPT ![s] = @ \ {tx[s].stream}]
      /\ tx' = [tx EXCEPT ![s] = NoTx]
      /\ UNCHANGED <<pending, appended, mt_streams, mt_events, seq>>
  BY DEF Receive, dbVars
<1>2. (VersionsContiguous /\ SeqFollowsVersion /\ TxInv /\ OneWriter /\ SeqsDrawn)'
  BY <1>1, OutsideTx DEF TypeOK, InTx
<1>3. NothingLost'
  BY <1>1 DEF IInv, NothingLost
<1>4. SaveInv'
  BY <1>1 DEF IInv, SaveInv, Stored, TypeOK
<1> QED
  BY <1>2, <1>3, <1>4 DEF IInv

LEMMA FinishInv ==
  ASSUME IInv, TypeOK, TypeOK', NEW s \in Sessions, Finish(s)
  PROVE  IInv'
<1>1. /\ pc[s] = "loop"
      /\ todo[s] = {}
      /\ pending' = [pending EXCEPT ![s] = << >>]
      /\ pc' = [pc EXCEPT ![s] = "idle"]
      /\ UNCHANGED <<appended, todo, tx, mt_streams, mt_events, seq>>
  BY DEF Finish, dbVars
<1>2. (VersionsContiguous /\ SeqFollowsVersion /\ TxInv /\ OneWriter /\ SeqsDrawn)'
  BY <1>1, OutsideTx DEF TypeOK, InTx
<1>3. \A i \in DOMAIN pending[s] :
        \E r \in mt_events : r.ev.by = s /\ r.ev.no = pending[s][i].no
  BY <1>1 DEF IInv, SaveInv, Stored
<1>4. /\ pending'[s] = << >>
      /\ \A t \in Sessions \ {s} : pending'[t] = pending[t] /\ pc'[t] = pc[t]
  BY <1>1 DEF TypeOK
<1>5. NothingLost'
  <2> SUFFICES ASSUME NEW t \in Sessions, NEW m \in 1..appended[t]
               PROVE  \/ \E i \in DOMAIN pending'[t] : pending'[t][i].no = m
                      \/ \E r \in mt_events : r.ev.by = t /\ r.ev.no = m
    BY <1>1 DEF NothingLost
  <2>1. \/ \E i \in DOMAIN pending[t] : pending[t][i].no = m
        \/ \E r \in mt_events : r.ev.by = t /\ r.ev.no = m
    BY DEF IInv, NothingLost
  <2>2. CASE t = s
    BY <2>1, <2>2, <1>3
  <2>3. CASE t # s
    BY <2>1, <2>3, <1>4
  <2> QED
    BY <2>2, <2>3
<1>6. SaveInv'
  <2> SUFFICES ASSUME NEW t \in Sessions, NEW i \in DOMAIN pending'[t]
               PROVE  /\ pending'[t][i].by = t
                      /\ pc'[t] # "idle" /\ pending'[t][i].stream \notin todo[t]
                           => \E r \in mt_events : r.ev = pending'[t][i]
                      /\ pc'[t] = "reply" /\ pending'[t][i].stream = tx[t].stream
                           => \E r \in mt_events : r.ev = pending'[t][i]
    BY <1>1 DEF SaveInv, Stored
  <2>1. t # s
    BY <1>4
  <2> QED
    BY <2>1, <1>4 DEF IInv, SaveInv, Stored
<1> QED
  BY <1>2, <1>5, <1>6 DEF IInv

LEMMA FailInv ==
  ASSUME IInv, TypeOK, TypeOK', NEW s \in Sessions, NEW code \in Codes, Fail(s, code),
         UNCHANGED <<mt_streams, mt_events, seq>>
  PROVE  IInv'
<1>1. /\ pc' = [pc EXCEPT ![s] = "idle"]
      /\ todo' = [todo EXCEPT ![s] = {}]
      /\ tx' = [tx EXCEPT ![s] = NoTx]
      /\ UNCHANGED <<pending, appended, mt_streams, mt_events, seq>>
  BY DEF Fail
<1>2. (VersionsContiguous /\ SeqFollowsVersion /\ TxInv /\ OneWriter /\ SeqsDrawn)'
  BY <1>1, OutsideTx DEF TypeOK, InTx
<1>3. NothingLost'
  BY <1>1 DEF IInv, NothingLost
<1>4. SaveInv'
  BY <1>1 DEF IInv, SaveInv, Stored, TypeOK
<1> QED
  BY <1>2, <1>3, <1>4 DEF IInv

LEMMA ErrorInv ==
  ASSUME IInv, TypeOK, TypeOK', NEW s \in Sessions,
         Unavailable(s) \/ SentOnDead(s) \/ ConnectionLost(s) \/ Violation(s)
  PROVE  IInv'
<1>1. PICK code \in {400, 500, 503} : Fail(s, code)
  BY DEF Unavailable, SentOnDead, ConnectionLost, Violation
<1>2. UNCHANGED <<mt_streams, mt_events, seq>>
  BY DEF Unavailable, SentOnDead, ConnectionLost, Violation, dbVars
<1> QED
  BY <1>1, <1>2, CodesOfFail, FailInv

(* Steps inside a transaction that leave the tables alone.                 *)
Writes(t, st) == pc[t] \in InTx /\ tx[t].stream = st /\ tx[t].rows # << >>

LEMMA InsideTx ==
  ASSUME IInv, TypeOK, TypeOK', NEW s \in Sessions,
         UNCHANGED <<pending, appended, todo, mt_streams, mt_events>>,
         seq <= seq',
         pc[s] # "idle", pc'[s] \in InTx,
         \A t \in Sessions \ {s} : pc'[t] = pc[t] /\ tx'[t] = tx[t],
         TxInvOf(s)',
         Writes(s, tx[s].stream)' =>
            \/ Writes(s, tx'[s].stream)
            \/ \A t \in Sessions \ {s} : ~Writes(t, tx'[s].stream)
  PROVE  IInv'
<1>1. TxInv'
  <2>1. \A t \in Sessions \ {s} : TxInvOf(t)'
    BY StillTx
  <2> QED
    BY <2>1 DEF TxInv, TxInvOf
<1>2. OneWriter'
  <2>1. \A t, u \in Sessions, st \in Streams : Writes(t, st) /\ Writes(u, st) => t = u
    BY DEF IInv, OneWriter, Writes
  <2>2. \A t \in Sessions \ {s}, st \in Streams : Writes(t, st)' <=> Writes(t, st)
    BY DEF Writes
  <2>3. \A t, u \in Sessions, st \in Streams : Writes(t, st)' /\ Writes(u, st)' => t = u
    <3> SUFFICES ASSUME NEW t \in Sessions \ {s}, NEW st \in Streams,
                        Writes(t, st)', Writes(s, st)'
                 PROVE  FALSE
      BY <2>1, <2>2
    <3>1. st = tx'[s].stream
      BY DEF Writes
    <3>2. Writes(t, tx'[s].stream)
      BY <3>1, <2>2
    <3>3. Writes(s, tx[s].stream)'
      BY <3>1
    <3>4. Writes(s, tx'[s].stream)
      BY <3>2, <3>3
    <3> QED
      BY <3>1, <3>2, <3>4, <2>1
  <2>4. \A t \in Sessions : tx'[t].stream \in Streams
    BY DEF TypeOK, Tx
  <2> QED
    BY <2>3, <2>4 DEF OneWriter, Writes
<1>3. (VersionsContiguous /\ SeqFollowsVersion)'
  BY DEF IInv, VersionsContiguous, SeqFollowsVersion
<1>4. NothingLost'
  BY DEF IInv, NothingLost
<1>5. SeqsDrawn'
  <2>1. \A r \in mt_events : r.seq \in Nat
    BY DEF TypeOK, Row
  <2> QED
    BY <2>1 DEF IInv, SeqsDrawn, TypeOK
<1>6. SaveInv'
  <2>1. "idle" \notin InTx /\ "reply" \notin InTx
    BY DEF InTx
  <2> SUFFICES ASSUME NEW t \in Sessions, NEW i \in DOMAIN pending[t]
               PROVE  /\ pending[t][i].by = t
                      /\ pc'[t] # "idle" /\ pending[t][i].stream \notin todo[t]
                           => Stored(pending[t][i])
                      /\ pc'[t] = "reply" /\ pending[t][i].stream = tx'[t].stream
                           => Stored(pending[t][i])
    BY DEF SaveInv, Stored
  <2> QED
    BY <2>1 DEF IInv, SaveInv
<1> QED
  BY <1>1, <1>2, <1>3, <1>4, <1>5, <1>6 DEF IInv

LEMMA SendInv ==
  ASSUME IInv, TypeOK, TypeOK', NEW s \in Sessions, NEW st \in Streams, Send(s, st)
  PROVE  IInv'
<1> DEFINE new == [NoTx EXCEPT !.stream = st]
<1>1. /\ pc[s] = "loop"
      /\ pc' = [pc EXCEPT ![s] = "select"]
      /\ tx' = [tx EXCEPT ![s] = new]
      /\ UNCHANGED <<pending, appended, todo, mt_streams, mt_events, seq>>
  BY DEF Send, sessionVars, dbVars
<1>2. /\ new \in Tx
      /\ new.stream = st /\ new.version = 0 /\ new.at = 0 /\ new.seq = 0 /\ new.rows = << >>
  BY NoTxType DEF Tx, NoTx
<1>3. pc'[s] = "select" /\ tx'[s] = new
  BY <1>1, <1>2, TxUpdate DEF TypeOK
<1>4. TxInvOf(s)'
  <2>1. TxVersions(s)'
    <3>1. Base(s)' = 0
      BY <1>2, <1>3 DEF Base
    <3>2. Current(st)' \in Nat
      BY <1>1 DEF Current, TypeOK, NoRow
    <3> QED
      BY <3>1, <3>2, <1>2, <1>3 DEF TxVersions
  <2>2. TxSeqs(s)'
    BY <1>1, <1>2, <1>3 DEF TxSeqs, TypeOK
  <2>3. TxEvents(s)'
    <3>1. \A i \in DOMAIN pending[s] : i \in Nat /\ ~(i <= 0)
      BY DEF TypeOK
    <3>2. pending' = pending /\ pc'[s] # "update" /\ tx'[s].at = 0
      BY <1>1, <1>2, <1>3
    <3> QED
      BY <3>1, <3>2 DEF TxEvents
  <2> QED
    BY <2>1, <2>2, <2>3 DEF TxInvOf
<1>5. /\ pc'[s] \in InTx
      /\ \A t \in Sessions \ {s} : pc'[t] = pc[t] /\ tx'[t] = tx[t]
      /\ seq <= seq'
  BY <1>1, <1>3 DEF TypeOK, InTx
<1>6. ~Writes(s, tx[s].stream)'
  BY <1>2, <1>3 DEF Writes
<1> QED
  BY <1>1, <1>4, <1>5, <1>6, InsideTx

LEMMA SelectVersionInv ==
  ASSUME IInv, TypeOK, TypeOK', NEW s \in Sessions, SelectVersion(s)
  PROVE  IInv'
<1> DEFINE new == SelectVersionTx(s)
           st == tx[s].stream
<1>1. /\ pc[s] = "select"
      /\ pc' = [pc EXCEPT ![s] = IF mt_streams[st] = NoRow THEN "newstream" ELSE "nextval"]
      /\ UNCHANGED <<pending, appended, todo, mt_streams, mt_events, seq>>
  BY DEF SelectVersion, At, txStep, sessionVars, dbVars
<1>2. new \in Tx /\ tx' = [tx EXCEPT ![s] = new]
  BY SelectVersionTxType
<1>3. /\ pc'[s] = IF mt_streams[st] = NoRow THEN "newstream" ELSE "nextval"
      /\ tx'[s] = new
      /\ \A t \in Sessions \ {s} : pc'[t] = pc[t] /\ tx'[t] = tx[t]
  BY <1>1, <1>2, TxUpdate DEF TypeOK
<1>4. /\ new.stream = st /\ new.at = tx[s].at /\ new.seq = tx[s].seq /\ new.rows = tx[s].rows
      /\ new.version = IF mt_streams[st] = NoRow THEN tx[s].version ELSE mt_streams[st]
  BY TxType DEF SelectVersionTx, Tx
<1>5. TxVersions(s) /\ TxSeqs(s) /\ TxEvents(s) /\ tx[s].rows = << >> /\ tx[s].version = 0
  BY <1>1 DEF IInv, TxInv, InTx, TxVersions
<1>6. new.version = Current(st) /\ Current(st) \in Nat
  BY <1>4, <1>5, TxType DEF Current, TypeOK, NoRow
<1>7. TxInvOf(s)'
  <2>1. TxVersions(s)'
    <3>1. Base(s)' = Current(st)
      BY <1>3, <1>4, <1>5, <1>6 DEF Base
    <3>2. tx'[s].stream = tx[s].stream
      BY <1>3, <1>4
    <3>3. Current(tx[s].stream)' = Current(tx[s].stream)
      BY <3>2, <1>1 DEF Current
    <3>4. Base(s)' \in 0..Current(tx[s].stream)'
      BY <3>1, <3>3, <1>6
    <3>5. pc'[s] \in {"select", "newstream"} => new.version = 0
      BY <1>3, <1>4, <1>5
    <3>6. tx'[s].rows = << >> /\ pc'[s] # "update"
      BY <1>3, <1>4, <1>5
    <3> QED
      BY <3>4, <3>5, <3>6, <1>3 DEF TxVersions
  <2>2. TxSeqs(s)'
    <3>1. pc'[s] # "insert" /\ DOMAIN new.rows = {}
      BY <1>3, <1>4, <1>5
    <3>2. tx[s].seq <= seq
      BY <1>5 DEF TxSeqs
    <3> QED
      BY <3>1, <3>2, <1>1, <1>3, <1>4 DEF TxSeqs
  <2>3. TxEvents(s)'
    BY <1>1, <1>3, <1>4, <1>5 DEF TxEvents
  <2> QED
    BY <2>1, <2>2, <2>3 DEF TxInvOf
<1>8. pc'[s] \in InTx /\ seq <= seq'
  BY <1>1, <1>3 DEF TypeOK, InTx
<1>9. ~Writes(s, tx[s].stream)'
  BY <1>3, <1>4, <1>5 DEF Writes
<1> QED
  BY <1>1, <1>3, <1>7, <1>8, <1>9, InsideTx

LEMMA NewStreamInv ==
  ASSUME IInv, TypeOK, TypeOK', NEW s \in Sessions, InsertStream(s), ~Violation(s)
  PROVE  IInv'
<1> DEFINE new == NewStreamTx(s)
<1>1. /\ pc[s] = "newstream"
      /\ pc' = [pc EXCEPT ![s] = "nextval"]
      /\ UNCHANGED <<pending, appended, todo, mt_streams, mt_events, seq>>
  BY DEF InsertStream, At, txStep, sessionVars, dbVars
<1>2. new \in Tx /\ tx' = [tx EXCEPT ![s] = new]
  BY NewStreamTxType
<1>3. /\ pc'[s] = "nextval"
      /\ tx'[s] = new
      /\ \A t \in Sessions \ {s} : pc'[t] = pc[t] /\ tx'[t] = tx[t]
  BY <1>1, <1>2, TxUpdate DEF TypeOK
<1>4. /\ new.stream = tx[s].stream /\ new.at = tx[s].at /\ new.seq = tx[s].seq
      /\ new.rows = tx[s].rows /\ new.version = tx[s].version
  BY TxType DEF NewStreamTx, Tx
<1>5. TxVersions(s) /\ TxSeqs(s) /\ TxEvents(s) /\ tx[s].rows = << >>
  BY <1>1 DEF IInv, TxInv, InTx, TxVersions
<1>6. TxInvOf(s)'
  <2>1. TxVersions(s)'
    BY <1>1, <1>3, <1>4, <1>5 DEF TxVersions, Base, Current
  <2>2. TxSeqs(s)'
    <3>1. pc'[s] # "insert" /\ DOMAIN new.rows = {}
      BY <1>3, <1>4, <1>5
    <3>2. tx[s].seq <= seq
      BY <1>5 DEF TxSeqs
    <3> QED
      BY <3>1, <3>2, <1>1, <1>3, <1>4 DEF TxSeqs
  <2>3. TxEvents(s)'
    BY <1>1, <1>3, <1>4, <1>5 DEF TxEvents
  <2> QED
    BY <2>1, <2>2, <2>3 DEF TxInvOf
<1>7. pc'[s] \in InTx /\ seq <= seq'
  BY <1>1, <1>3 DEF TypeOK, InTx
<1>8. ~Writes(s, tx[s].stream)'
  BY <1>3, <1>4, <1>5 DEF Writes
<1> QED
  BY <1>1, <1>3, <1>6, <1>7, <1>8, InsideTx

LEMMA NextValInv ==
  ASSUME IInv, TypeOK, TypeOK', NEW s \in Sessions, NextVal(s)
  PROVE  IInv'
<1> DEFINE new == NextValTx(s)
<1>1. /\ pc[s] = "nextval"
      /\ pc' = [pc EXCEPT ![s] = "insert"]
      /\ seq' = seq + 1
      /\ UNCHANGED <<pending, appended, todo, mt_streams, mt_events>>
  BY DEF NextVal, At, txStep, sessionVars, dbVars
<1>2. new \in Tx /\ tx' = [tx EXCEPT ![s] = new]
  BY NextValTxType
<1>3. /\ pc'[s] = "insert"
      /\ tx'[s] = new
      /\ \A t \in Sessions \ {s} : pc'[t] = pc[t] /\ tx'[t] = tx[t]
  BY <1>1, <1>2, TxUpdate DEF TypeOK
<1>4. /\ new.stream = tx[s].stream /\ new.at = tx[s].at /\ new.seq = seq + 1
      /\ new.rows = tx[s].rows /\ new.version = tx[s].version
  BY TxType DEF NextValTx, Tx
<1>5. TxVersions(s) /\ TxSeqs(s) /\ TxEvents(s)
  BY <1>1 DEF IInv, TxInv, InTx
<1>6. TxInvOf(s)'
  <2>1. TxVersions(s)'
    BY <1>1, <1>3, <1>4, <1>5 DEF TxVersions, Base, Current
  <2>2. TxSeqs(s)'
    <3>1. /\ seq \in Nat /\ tx[s].seq \in Nat /\ tx[s].seq <= seq
          /\ \A k \in DOMAIN tx[s].rows : tx[s].rows[k].seq \in Nat
          /\ \A r \in mt_events : r.seq \in Nat /\ r.seq <= seq
      <4>1. \A r \in mt_events : r.seq \in Nat /\ r.seq <= seq
        BY DEF TypeOK, Row, IInv, SeqsDrawn
      <4>2. \A k \in DOMAIN tx[s].rows : tx[s].rows[k].seq \in Nat
        BY RowType
      <4> QED
        BY <4>1, <4>2, <1>5, TxType DEF TxSeqs, TypeOK
    <3>2. \A k \in DOMAIN tx[s].rows :
             /\ tx[s].rows[k].seq < seq + 1
             /\ tx[s].rows[k].seq <= seq + 1
      BY <3>1, <1>5 DEF TxSeqs
    <3>3. \A r \in mt_events : r.seq < seq + 1
      BY <3>1
    <3>4. Base(s)' = Base(s)
      BY <1>3, <1>4 DEF Base
    <3>5. \A k, l \in DOMAIN tx[s].rows : k < l => tx[s].rows[k].seq < tx[s].rows[l].seq
      BY <1>5 DEF TxSeqs
    <3>6. \A r \in mt_events : r.ev.stream = tx[s].stream /\ r.version <= Base(s) =>
             \A k \in DOMAIN tx[s].rows : r.seq < tx[s].rows[k].seq
      BY <1>5 DEF TxSeqs
    <3>7. seq + 1 <= seq'
      BY <3>1, <1>1
    <3> QED
      BY <3>2, <3>3, <3>4, <3>5, <3>6, <3>7, <1>1, <1>3, <1>4 DEF TxSeqs
  <2>3. TxEvents(s)'
    BY <1>1, <1>3, <1>4, <1>5 DEF TxEvents
  <2> QED
    BY <2>1, <2>2, <2>3 DEF TxInvOf
<1>7. pc[s] \in InTx /\ pc'[s] \in InTx /\ seq <= seq' /\ pc[s] # "idle"
  BY <1>1, <1>3 DEF TypeOK, InTx
<1>8. Writes(s, tx[s].stream)' => Writes(s, tx'[s].stream)
  BY <1>3, <1>4, <1>7 DEF Writes
<1> QED
  BY <1>1, <1>3, <1>6, <1>7, <1>8, InsideTx

(* The first insert of a transaction finds its version free only if that   *)
(* is the one after the committed version.                                 *)
LEMMA NextVersion ==
  ASSUME IInv, TypeOK, NEW s \in Sessions, pc[s] \in InTx,
         ~Committed(tx[s].stream, tx[s].version + 1)
  PROVE  /\ Base(s) = Current(tx[s].stream)
         /\ Current(tx[s].stream) \in Nat
<1> DEFINE st == tx[s].stream
<1>1. /\ TxVersions(s)
      /\ st \in Streams /\ tx[s].version \in Nat
      /\ mt_streams[st] \in Nat \cup {NoRow}
  BY TxType DEF IInv, TxInv, TypeOK
<1>2. Current(st) \in Nat
  BY <1>1 DEF Current, NoRow
<1>3. CASE tx[s].rows # << >>
  BY <1>1, <1>2, <1>3 DEF TxVersions
<1>4. CASE tx[s].rows = << >>
  <2>1. Base(s) = tx[s].version /\ Base(s) \in 0..Current(st)
    BY <1>1, <1>4 DEF Base, TxVersions
  <2>2. CASE tx[s].version < Current(st)
    <3>1. tx[s].version + 1 \in 1..mt_streams[st]
      BY <1>1, <1>2, <2>2 DEF Current, NoRow
    <3>2. Committed(st, tx[s].version + 1)
      BY <1>1, <3>1 DEF IInv, VersionsContiguous, Committed
    <3> QED
      BY <3>2
  <2> QED
    BY <1>1, <1>2, <2>1, <2>2
<1> QED
  BY <1>3, <1>4

LEMMA InsertEventInv ==
  ASSUME IInv, TypeOK, TypeOK', NEW s \in Sessions, InsertEvent(s), ~Violation(s)
  PROVE  IInv'
<1> DEFINE st == tx[s].stream
           rows == tx[s].rows
           v == tx[s].version + 1
<1>1. /\ pc[s] = "insert"
      /\ ~RowLocked(s, st, v) /\ ~Committed(st, v)
      /\ UNCHANGED <<pending, appended, todo, mt_streams, mt_events, seq>>
  BY DEF InsertEvent, At, txStep, sessionVars, dbVars
<1>2. PICK i \in DOMAIN pending[s] :
        /\ IsNextEvent(s, tx[s].at, i)
        /\ InsertRow(s, i) \in Row
        /\ InsertEventTx(s, i) \in Tx
        /\ tx' = [tx EXCEPT ![s] = InsertEventTx(s, i)]
        /\ pc' = [pc EXCEPT ![s] =
                     IF \E j \in DOMAIN pending[s] : Later(s, i, j)
                       THEN "nextval" ELSE "update"]
  BY InsertEventTxType
<1> DEFINE row == InsertRow(s, i)
           new == InsertEventTx(s, i)
<1>3. /\ pc'[s] = IF \E j \in DOMAIN pending[s] : Later(s, i, j) THEN "nextval" ELSE "update"
      /\ tx'[s] = new
      /\ \A t \in Sessions \ {s} : pc'[t] = pc[t] /\ tx'[t] = tx[t]
  BY <1>2, TxUpdate DEF TypeOK
<1>4. /\ new.stream = st /\ new.at = i /\ new.seq = tx[s].seq
      /\ new.version = v /\ new.rows = Append(rows, row)
      /\ row.seq = tx[s].seq /\ row.version = v /\ row.ev = pending[s][i]
  BY TxType DEF InsertEventTx, InsertRow, Tx
<1>5. PICK n \in Nat : /\ n = Len(rows) /\ DOMAIN rows = 1..n
                       /\ DOMAIN new.rows = 1..(n + 1) /\ Len(new.rows) = n + 1
                       /\ new.rows[n + 1] = row
                       /\ \A k \in 1..n : new.rows[k] = rows[k]
  <2>1. rows \in Seq(Row) /\ row \in Row
    BY TxType, <1>2
  <2> QED
    BY <2>1, <1>4
<1>6. TxVersions(s) /\ TxSeqs(s) /\ TxEvents(s) /\ pc[s] \in InTx
  BY <1>1 DEF IInv, TxInv, InTx
<1>7. Base(s) = Current(st) /\ Current(st) \in Nat /\ v = Current(st) + n + 1
  BY <1>1, <1>5, <1>6, NextVersion, TxType DEF Base
<1>8. TxVersions(s)'
  <2>1. Base(s)' = Current(st)
    BY <1>3, <1>4, <1>5, <1>7 DEF Base
  <2>2. Current(tx[s].stream)' = Current(tx[s].stream)
    BY <1>1, <1>3, <1>4 DEF Current
  <2>3. \A k \in 1..(n + 1) : /\ new.rows[k].ev.stream = st
                              /\ new.rows[k].version = Current(st) + k
    <3>1. \A k \in 1..n : /\ rows[k].ev.stream = st
                          /\ rows[k].version = Current(st) + k
      BY <1>5, <1>6, <1>7 DEF TxVersions
    <3>2. row.ev.stream = st /\ row.version = Current(st) + (n + 1)
      BY <1>2, <1>4, <1>7 DEF IsNextEvent, Later
    <3>3. \A k \in 1..(n + 1) : k \in 1..n \/ k = n + 1
      OBVIOUS
    <3> QED
      BY <3>1, <3>2, <3>3, <1>5
  <2>4. new.rows # << >> /\ pc'[s] \notin {"select", "newstream"}
    BY <1>3, <1>5
  <2>5. /\ tx'[s].rows = new.rows /\ tx'[s].stream = st
        /\ DOMAIN new.rows = 1..(n + 1)
    BY <1>3, <1>4, <1>5
  <2>6. Base(s)' \in 0..Current(tx[s].stream)' /\ Base(s)' = Current(tx[s].stream)'
    BY <2>1, <2>2, <1>7
  <2>7. \A k \in DOMAIN tx'[s].rows : /\ tx'[s].rows[k].ev.stream = tx'[s].stream
                                      /\ tx'[s].rows[k].version = Base(s)' + k
    BY <2>1, <2>3, <2>5
  <2>8. tx'[s].rows # << >> /\ pc'[s] \notin {"select", "newstream"}
    BY <2>4, <2>5
  <2> QED
    BY <2>6, <2>7, <2>8 DEF TxVersions
<1>9. TxSeqs(s)'
  <2>1. tx'[s].seq <= seq'
    BY <1>1, <1>3, <1>4, <1>6 DEF TxSeqs
  <2>2. /\ tx[s].seq \in Nat
        /\ \A k \in 1..n : rows[k].seq \in Nat /\ rows[k].seq < tx[s].seq
    BY <1>1, <1>5, <1>6, TxType, RowType DEF TxSeqs
  <2>3. \A k \in 1..(n + 1) : new.rows[k].seq <= tx[s].seq
    <3>1. \A k \in 1..(n + 1) : k \in 1..n \/ k = n + 1
      OBVIOUS
    <3> QED
      BY <3>1, <2>2, <1>4, <1>5
  <2>4. \A k, l \in 1..(n + 1) : k < l => new.rows[k].seq < new.rows[l].seq
    <3> SUFFICES ASSUME NEW k \in 1..(n + 1), NEW l \in 1..(n + 1), k < l
                 PROVE  new.rows[k].seq < new.rows[l].seq
      OBVIOUS
    <3>1. k \in 1..n /\ new.rows[k] = rows[k]
      BY <1>5
    <3>2. CASE l = n + 1
      BY <3>1, <3>2, <2>2, <1>4, <1>5
    <3>3. CASE l \in 1..n
      BY <3>1, <3>3, <1>5, <1>6 DEF TxSeqs
    <3> QED
      BY <3>2, <3>3
  <2>5. \A r \in mt_events : r.ev.stream = st /\ r.version <= Base(s) =>
           \A k \in 1..(n + 1) : r.seq < new.rows[k].seq
    <3> SUFFICES ASSUME NEW r \in mt_events, r.ev.stream = st, r.version <= Base(s),
                        NEW k \in 1..(n + 1)
                 PROVE  r.seq < new.rows[k].seq
      OBVIOUS
    <3>1. CASE k = n + 1
      BY <3>1, <1>1, <1>4, <1>5, <1>6 DEF TxSeqs
    <3>2. CASE k \in 1..n
      BY <3>2, <1>5, <1>6 DEF TxSeqs
    <3> QED
      BY <3>1, <3>2
  <2>6. Base(s)' = Base(s)
    BY <1>3, <1>4, <1>5, <1>7 DEF Base
  <2>7. pc'[s] # "insert"
    BY <1>3
  <2>8. /\ tx'[s].rows = new.rows /\ tx'[s].stream = st /\ tx'[s].seq = tx[s].seq
        /\ DOMAIN new.rows = 1..(n + 1) /\ mt_events' = mt_events
    BY <1>1, <1>3, <1>4, <1>5
  <2>9. \A k \in DOMAIN tx'[s].rows :
           /\ tx'[s].rows[k].seq <= tx'[s].seq
           /\ \A l \in DOMAIN tx'[s].rows : k < l => tx'[s].rows[k].seq < tx'[s].rows[l].seq
    BY <2>3, <2>4, <2>8
  <2>10. \A r \in mt_events' : r.ev.stream = tx'[s].stream /\ r.version <= Base(s)' =>
            \A k \in DOMAIN tx'[s].rows : r.seq < tx'[s].rows[k].seq
    BY <2>5, <2>6, <2>8
  <2> QED
    BY <2>1, <2>7, <2>9, <2>10 DEF TxSeqs
<1>10. TxEvents(s)'
  <2>1. \A j \in DOMAIN pending[s] : j \in Nat
    BY PendingType
  <2>2. ASSUME NEW j \in DOMAIN pending[s], pending[s][j].stream = st, j <= i
        PROVE  \E k \in 1..(n + 1) : new.rows[k].ev = pending[s][j]
    <3>1. CASE j <= tx[s].at
      <4>1. PICK k \in 1..n : rows[k].ev = pending[s][j]
        BY <2>2, <3>1, <1>5, <1>6 DEF TxEvents
      <4> QED
        BY <4>1, <1>5
    <3>2. CASE j > tx[s].at
      <4>1. i <= j
        BY <2>2, <3>2, <1>2 DEF IsNextEvent, Later
      <4>2. j = i
        BY <4>1, <2>1, <2>2
      <4> QED
        BY <4>2, <1>4, <1>5
    <3> QED
      BY <3>1, <3>2, <2>1, TxType
  <2>3. ASSUME pc'[s] = "update", NEW j \in DOMAIN pending[s], pending[s][j].stream = st
        PROVE  j <= i
    <3>1. ~Later(s, i, j)
      BY <2>3, <1>3
    <3> QED
      BY <3>1, <2>1, <2>3 DEF Later
  <2> QED
    BY <2>2, <2>3, <1>1, <1>3, <1>4, <1>5 DEF TxEvents
<1>11. pc'[s] \in InTx /\ seq <= seq' /\ pc[s] # "idle"
  BY <1>1, <1>3 DEF TypeOK, InTx
<1>12. \A t \in Sessions \ {s} : Writes(t, st) => FALSE
  <2> SUFFICES ASSUME NEW t \in Sessions \ {s}, Writes(t, st) PROVE FALSE
    OBVIOUS
  <2>1. pc[t] \in InTx /\ tx[t].stream = st /\ tx[t].rows # << >>
    BY DEF Writes
  <2>2. 1 \in DOMAIN tx[t].rows
    BY <2>1, TxType
  <2>3. TxVersions(t)
    BY <2>1 DEF IInv, TxInv
  <2>4. tx[t].rows[1].ev.stream = st /\ tx[t].rows[1].version = Current(st) + 1
    BY <2>1, <2>2, <2>3 DEF TxVersions
  <2>5. CASE n = 0
    BY <2>1, <2>2, <2>4, <2>5, <1>1, <1>7 DEF RowLocked
  <2>6. CASE n # 0
    BY <2>1, <2>6, <1>5, <1>6 DEF IInv, OneWriter
  <2> QED
    BY <2>5, <2>6
<1>13. \A t \in Sessions \ {s} : ~Writes(t, tx'[s].stream)
  BY <1>12, <1>3, <1>4
<1> QED
  BY <1>1, <1>3, <1>8, <1>9, <1>10, <1>11, <1>13, InsideTx DEF TxInvOf

LEMMA CommitInv ==
  ASSUME IInv, TypeOK, TypeOK', NEW s \in Sessions, Commit(s)
  PROVE  IInv'
<1> DEFINE st == tx[s].stream
           rows == tx[s].rows
           new == {rows[k] : k \in DOMAIN rows}
<1>1. /\ pc[s] = "update"
      /\ mt_streams' = [mt_streams EXCEPT ![st] = tx[s].version]
      /\ mt_events' = mt_events \cup new
      /\ pc' = [pc EXCEPT ![s] = "reply"]
      /\ UNCHANGED <<pending, appended, todo, tx, seq>>
  BY DEF Commit, At, sessionVars
<1>2. /\ pc'[s] = "reply"
      /\ \A t \in Sessions \ {s} : pc'[t] = pc[t]
      /\ st \in Streams /\ tx[s].version \in Nat
      /\ mt_streams'[st] = tx[s].version
      /\ \A other \in Streams \ {st} : mt_streams'[other] = mt_streams[other]
  BY <1>1, TxType DEF TypeOK
<1>3. PICK n \in Nat : n = Len(rows) /\ DOMAIN rows = 1..n
  BY TxType
<1>4. TxVersions(s) /\ TxSeqs(s) /\ TxEvents(s) /\ pc[s] \in InTx
  BY <1>1 DEF IInv, TxInv, InTx
<1> DEFINE c == Current(st)
<1>5. /\ c \in Nat /\ n >= 1 /\ Base(s) = c /\ tx[s].version = c + n
      /\ \A k \in 1..n : rows[k].ev.stream = st /\ rows[k].version = c + k
  <2>1. c \in Nat
    BY <1>2 DEF Current, TypeOK, NoRow
  <2>2. rows # << >> /\ Base(s) = c
    BY <1>1, <1>4 DEF TxVersions
  <2>3. n >= 1
    BY <2>2, <1>3, TxType
  <2>4. tx[s].version = c + n
    BY <2>1, <2>2, <1>2, <1>3 DEF Base
  <2> QED
    BY <2>1, <2>2, <2>3, <2>4, <1>3, <1>4 DEF TxVersions
<1>6. /\ \A r \in new : \E k \in 1..n : r = rows[k]
      /\ \A k \in 1..n : rows[k] \in new
  BY <1>3
<1>7. \A r \in mt_events : /\ r.ev.stream = st => r.version \in 1..c
                           /\ r.version \in Nat /\ r.seq \in Nat
                           /\ r.ev.stream \in Streams
  <2>1. \A r \in mt_events : r.version \in Nat /\ r.seq \in Nat /\ r.ev.stream \in Streams
    BY DEF TypeOK, Row, Event
  <2>2. \A r \in mt_events : r.ev.stream = st => r.version \in 1..mt_streams[st]
    BY DEF IInv, VersionsContiguous
  <2>3. \A v \in 1..mt_streams[st] : v \in 1..c
    BY <1>2 DEF Current, TypeOK, NoRow
  <2> QED
    BY <2>1, <2>2, <2>3
<1>8. ASSUME NEW r \in new
      PROVE  r.ev.stream = st /\ r.version \in (c + 1)..(c + n)
  <2>1. PICK k \in 1..n : r = rows[k]
    BY <1>6
  <2>2. c + k \in (c + 1)..(c + n)
    BY <1>5
  <2> QED
    BY <2>1, <2>2, <1>5
<1>9. VersionsContiguous'
  <2>1. \A r \in mt_events' : r.version \in 1..mt_streams'[r.ev.stream]
    <3>1. ASSUME NEW r \in new PROVE r.version \in 1..mt_streams'[r.ev.stream]
      BY <1>2, <1>5, <1>8
    <3>2. ASSUME NEW r \in mt_events PROVE r.version \in 1..mt_streams'[r.ev.stream]
      <4>1. CASE r.ev.stream = st
        BY <4>1, <1>2, <1>5, <1>7
      <4>2. CASE r.ev.stream # st
        BY <4>2, <1>2, <1>7 DEF IInv, VersionsContiguous
      <4> QED
        BY <4>1, <4>2
    <3> QED
      BY <3>1, <3>2, <1>1
  <2>2. ASSUME NEW other \in Streams, NEW v \in 1..mt_streams'[other]
        PROVE  \E r \in mt_events' : r.ev.stream = other /\ r.version = v
    <3>1. CASE other # st
      BY <3>1, <1>1, <1>2 DEF IInv, VersionsContiguous
    <3>2. CASE other = st /\ v <= c
      <4>1. v \in 1..mt_streams[st]
        BY <3>2, <2>2, <1>2 DEF Current, TypeOK, NoRow
      <4> QED
        BY <4>1, <3>2, <1>1 DEF IInv, VersionsContiguous
    <3>3. CASE other = st /\ v > c
      <4>1. v - c \in 1..n
        BY <3>3, <2>2, <1>2, <1>5
      <4>2. rows[v - c] \in mt_events' /\ rows[v - c].ev.stream = st /\ rows[v - c].version = v
        BY <4>1, <1>1, <1>5, <1>6
      <4> QED
        BY <4>2, <3>3
    <3> QED
      BY <3>1, <3>2, <3>3, <1>5
  <2>3. ASSUME NEW r1 \in mt_events', NEW r2 \in mt_events',
               r1.ev.stream = r2.ev.stream, r1.version = r2.version
        PROVE  r1 = r2
    <3>1. CASE r1 \in mt_events /\ r2 \in mt_events
      BY <2>3, <3>1 DEF IInv, VersionsContiguous
    <3>2. CASE r1 \in new /\ r2 \in new
      <4>1. PICK k \in 1..n, l \in 1..n : r1 = rows[k] /\ r2 = rows[l]
        BY <3>2, <1>6
      <4>2. c + k = c + l
        BY <4>1, <2>3, <1>5
      <4> QED
        BY <4>1, <4>2, <1>5
    <3>3. CASE (r1 \in new /\ r2 \in mt_events) \/ (r1 \in mt_events /\ r2 \in new)
      BY <2>3, <3>3, <1>5, <1>7, <1>8
    <3> QED
      BY <3>1, <3>2, <3>3, <1>1
  <2> QED
    BY <2>1, <2>2, <2>3 DEF VersionsContiguous
<1>10. SeqFollowsVersion'
  <2> SUFFICES ASSUME NEW r1 \in mt_events', NEW r2 \in mt_events',
                      r1.ev.stream = r2.ev.stream, r1.version < r2.version
               PROVE  r1.seq < r2.seq
    BY DEF SeqFollowsVersion
  <2>1. CASE r1 \in mt_events /\ r2 \in mt_events
    BY <2>1 DEF IInv, SeqFollowsVersion
  <2>2. CASE r1 \in new /\ r2 \in new
    <3>1. PICK k \in 1..n, l \in 1..n : r1 = rows[k] /\ r2 = rows[l]
      BY <2>2, <1>6
    <3>2. k < l
      BY <3>1, <1>5
    <3> QED
      BY <3>1, <3>2, <1>3, <1>4 DEF TxSeqs
  <2>3. CASE r1 \in mt_events /\ r2 \in new
    <3>1. r1.ev.stream = st /\ r1.version <= Base(s)
      BY <2>3, <1>5, <1>7, <1>8
    <3>2. PICK k \in 1..n : r2 = rows[k]
      BY <2>3, <1>6
    <3> QED
      BY <2>3, <3>1, <3>2, <1>3, <1>4 DEF TxSeqs
  <2>4. CASE r1 \in new /\ r2 \in mt_events
    BY <2>4, <1>5, <1>7, <1>8
  <2> QED
    BY <2>1, <2>2, <2>3, <2>4, <1>1
<1>11. NothingLost'
  BY <1>1 DEF IInv, NothingLost
<1>12. TxInv'
  <2> SUFFICES ASSUME NEW t \in Sessions, pc'[t] \in InTx
               PROVE  (TxVersions(t) /\ TxSeqs(t) /\ TxEvents(t))'
    BY DEF TxInv
  <2>1. t # s /\ pc'[t] = pc[t]
    BY <1>2 DEF InTx
  <2>2. TxVersions(t) /\ TxSeqs(t) /\ TxEvents(t)
    BY <2>1 DEF IInv, TxInv
  <2>3. TxEvents(t)'
    BY <2>1, <2>2, <1>1 DEF TxEvents
  <2>4. tx[t].stream \in Streams /\ tx[t].version \in Nat /\ Len(tx[t].rows) \in Nat
    BY TxType
  <2>5. tx[t].stream = st => tx[t].rows = << >>
    BY <2>1, <1>1, <1>3, <1>4, <1>5 DEF IInv, OneWriter
  <2>6. TxVersions(t)'
    <3>1. CASE tx[t].stream = st
      <4>1. tx[t].rows = << >>
        BY <2>5, <3>1
      <4>2. Current(tx[t].stream)' = c + n
        BY <3>1, <1>1, <1>2, <1>5 DEF Current, NoRow
      <4>3. Base(t) \in 0..c /\ Base(t)' = Base(t)
        BY <2>2, <3>1, <1>1 DEF TxVersions, Base
      <4>4. Base(t)' \in 0..Current(tx[t].stream)'
        BY <4>2, <4>3, <1>5
      <4> QED
        BY <4>1, <4>4, <2>1, <2>2, <1>1 DEF TxVersions
    <3>2. CASE tx[t].stream # st
      <4>1. Current(tx[t].stream)' = Current(tx[t].stream)
        BY <3>2, <2>4, <1>1, <1>2 DEF Current
      <4> QED
        BY <4>1, <2>1, <2>2, <1>1 DEF TxVersions, Base
    <3> QED
      BY <3>1, <3>2
  <2>7. TxSeqs(t)'
    <3>1. \A r \in mt_events' :
             r.ev.stream = tx[t].stream /\ r.version <= Base(t) => r \in mt_events
      <4> SUFFICES ASSUME NEW r \in new, r.ev.stream = tx[t].stream, r.version <= Base(t)
                   PROVE  FALSE
        BY <1>1
      <4>1. tx[t].stream = st /\ r.version \in (c + 1)..(c + n)
        BY <1>8
      <4>2. Base(t) \in 0..c
        BY <4>1, <2>2 DEF TxVersions
      <4> QED
        BY <4>1, <4>2, <1>5
    <3>2. Base(t)' = Base(t)
      BY <1>1 DEF Base
    <3> QED
      BY <3>1, <3>2, <2>1, <2>2, <1>1 DEF TxSeqs
  <2> QED
    BY <2>3, <2>6, <2>7
<1>13. OneWriter'
  <2>1. \A t \in Sessions : pc'[t] \in InTx => pc[t] \in InTx
    BY <1>2, <1>4
  <2> QED
    BY <2>1, <1>1 DEF IInv, OneWriter
<1>14. SeqsDrawn'
  <2>1. ASSUME NEW r \in new PROVE r.seq <= seq
    <3>1. PICK k \in 1..n : r = rows[k]
      BY <1>6
    <3>2. rows[k].seq <= tx[s].seq /\ tx[s].seq <= seq
      BY <1>3, <1>4 DEF TxSeqs
    <3>3. rows[k].seq \in Nat /\ tx[s].seq \in Nat /\ seq \in Nat
      BY <1>3, RowType, TxType DEF TypeOK
    <3> QED
      BY <3>1, <3>2, <3>3
  <2> QED
    BY <2>1, <1>1 DEF IInv, SeqsDrawn
<1>15. SaveInv'
  <2>1. \A e : Stored(e) => Stored(e)'
    BY <1>1 DEF Stored
  <2>2. ASSUME NEW i \in DOMAIN pending[s], pending[s][i].stream = st
        PROVE  \E r \in mt_events' : r.ev = pending[s][i]
    <3>1. i <= tx[s].at
      BY <2>2, <1>1, <1>4 DEF TxEvents
    <3>2. PICK k \in 1..n : rows[k].ev = pending[s][i]
      BY <3>1, <2>2, <1>3, <1>4 DEF TxEvents
    <3> QED
      BY <3>2, <1>1, <1>6
  <2> SUFFICES ASSUME NEW t \in Sessions, NEW i \in DOMAIN pending[t]
               PROVE  /\ pending[t][i].by = t
                      /\ pc'[t] # "idle" /\ pending[t][i].stream \notin todo[t]
                           => \E r \in mt_events' : r.ev = pending[t][i]
                      /\ pc'[t] = "reply" /\ pending[t][i].stream = tx[t].stream
                           => \E r \in mt_events' : r.ev = pending[t][i]
    BY <1>1 DEF SaveInv, Stored
  <2>3. /\ pending[t][i].by = t
        /\ pc[t] # "idle" /\ pending[t][i].stream \notin todo[t]
             => \E r \in mt_events : r.ev = pending[t][i]
        /\ pc[t] = "reply" /\ pending[t][i].stream = tx[t].stream
             => \E r \in mt_events : r.ev = pending[t][i]
    BY DEF IInv, SaveInv, Stored
  <2>4. CASE t = s
    BY <2>2, <2>3, <2>4, <1>1, <1>2
  <2>5. CASE t # s
    BY <2>3, <2>5, <1>1, <1>2
  <2> QED
    BY <2>4, <2>5
<1> QED
  BY <1>9, <1>10, <1>11, <1>12, <1>13, <1>14, <1>15 DEF IInv

LEMMA ServerInv ==
  ASSUME IInv, TypeOK, TypeOK', NEW s \in Sessions, Server(s)
  PROVE  IInv'
<1>1. CASE Violation(s)
  BY <1>1, ErrorInv
<1>2. CASE ~Violation(s)
  BY <1>2, SelectVersionInv, NewStreamInv, NextValInv, InsertEventInv, CommitInv DEF Server
<1> QED
  BY <1>1, <1>2

LEMMA InitIInv == Init => IInv
<1> SUFFICES ASSUME Init PROVE IInv
  OBVIOUS
<1>1. /\ \A s \in Sessions : /\ pending[s] = << >> /\ appended[s] = 0
                             /\ pc[s] = "idle"
      /\ \A st \in Streams : mt_streams[st] = NoRow
      /\ mt_events = {}
  BY DEF Init
<1>2. VersionsContiguous /\ SeqFollowsVersion /\ SeqsDrawn
  BY <1>1 DEF VersionsContiguous, SeqFollowsVersion, SeqsDrawn, NoRow
<1>3. NothingLost /\ SaveInv
  BY <1>1 DEF NothingLost, SaveInv
<1>4. TxInv /\ OneWriter
  BY <1>1 DEF TxInv, OneWriter, InTx
<1> QED
  BY <1>2, <1>3, <1>4 DEF IInv

LEMMA NextIInv == TypeOK /\ IInv /\ [Next]_vars => IInv'
<1> SUFFICES ASSUME TypeOK, IInv, [Next]_vars PROVE IInv'
  OBVIOUS
<1>1. TypeOK'
  BY NextType
<1>2. ASSUME NEW s \in Sessions, Progress(s) PROVE IInv'
  BY <1>1, <1>2, SendInv, ReceiveInv, FinishInv, ErrorInv, ServerInv DEF Progress
<1>3. ASSUME NEW s \in Sessions,
             \/ \E st \in Streams : AppendEvent(s, st)
             \/ Save(s)
             \/ Unavailable(s)
             \/ ConnectionLost(s)
      PROVE  IInv'
  BY <1>1, <1>3, AppendEventInv, SaveCallInv, ErrorInv
<1>4. CASE BreakIdle \/ UNCHANGED vars
  <2>1. UNCHANGED <<pending, appended, pc, todo, tx, mt_streams, mt_events, seq>>
    BY <1>4 DEF BreakIdle, vars, sessionVars, dbVars
  <2> QED
    BY <2>1 DEF IInv, VersionsContiguous, SeqFollowsVersion, NothingLost, TxInv, TxVersions,
                TxSeqs, TxEvents, Base, Current, OneWriter, SeqsDrawn, SaveInv, Stored
<1> QED
  BY <1>2, <1>3, <1>4 DEF Next

(* Everything the proofs below rest on holds in every reachable state.     *)
THEOREM Inductive == Spec => [](TypeOK /\ IInv)
BY InitType, NextType, InitIInv, NextIInv, PTL DEF Spec

(* For any number of sessions appending to any streams, with failures at   *)
(* any point, the versions stored in a stream have no gap and no double,   *)
(* and end at the version mt_streams records.                              *)
THEOREM VersionsAreContiguous == Spec => []VersionsContiguous
<1>1. IInv => VersionsContiguous
  BY DEF IInv
<1> QED
  BY <1>1, Inductive, PTL

(* The sequence numbers of a stream's events rise with their versions.     *)
THEOREM SequenceFollowsVersions == Spec => []SeqFollowsVersion
<1>1. IInv => SeqFollowsVersion
  BY DEF IInv
<1> QED
  BY <1>1, Inductive, PTL

(* An appended event is pending until it is stored: no failure of Save()   *)
(* and no partial success makes it disappear.                              *)
THEOREM NoEventIsLost == Spec => []NothingLost
<1>1. IInv => NothingLost
  BY DEF IInv
<1> QED
  BY <1>1, Inductive, PTL

(* What a session's step leaves alone in every other session.              *)
LEMMA OneSessionMoves ==
  ASSUME TypeOK, NEW s \in Sessions, NEW label, pc' = [pc EXCEPT ![s] = label]
  PROVE  \A t \in Sessions : pc[t] # "idle" /\ pc'[t] = "idle" => t = s /\ label = "idle"
BY DEF TypeOK

LEMMA FailingReturn ==
  ASSUME TypeOK, NEW s \in Sessions, NEW code \in {400, 500, 503}, Fail(s, code)
  PROVE  pc' = [pc EXCEPT ![s] = "idle"] /\ pending' = pending /\ ret'[s] # 200
BY DEF Fail, TypeOK

(* After 200 everything that was pending is stored, after any other code   *)
(* all of it is still pending, with any interleaving of the sessions.      *)
THEOREM ReturnCodesAreTruthful == Spec => ReturnCodeTruthful
<1> DEFINE Told(s) == IF ret'[s] = 200
                        THEN /\ \A i \in DOMAIN pending[s] : Stored(pending[s][i])
                             /\ pending'[s] = << >>
                        ELSE pending'[s] = pending[s]
<1> DEFINE Returned == \A s \in Sessions : pc[s] # "idle" /\ pc'[s] = "idle" => Told(s)
<1>1. ASSUME TypeOK, IInv, [Next]_vars PROVE [Returned]_vars
  <2> SUFFICES ASSUME Next PROVE Returned
    BY <1>1
  <2> USE <1>1
  <2>1. ASSUME NEW s \in Sessions, NEW code \in {400, 500, 503}, Fail(s, code) PROVE Returned
    BY <2>1, FailingReturn, OneSessionMoves
  <2>2. ASSUME NEW s \in Sessions, Finish(s) PROVE Returned
    <3>1. pc[s] = "loop" /\ todo[s] = {} /\ pc' = [pc EXCEPT ![s] = "idle"]
      BY <2>2 DEF Finish
    <3>2. \A i \in DOMAIN pending[s] : Stored(pending[s][i])
      BY <3>1 DEF IInv, SaveInv
    <3>3. ret'[s] = 200 /\ pending'[s] = << >>
      BY <2>2 DEF Finish, TypeOK
    <3> QED
      BY <3>1, <3>2, <3>3, OneSessionMoves
  <2>3. ASSUME NEW s \in Sessions, NEW label \in InTx \cup {"reply", "loop"},
               label # "idle", pc' = [pc EXCEPT ![s] = label]
        PROVE  Returned
    BY <2>3, OneSessionMoves
  <2>4. ASSUME NEW s \in Sessions, \/ \E st \in Streams : Send(s, st)
                                   \/ Save(s) \/ Receive(s)
        PROVE  Returned
    <3>1. \E label \in {"loop", "select"} : pc' = [pc EXCEPT ![s] = label]
      BY <2>4 DEF Send, Save, Receive
    <3> HIDE DEF Returned
    <3> QED
      BY <2>3, <3>1 DEF InTx
  <2>5. ASSUME NEW s \in Sessions, Unavailable(s) \/ SentOnDead(s) \/ ConnectionLost(s)
        PROVE  Returned
    BY <2>1, <2>5 DEF Unavailable, SentOnDead, ConnectionLost
  <2>6. ASSUME NEW s \in Sessions, Server(s) PROVE Returned
    <3>1. CASE Violation(s)
      BY <2>1, <3>1 DEF Violation
    <3>2. CASE ~Violation(s)
      <4>1. \E label \in InTx \cup {"reply"} : pc' = [pc EXCEPT ![s] = label]
        <5>1. CASE SelectVersion(s)
          <6>1. pc' = [pc EXCEPT ![s] = "newstream"] \/ pc' = [pc EXCEPT ![s] = "nextval"]
            BY <5>1 DEF SelectVersion
          <6> QED
            BY <6>1 DEF InTx
        <5>2. CASE InsertStream(s)
          <6>1. pc' = [pc EXCEPT ![s] = "nextval"]
            BY <3>2, <5>2 DEF InsertStream
          <6> QED
            BY <6>1 DEF InTx
        <5>3. CASE NextVal(s)
          BY <5>3 DEF NextVal, InTx
        <5>4. CASE InsertEvent(s)
          <6>0. PICK i \in DOMAIN pending[s] :
                   pc' = [pc EXCEPT ![s] = IF \E j \in DOMAIN pending[s] : Later(s, i, j)
                                             THEN "nextval" ELSE "update"]
            BY <1>1, <3>2, <5>4, InsertEventTxType
          <6>1. pc' = [pc EXCEPT ![s] = "nextval"] \/ pc' = [pc EXCEPT ![s] = "update"]
            BY <6>0
          <6> QED
            BY <6>1 DEF InTx
        <5>5. CASE Commit(s)
          BY <5>5 DEF Commit
        <5> QED
          BY <2>6, <5>1, <5>2, <5>3, <5>4, <5>5 DEF Server
      <4> HIDE DEF Returned
      <4> QED
        BY <2>3, <4>1 DEF InTx
    <3> QED
      BY <3>1, <3>2
  <2>7. CASE UNCHANGED pc
    BY <2>7
  <2>8. ASSUME NEW s \in Sessions, NEW st \in Streams, AppendEvent(s, st) PROVE UNCHANGED pc
    BY <2>8 DEF AppendEvent
  <2>9. BreakIdle => UNCHANGED pc
    BY DEF BreakIdle
  <2>10. ASSUME NEW s \in Sessions, Progress(s) PROVE Returned
    BY <2>2, <2>4, <2>5, <2>6, <2>10 DEF Progress
  <2> HIDE DEF Returned
  <2> QED
    BY <2>4, <2>5, <2>7, <2>8, <2>9, <2>10 DEF Next
<1> QED
  BY <1>1, Inductive, PTL DEF Spec, ReturnCodeTruthful

-----------------------------------------------------------------------------
(* Batches and copies: the invariant BatchInv on top of IInv.              *)

LEMMA CopiesCount ==
  ASSUME TypeOK, CopiesInv
  PROVE  \A e : IsFiniteSet(Copies(e)) /\ Cardinality(Copies(e)) \in Nat
<1>1. IsFiniteSet(mt_events)
  BY DEF CopiesInv
<1>2. ASSUME NEW e PROVE IsFiniteSet(Copies(e)) /\ Cardinality(Copies(e)) \in Nat
  <2>1. Copies(e) \subseteq mt_events
    BY DEF Copies
  <2>2. IsFiniteSet(Copies(e))
    BY <1>1, <2>1, FS_Subset
  <2> QED
    BY <2>2, FS_CardinalityType
<1> QED
  BY <1>2

(* A session's part of the bound on copies.                                *)
Bounded(s, e) == /\ Cardinality(Copies(e)) <= 1 + fails[s]
                 /\ ~Done(s, e.stream) => Cardinality(Copies(e)) <= fails[s]

(* CopiesInv after a step, from its parts.                                 *)
LEMMA CopiesBounded ==
  ASSUME IsFiniteSet(mt_events'), BoundedCopies',
         \A t \in Sessions : \A i \in DOMAIN pending'[t] :
            \A x : x = pending'[t][i] => Bounded(t, x)'
  PROVE  CopiesInv'
BY DEF CopiesInv, Bounded, Copies, Done

(* Steps that leave the tables alone, store nothing and append nothing.    *)
LEMMA QuietBatch ==
  ASSUME TypeOK, TypeOK', BatchInv, NEW s \in Sessions,
         UNCHANGED <<pending, appended, mt_events>>,
         \A t \in Sessions \ {s} : /\ pc'[t] = pc[t] /\ tx'[t] = tx[t]
                                   /\ todo'[t] = todo[t] /\ fails'[t] = fails[t],
         fails[s] <= fails'[s],
         \A st \in Streams : Done(s, st) => Done(s, st)' \/ fails[s] < fails'[s],
         pc'[s] \in InTx => TxBatch(s)',
         pc'[s] \in InTx \cup {"reply"} => tx'[s].stream \in todo'[s]
  PROVE  BatchInv'
<1>1. Numbered'
  BY DEF BatchInv, Numbered
<1>2. ASSUME NEW t \in Sessions, pc'[t] \in InTx PROVE TxBatch(t)'
  <2>1. CASE t = s
    BY <1>2, <2>1
  <2>2. CASE t # s
    <3>1. TxBatch(t) /\ tx'[t] = tx[t] /\ pending'[t] = pending[t]
      BY <1>2, <2>2 DEF BatchInv
    <3> QED
      BY <3>1 DEF TxBatch
  <2> QED
    BY <2>1, <2>2
<1>3. TxTodo'
  BY DEF BatchInv, TxTodo, InCall
<1>4. CopiesInv'
  <2>1. /\ CopiesInv
        /\ \A e : Copies(e)' = Copies(e) /\ Cardinality(Copies(e)) \in Nat
    BY CopiesCount DEF BatchInv, Copies
  <2>2. \A t \in Sessions : fails[t] \in Nat /\ fails'[t] \in Nat /\ fails[t] <= fails'[t]
    <3>1. \A t \in Sessions : fails[t] \in Nat /\ fails'[t] \in Nat
      BY DEF TypeOK
    <3> QED
      BY <3>1
  <2>3. BoundedCopies'
    <3> SUFFICES ASSUME NEW r \in mt_events
                 PROVE  Cardinality(Copies(r.ev)) <= 1 + fails'[r.ev.by]
      BY DEF BoundedCopies, Copies
    <3>1. r.ev.by \in Sessions
      BY DEF TypeOK, Row, Event
    <3>2. Cardinality(Copies(r.ev)) <= 1 + fails[r.ev.by]
      BY <2>1 DEF CopiesInv, BoundedCopies, Copies
    <3> QED
      BY <3>1, <3>2, <2>1, <2>2
  <2>4. ASSUME NEW t \in Sessions, NEW i \in DOMAIN pending[t],
               NEW e, e = pending[t][i]
        PROVE  Bounded(t, e)'
    <3>1. Bounded(t, e)
      BY <2>1, <2>4 DEF CopiesInv, Bounded
    <3>2. e.stream \in Streams
      BY <2>4, PendingType
    <3>3. Done(t, e.stream) => Done(t, e.stream)' \/ fails[t] < fails'[t]
      <4>1. CASE t = s
        BY <3>2, <4>1
      <4>2. CASE t # s
        BY <4>2 DEF Done
      <4> QED
        BY <4>1, <4>2
    <3>4. Cardinality(Copies(e)) <= 1 + fails'[t]
      BY <3>1, <2>1, <2>2 DEF Bounded
    <3>5. ~Done(t, e.stream)' => Cardinality(Copies(e)) <= fails'[t]
      <4> SUFFICES ASSUME ~Done(t, e.stream)' PROVE Cardinality(Copies(e)) <= fails'[t]
        OBVIOUS
      <4>1. CASE Done(t, e.stream)
        BY <3>1, <3>3, <4>1, <2>1, <2>2 DEF Bounded
      <4>2. CASE ~Done(t, e.stream)
        BY <3>1, <4>2, <2>1, <2>2 DEF Bounded
      <4> QED
        BY <4>1, <4>2
    <3>6. Copies(e)' = Copies(e)
      BY <2>1
    <3> QED
      BY <3>4, <3>5, <3>6 DEF Bounded
  <2> QED
    BY <2>1, <2>3, <2>4, CopiesBounded DEF CopiesInv
<1> QED
  BY <1>1, <1>2, <1>3, <1>4 DEF BatchInv

LEMMA AppendBatch ==
  ASSUME TypeOK, TypeOK', IInv, BatchInv, NEW s \in Sessions, NEW st \in Streams,
         AppendEvent(s, st)
  PROVE  BatchInv'
<1> DEFINE e == [by |-> s, no |-> appended[s] + 1, stream |-> st]
<1>1. /\ pc[s] = "idle"
      /\ pending' = [pending EXCEPT ![s] = Append(@, e)]
      /\ appended' = [appended EXCEPT ![s] = @ + 1]
      /\ UNCHANGED <<pc, todo, tx, fails, mt_events>>
  BY DEF AppendEvent, dbVars
<1>2. PICK n \in Nat : n = Len(pending[s]) /\ DOMAIN pending[s] = 1..n
  BY DEF TypeOK
<1>3. /\ DOMAIN pending'[s] = 1..(n + 1)
      /\ pending'[s][n + 1] = e
      /\ \A i \in 1..n : pending'[s][i] = pending[s][i]
  BY <1>1, <1>2 DEF TypeOK
<1>4. /\ \A t \in Sessions \ {s} : pending'[t] = pending[t] /\ appended'[t] = appended[t]
      /\ appended[s] \in Nat /\ appended'[s] = appended[s] + 1
  BY <1>1 DEF TypeOK
<1>5. \A i \in 1..n : pending[s][i].no \in 1..appended[s]
  BY <1>2 DEF BatchInv, Numbered
<1>6. e.no = appended[s] + 1 /\ e.by = s /\ e.stream = st
  OBVIOUS
<1> HIDE DEF e
<1>7. Numbered'
  <2>1. ASSUME NEW t \in Sessions, NEW i \in DOMAIN pending'[t]
        PROVE  /\ pending'[t][i].no \in 1..appended'[t]
               /\ \A j \in DOMAIN pending'[t] : i < j => pending'[t][i].no < pending'[t][j].no
    <3>1. CASE t # s
      BY <3>1, <1>4 DEF BatchInv, Numbered
    <3>2. CASE t = s
      <4>1. pending'[s][i].no \in 1..appended'[s]
        BY <3>2, <1>3, <1>4, <1>5, <1>6
      <4>2. ASSUME NEW j \in DOMAIN pending'[s], i < j
            PROVE  pending'[s][i].no < pending'[s][j].no
        <5>1. i \in 1..n /\ j \in 1..(n + 1)
          BY <3>2, <4>2, <1>3
        <5>2. CASE j = n + 1
          BY <5>1, <5>2, <1>3, <1>4, <1>5, <1>6
        <5>3. CASE j \in 1..n
          BY <5>1, <5>3, <4>2, <1>2, <1>3 DEF BatchInv, Numbered
        <5> QED
          BY <5>1, <5>2, <5>3
      <4> QED
        BY <3>2, <4>1, <4>2
    <3> QED
      BY <3>1, <3>2
  <2>2. \A r \in mt_events : r.ev.no <= appended'[r.ev.by]
    <3> SUFFICES ASSUME NEW r \in mt_events PROVE r.ev.no <= appended'[r.ev.by]
      OBVIOUS
    <3>1. r.ev.by \in Sessions /\ r.ev.no \in Nat
      BY DEF TypeOK, Row, Event
    <3>2. r.ev.no <= appended[r.ev.by]
      BY DEF BatchInv, Numbered
    <3> QED
      BY <3>1, <3>2, <1>4
  <2> QED
    BY <2>1, <2>2, <1>1 DEF Numbered
<1>8. ASSUME NEW t \in Sessions, pc'[t] \in InTx PROVE TxBatch(t)'
  <2>1. t # s
    BY <1>1, <1>8 DEF InTx
  <2>2. TxBatch(t) /\ tx'[t] = tx[t] /\ pending'[t] = pending[t]
    BY <1>1, <1>4, <1>8, <2>1 DEF BatchInv
  <2> QED
    BY <2>2 DEF TxBatch
<1>9. TxTodo'
  BY <1>1 DEF BatchInv, TxTodo, InCall
<1>10. CopiesInv'
  <2>1. /\ CopiesInv
        /\ \A x : Copies(x)' = Copies(x)
    BY <1>1 DEF BatchInv, Copies
  <2>2. BoundedCopies'
    BY <1>1, <2>1 DEF CopiesInv, BoundedCopies
  <2>3. Copies(e) = {}
    <3> SUFFICES ASSUME NEW r \in mt_events, r.ev = e PROVE FALSE
      BY DEF Copies
    <3>1. r.ev.no <= appended[r.ev.by]
      BY DEF BatchInv, Numbered
    <3> QED
      BY <3>1, <1>4, <1>6
  <2>4. ASSUME NEW t \in Sessions, NEW i \in DOMAIN pending'[t],
               NEW x, x = pending'[t][i]
        PROVE  Bounded(t, x)'
    <3>1. \A y : Done(t, y)' <=> Done(t, y)
      BY <1>1 DEF Done
    <3>2. CASE i \in DOMAIN pending[t] /\ pending'[t][i] = pending[t][i]
      BY <2>1, <2>4, <3>1, <3>2, <1>1 DEF CopiesInv, Bounded
    <3>3. CASE t = s /\ i = n + 1
      <4>1. ~Done(s, st)
        BY <1>1 DEF Done
      <4>2. Cardinality(Copies(e)) = 0 /\ fails[s] \in Nat
        BY <2>3, FS_EmptySet DEF TypeOK
      <4> QED
        BY <3>1, <3>3, <4>1, <4>2, <2>1, <2>4, <1>1, <1>3, <1>6 DEF Bounded
    <3>4. t # s => i \in DOMAIN pending[t] /\ pending'[t][i] = pending[t][i]
      BY <1>4
    <3>5. t = s => i = n + 1 \/ (i \in DOMAIN pending[t] /\ pending'[t][i] = pending[t][i])
      BY <1>2, <1>3
    <3> QED
      BY <3>2, <3>3, <3>4, <3>5
  <2> QED
    BY <1>1, <2>1, <2>2, <2>4, CopiesBounded DEF CopiesInv
<1> QED
  BY <1>7, <1>8, <1>9, <1>10 DEF BatchInv

LEMMA FinishBatch ==
  ASSUME TypeOK, TypeOK', IInv, BatchInv, NEW s \in Sessions, Finish(s)
  PROVE  BatchInv'
<1>1. /\ pending' = [pending EXCEPT ![s] = << >>]
      /\ pc' = [pc EXCEPT ![s] = "idle"]
      /\ UNCHANGED <<appended, todo, tx, fails, mt_events>>
  BY DEF Finish, dbVars
<1>2. /\ pending'[s] = << >> /\ pc'[s] = "idle"
      /\ \A t \in Sessions \ {s} : pending'[t] = pending[t] /\ pc'[t] = pc[t]
  BY <1>1 DEF TypeOK
<1>3. Numbered'
  BY <1>1, <1>2 DEF BatchInv, Numbered
<1>4. ASSUME NEW t \in Sessions, pc'[t] \in InTx PROVE TxBatch(t)'
  <2>1. t # s
    BY <1>2, <1>4 DEF InTx
  <2>2. TxBatch(t) /\ tx'[t] = tx[t] /\ pending'[t] = pending[t]
    BY <1>1, <1>2, <1>4, <2>1 DEF BatchInv
  <2> QED
    BY <2>2 DEF TxBatch
<1>5. TxTodo'
  BY <1>1, <1>2 DEF BatchInv, TxTodo, InCall, InTx
<1>6. CopiesInv'
  <2>1. CopiesInv /\ \A x : Copies(x)' = Copies(x)
    BY <1>1 DEF BatchInv, Copies
  <2>2. BoundedCopies'
    BY <1>1, <2>1 DEF CopiesInv, BoundedCopies
  <2>3. ASSUME NEW t \in Sessions, NEW i \in DOMAIN pending'[t],
               NEW x, x = pending'[t][i]
        PROVE  Bounded(t, x)'
    <3>1. t # s
      BY <1>2
    <3>2. \A y : Done(t, y)' <=> Done(t, y)
      BY <1>1, <1>2, <3>1 DEF Done
    <3> QED
      BY <3>1, <3>2, <2>1, <2>3, <1>1, <1>2 DEF CopiesInv, Bounded
  <2> QED
    BY <1>1, <2>1, <2>2, <2>3, CopiesBounded DEF CopiesInv
<1> QED
  BY <1>3, <1>4, <1>5, <1>6 DEF BatchInv

LEMMA SaveBatch ==
  ASSUME TypeOK, TypeOK', IInv, BatchInv, NEW s \in Sessions, Save(s)
  PROVE  BatchInv'
<1>1. /\ pc[s] = "idle"
      /\ pc' = [pc EXCEPT ![s] = "loop"]
      /\ todo' = [todo EXCEPT ![s] = {pending[s][i].stream : i \in DOMAIN pending[s]}]
      /\ UNCHANGED <<pending, appended, tx, fails, mt_events>>
  BY DEF Save, dbVars
<1>2. \A t \in Sessions \ {s} : pc'[t] = pc[t] /\ todo'[t] = todo[t]
  BY <1>1 DEF TypeOK
<1>3. pc'[s] = "loop" /\ \A st \in Streams : ~Done(s, st)
  BY <1>1 DEF TypeOK, Done
<1>4. pc'[s] \notin InTx /\ pc'[s] \notin InTx \cup {"reply"}
  BY <1>3 DEF InTx
<1>5. \A t \in Sessions : fails'[t] = fails[t] /\ fails[t] <= fails'[t] /\ tx'[t] = tx[t]
  BY <1>1 DEF TypeOK
<1> QED
  BY <1>1, <1>2, <1>3, <1>4, <1>5, QuietBatch

LEMMA SendBatch ==
  ASSUME TypeOK, TypeOK', IInv, BatchInv, NEW s \in Sessions, NEW st \in Streams, Send(s, st)
  PROVE  BatchInv'
<1>1. /\ pc[s] = "loop" /\ st \in todo[s]
      /\ pc' = [pc EXCEPT ![s] = "select"]
      /\ tx' = [tx EXCEPT ![s] = [NoTx EXCEPT !.stream = st]]
      /\ UNCHANGED <<pending, appended, todo, fails, mt_events>>
  BY DEF Send, sessionVars, dbVars, IsNextStream
<1>2. \A t \in Sessions \ {s} : pc'[t] = pc[t] /\ tx'[t] = tx[t]
  BY <1>1 DEF TypeOK
<1>3. pc'[s] = "select" /\ tx'[s].stream = st /\ tx'[s].rows = << >> /\ tx'[s].at = 0
  BY <1>1 DEF TypeOK, NoTx
<1>4. \A x \in Streams : Done(s, x) => Done(s, x)'
  BY <1>1, <1>3 DEF Done
<1>5. TxBatch(s)'
  <2>1. tx'[s].at = 0 /\ \A i \in DOMAIN pending[s] : ~(i <= 0)
    BY <1>3 DEF TypeOK
  <2> DEFINE order == [k \in {} |-> 1]
  <2>2. /\ order \in [DOMAIN tx'[s].rows -> DOMAIN pending'[s]]
        /\ DOMAIN order = {}
    BY <1>3
  <2>3. {i \in DOMAIN pending'[s] : /\ i <= tx'[s].at
                                    /\ pending'[s][i].stream = tx'[s].stream} = {}
    BY <2>1, <1>1
  <2> HIDE DEF order
  <2> QED
    BY <2>2, <2>3 DEF TxBatch
<1>6. fails[s] \in Nat
  BY DEF TypeOK
<1> QED
  BY <1>1, <1>2, <1>3, <1>4, <1>5, <1>6, QuietBatch

LEMMA ReceiveBatch ==
  ASSUME TypeOK, TypeOK', IInv, BatchInv, NEW s \in Sessions, Receive(s)
  PROVE  BatchInv'
<1>1. /\ pc[s] = "reply"
      /\ pc' = [pc EXCEPT ![s] = "loop"]
      /\ todo' = [todo EXCEPT ![s] = @ \ {tx[s].stream}]
      /\ tx' = [tx EXCEPT ![s] = NoTx]
      /\ UNCHANGED <<pending, appended, fails, mt_events>>
  BY DEF Receive, dbVars
<1>2. \A t \in Sessions \ {s} : pc'[t] = pc[t] /\ tx'[t] = tx[t] /\ todo'[t] = todo[t]
  BY <1>1 DEF TypeOK
<1>3. pc'[s] = "loop" /\ todo'[s] = todo[s] \ {tx[s].stream}
  BY <1>1 DEF TypeOK
<1>4. \A st \in Streams : Done(s, st) => Done(s, st)'
  BY <1>1, <1>3 DEF Done
<1>5. pc'[s] \notin InTx /\ pc'[s] \notin InTx \cup {"reply"}
  BY <1>3 DEF InTx
<1>6. \A t \in Sessions : fails'[t] = fails[t] /\ fails[t] <= fails'[t]
  BY <1>1 DEF TypeOK
<1> QED
  BY <1>1, <1>2, <1>4, <1>5, <1>6, QuietBatch

LEMMA ErrorBatch ==
  ASSUME TypeOK, TypeOK', IInv, BatchInv, NEW s \in Sessions,
         Unavailable(s) \/ SentOnDead(s) \/ ConnectionLost(s) \/ Violation(s)
  PROVE  BatchInv'
<1>1. PICK code \in {400, 500, 503} : Fail(s, code)
  BY DEF Unavailable, SentOnDead, ConnectionLost, Violation
<1>2. UNCHANGED mt_events
  BY DEF Unavailable, SentOnDead, ConnectionLost, Violation, dbVars
<1>3. /\ pc' = [pc EXCEPT ![s] = "idle"]
      /\ fails' = [fails EXCEPT ![s] = @ + 1]
      /\ todo' = [todo EXCEPT ![s] = {}]
      /\ tx' = [tx EXCEPT ![s] = NoTx]
      /\ UNCHANGED <<pending, appended>>
  BY <1>1 DEF Fail
<1>4. \A t \in Sessions \ {s} : /\ pc'[t] = pc[t] /\ tx'[t] = tx[t]
                                 /\ todo'[t] = todo[t] /\ fails'[t] = fails[t]
  BY <1>3 DEF TypeOK
<1>5. fails[s] < fails'[s] /\ fails[s] <= fails'[s]
  BY <1>3 DEF TypeOK
<1>6. pc'[s] \notin InTx /\ pc'[s] \notin InTx \cup {"reply"}
  BY <1>3 DEF InTx, TypeOK
<1> QED
  BY <1>2, <1>3, <1>4, <1>5, <1>6, QuietBatch

(* A statement of mt_append_event that is answered inside the transaction. *)
LEMMA StatementBatch ==
  ASSUME TypeOK, TypeOK', IInv, BatchInv, NEW s \in Sessions,
         UNCHANGED <<pending, appended, todo, fails, mt_events>>,
         NEW new \in Tx, tx' = [tx EXCEPT ![s] = new], new.stream = tx[s].stream,
         pc[s] \in InTx,
         NEW label \in InTx, pc' = [pc EXCEPT ![s] = label],
         TxBatch(s)'
  PROVE  BatchInv'
<1>1. tx'[s] = new /\ \A t \in Sessions \ {s} : tx'[t] = tx[t]
  BY TxUpdate
<1>2. pc'[s] = label /\ \A t \in Sessions \ {s} : pc'[t] = pc[t]
  BY DEF TypeOK
<1>3. tx'[s].stream \in todo'[s]
  BY <1>1 DEF BatchInv, TxTodo, InCall
<1>4. \A st \in Streams : Done(s, st) => Done(s, st)'
  <2>1. pc[s] # "reply" /\ pc'[s] # "idle"
    BY <1>2 DEF InTx
  <2> QED
    BY <2>1 DEF Done
<1>5. \A t \in Sessions : fails'[t] = fails[t] /\ fails[t] <= fails'[t] /\ todo'[t] = todo[t]
  BY DEF TypeOK
<1> QED
  BY <1>1, <1>2, <1>3, <1>4, <1>5, QuietBatch

LEMMA SameBatch ==
  ASSUME NEW s \in Sessions, TxBatch(s), pending' = pending,
         tx'[s].rows = tx[s].rows, tx'[s].at = tx[s].at, tx'[s].stream = tx[s].stream
  PROVE  TxBatch(s)'
BY DEF TxBatch

LEMMA PlainStatementBatch ==
  ASSUME TypeOK, TypeOK', IInv, BatchInv, NEW s \in Sessions,
         SelectVersion(s) \/ InsertStream(s) \/ NextVal(s), ~Violation(s)
  PROVE  BatchInv'
<1>1. UNCHANGED <<pending, appended, todo, fails, mt_events>> /\ pc[s] \in InTx
  BY DEF SelectVersion, InsertStream, NextVal, txStep, sessionVars, dbVars, At, InTx
<1>2. TxBatch(s)
  BY <1>1 DEF BatchInv
<1>3. \E label \in InTx : pc' = [pc EXCEPT ![s] = label]
  <2>1. CASE SelectVersion(s)
    <3>1. pc' = [pc EXCEPT ![s] = "newstream"] \/ pc' = [pc EXCEPT ![s] = "nextval"]
      BY <2>1 DEF SelectVersion
    <3> QED
      BY <3>1 DEF InTx
  <2>2. CASE InsertStream(s)
    <3>1. pc' = [pc EXCEPT ![s] = "nextval"]
      BY <2>2 DEF InsertStream
    <3> QED
      BY <3>1 DEF InTx
  <2>3. CASE NextVal(s)
    BY <2>3 DEF NextVal, InTx
  <2> QED
    BY <2>1, <2>2, <2>3
<1>4. \E new \in Tx : /\ tx' = [tx EXCEPT ![s] = new]
                      /\ new.stream = tx[s].stream /\ new.at = tx[s].at /\ new.rows = tx[s].rows
  <2>0. tx[s] \in Tx
    BY TxType
  <2>1. CASE SelectVersion(s)
    <3>1. /\ SelectVersionTx(s) \in Tx
          /\ tx' = [tx EXCEPT ![s] = SelectVersionTx(s)]
      BY <2>1, SelectVersionTxType
    <3>2. /\ SelectVersionTx(s).stream = tx[s].stream
          /\ SelectVersionTx(s).at = tx[s].at /\ SelectVersionTx(s).rows = tx[s].rows
      BY <2>0 DEF SelectVersionTx, Tx
    <3> QED
      BY <3>1, <3>2
  <2>2. CASE InsertStream(s)
    <3>1. /\ NewStreamTx(s) \in Tx
          /\ tx' = [tx EXCEPT ![s] = NewStreamTx(s)]
      BY <2>2, NewStreamTxType
    <3>2. /\ NewStreamTx(s).stream = tx[s].stream
          /\ NewStreamTx(s).at = tx[s].at /\ NewStreamTx(s).rows = tx[s].rows
      BY <2>0 DEF NewStreamTx, Tx
    <3> QED
      BY <3>1, <3>2
  <2>3. CASE NextVal(s)
    <3>1. /\ NextValTx(s) \in Tx
          /\ tx' = [tx EXCEPT ![s] = NextValTx(s)]
      BY <2>3, NextValTxType
    <3>2. /\ NextValTx(s).stream = tx[s].stream
          /\ NextValTx(s).at = tx[s].at /\ NextValTx(s).rows = tx[s].rows
      BY <2>0 DEF NextValTx, Tx
    <3> QED
      BY <3>1, <3>2
  <2> QED
    BY <2>1, <2>2, <2>3
<1>5. PICK new \in Tx : /\ tx' = [tx EXCEPT ![s] = new]
                        /\ new.stream = tx[s].stream /\ new.at = tx[s].at /\ new.rows = tx[s].rows
  BY <1>4
<1>6. tx'[s] = new
  BY <1>5, TxUpdate
<1>7. TxBatch(s)'
  BY <1>1, <1>2, <1>5, <1>6, SameBatch
<1> QED
  BY <1>1, <1>3, <1>5, <1>7, StatementBatch

LEMMA InsertEventBatch ==
  ASSUME TypeOK, TypeOK', IInv, BatchInv, NEW s \in Sessions, InsertEvent(s), ~Violation(s)
  PROVE  BatchInv'
<1>1. UNCHANGED <<pending, appended, todo, fails, mt_events>> /\ pc[s] \in InTx
  BY DEF InsertEvent, txStep, sessionVars, dbVars, At, InTx
<1>2. PICK i \in DOMAIN pending[s] :
        /\ IsNextEvent(s, tx[s].at, i)
        /\ InsertEventTx(s, i) \in Tx
        /\ tx' = [tx EXCEPT ![s] = InsertEventTx(s, i)]
        /\ pc' = [pc EXCEPT ![s] = IF \E j \in DOMAIN pending[s] : Later(s, i, j)
                                     THEN "nextval" ELSE "update"]
  BY InsertEventTxType
<1>3. \E label \in InTx : pc' = [pc EXCEPT ![s] = label]
  <2>1. pc' = [pc EXCEPT ![s] = "nextval"] \/ pc' = [pc EXCEPT ![s] = "update"]
    BY <1>2
  <2> QED
    BY <2>1 DEF InTx
<1> DEFINE row == InsertRow(s, i)
           n   == Len(tx[s].rows)
<1>4. tx[s] \in Tx /\ tx[s].rows \in Seq(Row) /\ n \in Nat /\ DOMAIN tx[s].rows = 1..n
  BY TxType
<1>5. /\ tx'[s].stream = tx[s].stream
      /\ tx'[s].at = i
      /\ tx'[s].rows = Append(tx[s].rows, row)
  BY <1>2, <1>4, TxUpdate DEF InsertEventTx, Tx
<1>6. row.ev = pending[s][i]
  BY DEF InsertRow
<1> HIDE DEF row
<1>7. /\ DOMAIN tx'[s].rows = 1..(n + 1)
      /\ tx'[s].rows[n + 1] = row
      /\ \A k \in 1..n : tx'[s].rows[k] = tx[s].rows[k]
  BY <1>4, <1>5
<1>8. PICK order \in [1..n -> DOMAIN pending[s]] :
        /\ \A k \in 1..n : tx[s].rows[k].ev = pending[s][order[k]]
        /\ \A k, l \in 1..n : k < l => order[k] < order[l]
        /\ {order[k] : k \in 1..n} = {j \in DOMAIN pending[s] : /\ j <= tx[s].at
                                                              /\ pending[s][j].stream = tx[s].stream}
  <2>1. TxBatch(s)
    BY <1>1 DEF BatchInv
  <2>2. PICK order \in [DOMAIN tx[s].rows -> DOMAIN pending[s]] :
           /\ \A k \in DOMAIN order : tx[s].rows[k].ev = pending[s][order[k]]
           /\ \A k, l \in DOMAIN order : k < l => order[k] < order[l]
           /\ {order[k] : k \in DOMAIN order} =
                 {j \in DOMAIN pending[s] : /\ j <= tx[s].at
                                            /\ pending[s][j].stream = tx[s].stream}
    BY <2>1 DEF TxBatch
  <2>3. DOMAIN order = 1..n /\ order \in [1..n -> DOMAIN pending[s]]
    BY <2>2, <1>4
  <2> QED
    BY <2>2, <2>3
<1>9. /\ i \in Nat /\ i > tx[s].at /\ tx[s].at \in Nat
      /\ pending[s][i].stream = tx[s].stream
      /\ \A j \in DOMAIN pending[s] :
            j > tx[s].at /\ pending[s][j].stream = tx[s].stream => i <= j
  BY <1>2, TxType, PendingType DEF IsNextEvent, Later
<1> DEFINE longer == [k \in 1..(n + 1) |-> IF k = n + 1 THEN i ELSE order[k]]
<1>10. TxBatch(s)'
  <2>1. /\ longer \in [1..(n + 1) -> DOMAIN pending[s]]
        /\ DOMAIN longer = 1..(n + 1)
        /\ longer[n + 1] = i
        /\ \A k \in 1..n : longer[k] = order[k] /\ k \in 1..(n + 1)
    BY <1>4
  <2> HIDE DEF longer
  <2>2. \A k \in 1..(n + 1) : k = n + 1 \/ k \in 1..n
    BY <1>4
  <2>3. \A k \in 1..(n + 1) : tx'[s].rows[k].ev = pending[s][longer[k]]
    BY <2>1, <2>2, <1>6, <1>7, <1>8
  <2>4. \A k \in 1..n : order[k] \in Nat /\ order[k] <= tx[s].at
    BY <1>8, PendingType
  <2>5. \A k, l \in 1..(n + 1) : k < l => longer[k] < longer[l]
    <3> SUFFICES ASSUME NEW k \in 1..(n + 1), NEW l \in 1..(n + 1), k < l
                 PROVE  longer[k] < longer[l]
      OBVIOUS
    <3>1. k \in 1..n
      BY <1>4
    <3>2. CASE l = n + 1
      BY <3>1, <3>2, <2>1, <2>4, <1>9
    <3>3. CASE l \in 1..n
      BY <3>1, <3>3, <2>1, <1>8
    <3> QED
      BY <3>2, <3>3, <2>2
  <2>6. {longer[k] : k \in 1..(n + 1)} =
          {j \in DOMAIN pending[s] : j <= i /\ pending[s][j].stream = tx[s].stream}
    <3>1. ASSUME NEW k \in 1..(n + 1)
          PROVE  /\ longer[k] \in DOMAIN pending[s]
                 /\ longer[k] <= i /\ pending[s][longer[k]].stream = tx[s].stream
      <4>1. CASE k = n + 1
        BY <4>1, <2>1, <1>9
      <4>2. CASE k \in 1..n
        <5>1. order[k] \in {j \in DOMAIN pending[s] : /\ j <= tx[s].at
                                                     /\ pending[s][j].stream = tx[s].stream}
          BY <4>2, <1>8
        <5> QED
          BY <5>1, <4>2, <2>1, <2>4, <1>9
      <4> QED
        BY <4>1, <4>2, <2>2
    <3>2. ASSUME NEW j \in DOMAIN pending[s], j <= i, pending[s][j].stream = tx[s].stream
          PROVE  \E k \in 1..(n + 1) : longer[k] = j
      <4>1. j \in Nat
        BY PendingType
      <4>2. CASE j > tx[s].at
        <5>1. j = i /\ n + 1 \in 1..(n + 1)
          BY <3>2, <4>1, <4>2, <1>4, <1>9
        <5> QED
          BY <5>1, <2>1
      <4>3. CASE j <= tx[s].at
        <5>1. j \in {order[k] : k \in 1..n}
          BY <3>2, <4>3, <1>8
        <5>2. PICK k \in 1..n : order[k] = j
          BY <5>1
        <5> QED
          BY <5>2, <2>1
      <4> QED
        BY <4>1, <4>2, <4>3, <1>9
    <3> QED
      BY <3>1, <3>2
  <2>7. /\ longer \in [DOMAIN tx'[s].rows -> DOMAIN pending'[s]]
        /\ \A k \in DOMAIN longer : tx'[s].rows[k].ev = pending'[s][longer[k]]
        /\ \A k, l \in DOMAIN longer : k < l => longer[k] < longer[l]
        /\ {longer[k] : k \in DOMAIN longer} =
              {j \in DOMAIN pending'[s] : /\ j <= tx'[s].at
                                          /\ pending'[s][j].stream = tx'[s].stream}
    BY <2>1, <2>3, <2>5, <2>6, <1>1, <1>5, <1>7
  <2> QED
    BY <2>7 DEF TxBatch
<1>11. InsertEventTx(s, i).stream = tx[s].stream
  BY <1>4 DEF InsertEventTx, Tx
<1> QED
  BY <1>1, <1>2, <1>3, <1>10, <1>11, StatementBatch

(* A commit adds one row for each pending event of its stream.             *)
LEMMA CommitBatch ==
  ASSUME TypeOK, TypeOK', IInv, BatchInv, NEW s \in Sessions, Commit(s)
  PROVE  BatchInv'
<1> DEFINE rows == tx[s].rows
           n == Len(rows)
           st == tx[s].stream
           new == {rows[k] : k \in 1..n}
<1>1. /\ pc[s] = "update"
      /\ mt_events' = mt_events \cup new
      /\ pc' = [pc EXCEPT ![s] = "reply"]
      /\ UNCHANGED <<pending, appended, todo, fails, tx>>
  <2>1. DOMAIN rows = 1..n
    BY TxType
  <2> QED
    BY <2>1 DEF Commit, sessionVars, At
<1>2. pc'[s] = "reply" /\ \A t \in Sessions \ {s} : pc'[t] = pc[t]
  BY <1>1 DEF TypeOK
<1>3. n \in Nat /\ DOMAIN rows = 1..n /\ st \in Streams /\ tx[s].at \in Nat
  BY TxType
<1>4. PICK order \in [1..n -> DOMAIN pending[s]] :
        /\ \A k \in 1..n : rows[k].ev = pending[s][order[k]]
        /\ \A k, l \in 1..n : k < l => order[k] < order[l]
  <2>1. TxBatch(s)
    BY <1>1 DEF BatchInv, InTx
  <2>2. PICK order \in [DOMAIN rows -> DOMAIN pending[s]] :
           /\ \A k \in DOMAIN order : rows[k].ev = pending[s][order[k]]
           /\ \A k, l \in DOMAIN order : k < l => order[k] < order[l]
    BY <2>1 DEF TxBatch
  <2>3. DOMAIN order = 1..n /\ order \in [1..n -> DOMAIN pending[s]]
    BY <2>2, <1>3
  <2> QED
    BY <2>2, <2>3
<1>5. /\ \A k \in 1..n : order[k] \in Nat
      /\ \A k \in 1..n : rows[k].ev.by = s /\ rows[k].ev.stream = st
      /\ \A k \in 1..n : rows[k].ev.no <= appended[s]
      /\ \A k, l \in 1..n : k < l => rows[k].ev.no < rows[l].ev.no
  <2>1. \A k \in 1..n : order[k] \in Nat
    BY <1>4, PendingType
  <2>2. \A k \in 1..n : rows[k].ev.by = s
    BY <1>4 DEF IInv, SaveInv
  <2>3. \A k \in 1..n : rows[k].ev.stream = st
    BY <1>1, <1>3 DEF IInv, TxInv, TxVersions, InTx
  <2>4. \A k \in 1..n : rows[k].ev.no <= appended[s]
    <3> SUFFICES ASSUME NEW k \in 1..n PROVE rows[k].ev.no <= appended[s]
      OBVIOUS
    <3>1. pending[s][order[k]].no \in 1..appended[s] /\ appended[s] \in Nat
      BY <1>4 DEF BatchInv, Numbered, TypeOK
    <3> QED
      BY <3>1, <1>4
  <2>5. \A k, l \in 1..n : k < l => rows[k].ev.no < rows[l].ev.no
    BY <1>4 DEF BatchInv, Numbered
  <2> QED
    BY <2>1, <2>2, <2>3, <2>4, <2>5
<1>6. \A r \in new : r.ev.by = s /\ r.ev.stream = st /\ r.ev.no <= appended[s]
  BY <1>5
<1>7. \A q, r \in new : q.ev = r.ev => q = r
  <2> SUFFICES ASSUME NEW k \in 1..n, NEW l \in 1..n, rows[k].ev = rows[l].ev
               PROVE  k = l
    OBVIOUS
  <2>1. rows[k].ev.no \in Nat /\ rows[l].ev.no \in Nat /\ k \in Nat /\ l \in Nat
    BY <1>3, RowType DEF Row, Event
  <2>2. ~(k < l) /\ ~(l < k)
    BY <2>1, <1>5
  <2> QED
    BY <2>1, <2>2
<1> HIDE DEF new
<1>8. Numbered'
  <2>1. \A r \in mt_events' : r.ev.no <= appended[r.ev.by]
    BY <1>1, <1>6 DEF BatchInv, Numbered
  <2> QED
    BY <2>1, <1>1 DEF BatchInv, Numbered
<1>9. ASSUME NEW t \in Sessions, pc'[t] \in InTx PROVE TxBatch(t)'
  <2>1. t # s
    BY <1>2, <1>9 DEF InTx
  <2>2. TxBatch(t) /\ tx'[t] = tx[t] /\ pending'[t] = pending[t]
    BY <1>1, <1>2, <1>9, <2>1 DEF BatchInv
  <2> QED
    BY <2>2 DEF TxBatch
<1>10. TxTodo'
  <2>1. \A t \in InCall' : t \in InCall
    BY <1>1, <1>2 DEF InCall, InTx
  <2> QED
    BY <2>1, <1>1 DEF BatchInv, TxTodo
<1>11. CopiesInv
  BY DEF BatchInv
<1>12. \A e : Cardinality(Copies(e)) \in Nat /\ IsFiniteSet(Copies(e))
  BY <1>11, CopiesCount
<1>13. ASSUME NEW e, \A r \in new : r.ev # e
       PROVE  Copies(e)' = Copies(e)
  BY <1>1, <1>13 DEF Copies
<1>14. ASSUME NEW e, NEW r \in new, r.ev = e
       PROVE  Cardinality(Copies(e)') <= 1 + Cardinality(Copies(e))
  <2>1. Copies(e)' = Copies(e) \cup {r}
    BY <1>1, <1>7, <1>14 DEF Copies
  <2>2. CASE r \in Copies(e)
    <3>1. Copies(e)' = Copies(e)
      BY <2>1, <2>2
    <3> QED
      BY <3>1, <1>12
  <2>3. CASE r \notin Copies(e)
    <3>1. PICK S : S = Copies(e)
      OBVIOUS
    <3>2. IsFiniteSet(S) /\ r \notin S /\ Copies(e)' = S \cup {r}
      BY <3>1, <2>1, <2>3, <1>12
    <3>3. Cardinality(S \cup {r}) = Cardinality(S) + 1
      BY <3>2, FS_AddElement
    <3> QED
      BY <3>1, <3>2, <3>3, <1>12
  <2> QED
    BY <2>2, <2>3
<1>15. ASSUME NEW t \in Sessions, NEW i \in DOMAIN pending[t], NEW e, e = pending[t][i]
       PROVE  Bounded(t, e)'
  <2>1. Bounded(t, e) /\ fails[t] \in Nat /\ fails'[t] = fails[t]
    BY <1>1, <1>11, <1>15 DEF CopiesInv, Bounded, TypeOK
  <2>2. CASE \A r \in new : r.ev # e
    <3>1. Done(t, e.stream) => Done(t, e.stream)'
      BY <1>1, <1>2 DEF Done
    <3> QED
      BY <2>1, <2>2, <3>1, <1>13 DEF Bounded
  <2>3. CASE \E r \in new : r.ev = e
    <3>1. PICK r \in new : r.ev = e
      BY <2>3
    <3>2. e.by = s /\ e.stream = st /\ e.by = t
      BY <3>1, <1>6, <1>15 DEF IInv, SaveInv
    <3>3. st \in todo[s] /\ ~Done(s, st)
      <4>1. st \in todo[s]
        BY <1>1 DEF BatchInv, TxTodo, InCall, InTx
      <4> QED
        BY <4>1, <1>1 DEF Done
    <3>4. Cardinality(Copies(e)) <= fails[t]
      BY <2>1, <3>2, <3>3 DEF Bounded
    <3>5. Cardinality(Copies(e)') <= 1 + Cardinality(Copies(e)) /\ Cardinality(Copies(e)) \in Nat
      BY <3>1, <1>12, <1>14
    <3>6. Done(t, e.stream)'
      BY <1>1, <1>2, <3>2 DEF Done
    <3>7. Cardinality(Copies(e)') \in Nat
      <4>1. Copies(e)' = Copies(e) \cup {r}
        BY <1>1, <1>7, <3>1 DEF Copies
      <4>2. IsFiniteSet(Copies(e)')
        BY <4>1, <1>12, FS_AddElement
      <4> QED
        BY <4>2, FS_CardinalityType
    <3>8. Cardinality(Copies(e)') <= 1 + fails'[t]
      BY <2>1, <3>4, <3>5, <3>7
    <3> QED
      BY <3>6, <3>8 DEF Bounded
  <2> QED
    BY <2>2, <2>3
<1>16. BoundedCopies'
  <2> SUFFICES ASSUME NEW r \in mt_events', NEW e, e = r.ev
               PROVE  Cardinality(Copies(e)') <= 1 + fails[e.by]
    BY <1>1 DEF BoundedCopies, Copies
  <2>1. CASE \A q \in new : q.ev # e
    <3>1. r \in mt_events
      BY <2>1, <1>1
    <3>2. Cardinality(Copies(e)) <= 1 + fails[e.by]
      BY <3>1, <1>11 DEF CopiesInv, BoundedCopies, Copies
    <3> QED
      BY <2>1, <3>2, <1>13
  <2>2. CASE \E q \in new : q.ev = e
    <3>1. PICK k \in 1..n : rows[k].ev = e
      BY <2>2 DEF new
    <3>2. Bounded(s, e)' /\ e.by = s
      BY <3>1, <1>4, <1>5, <1>15
    <3> QED
      BY <3>2, <1>1 DEF Bounded
  <2> QED
    BY <2>1, <2>2
<1>17. IsFiniteSet(mt_events')
  <2>1. IsFiniteSet(new)
    <3>1. IsFiniteSet(1..n)
      BY <1>3, FS_Interval
    <3>2. PICK f : f = [k \in 1..n |-> rows[k]]
      OBVIOUS
    <3>3. f \in Surjection(1..n, new)
      BY <3>2 DEF Surjection, new
    <3> QED
      BY <3>1, <3>3, FS_Surjection
  <2> QED
    BY <2>1, <1>1, <1>11, FS_Union DEF CopiesInv
<1>18. CopiesInv'
  BY <1>1, <1>15, <1>16, <1>17, CopiesBounded
<1> QED
  BY <1>8, <1>9, <1>10, <1>18 DEF BatchInv

LEMMA InitBatch == Init => BatchInv
<1> SUFFICES ASSUME Init PROVE BatchInv
  OBVIOUS
<1>1. /\ \A s \in Sessions : pending[s] = << >> /\ pc[s] = "idle"
      /\ mt_events = {}
  BY DEF Init
<1>2. Numbered /\ TxTodo
  BY <1>1 DEF Numbered, TxTodo, InCall, InTx
<1>3. CopiesInv
  BY <1>1, FS_EmptySet DEF CopiesInv, BoundedCopies
<1> QED
  BY <1>1, <1>2, <1>3 DEF BatchInv, InTx

LEMMA NextBatch == TypeOK /\ IInv /\ BatchInv /\ [Next]_vars => BatchInv'
<1> SUFFICES ASSUME TypeOK, IInv, BatchInv, [Next]_vars PROVE BatchInv'
  OBVIOUS
<1>1. TypeOK'
  BY NextType
<1>2. ASSUME NEW s \in Sessions, Server(s) PROVE BatchInv'
  BY <1>1, <1>2, ErrorBatch, PlainStatementBatch, InsertEventBatch, CommitBatch DEF Server
<1>3. ASSUME NEW s \in Sessions, Progress(s) PROVE BatchInv'
  BY <1>1, <1>2, <1>3, SendBatch, ReceiveBatch, FinishBatch, ErrorBatch DEF Progress
<1>4. ASSUME NEW s \in Sessions,
             \/ \E st \in Streams : AppendEvent(s, st)
             \/ Save(s)
             \/ Unavailable(s)
             \/ ConnectionLost(s)
      PROVE  BatchInv'
  BY <1>1, <1>4, AppendBatch, SaveBatch, ErrorBatch
<1>5. CASE BreakIdle \/ UNCHANGED vars
  <2>1. UNCHANGED <<pending, appended, pc, todo, tx, fails, mt_events>>
    BY <1>5 DEF BreakIdle, vars, sessionVars, dbVars
  <2>2. Numbered' /\ TxTodo'
    BY <2>1 DEF BatchInv, Numbered, TxTodo, InCall
  <2>4. ASSUME NEW s \in Sessions, pc'[s] \in InTx PROVE TxBatch(s)'
    <3>1. TxBatch(s)
      BY <2>1, <2>4 DEF BatchInv
    <3> QED
      BY <2>1, <3>1, SameBatch
  <2>3. CopiesInv'
    BY <2>1 DEF BatchInv, CopiesInv, BoundedCopies, Copies, Done
  <2> QED
    BY <2>2, <2>3, <2>4 DEF BatchInv
<1> QED
  BY <1>3, <1>4, <1>5 DEF Next

(* Everything the proofs of the copies and of the log rest on holds in     *)
(* every reachable state.                                                  *)
THEOREM BatchesAreWhole == Spec => [](TypeOK /\ IInv /\ BatchInv)
BY InitType, NextType, InitIInv, NextIInv, InitBatch, NextBatch, PTL DEF Spec

(* An event is stored at most once more often than Saves of its session    *)
(* have failed: retries duplicate, nothing else does.                      *)
THEOREM CopiesAreBounded == Spec => []BoundedCopies
<1>1. BatchInv => BoundedCopies
  BY DEF BatchInv, CopiesInv
<1> QED
  BY <1>1, BatchesAreWhole, PTL

-----------------------------------------------------------------------------
(* The refinement of EventLog.                                             *)

(* LogOf reads the row it names: there is exactly one of each version.     *)
LogFacts(st) ==
  /\ LogOf(st) \in Seq(Event)
  /\ Len(LogOf(st)) = Current(st)
  /\ DOMAIN LogOf(st) = 1..Current(st)
  /\ \A v \in 1..Current(st) : \E r \in mt_events : r.ev.stream = st /\ r.version = v
  /\ \A r \in mt_events : r.ev.stream = st =>
        r.version \in 1..Current(st) /\ LogOf(st)[r.version] = r.ev

AllLogs == \A st \in Streams : Current(st) \in Nat /\ LogFacts(st)

LEMMA LogIsRead == TypeOK /\ VersionsContiguous => AllLogs
<1> SUFFICES ASSUME TypeOK, VersionsContiguous, NEW st \in Streams
             PROVE  Current(st) \in Nat /\ LogFacts(st)
  BY DEF AllLogs
<1>1. /\ Current(st) \in Nat
      /\ \A v : v \in 1..Current(st) <=> v \in 1..mt_streams[st]
  BY DEF Current, TypeOK, NoRow
<1>2. \A r \in mt_events : r.ev.stream = st => r.version \in 1..Current(st)
  BY <1>1 DEF VersionsContiguous
<1>3. \A v \in 1..Current(st) : \E r \in mt_events : r.ev.stream = st /\ r.version = v
  BY <1>1 DEF VersionsContiguous
<1>4. ASSUME NEW r \in mt_events, r.ev.stream = st
      PROVE  LogOf(st)[r.version] = r.ev
  <2>1. r.version \in 1..Current(st)
    BY <1>2, <1>4
  <2>2. LogOf(st)[r.version] = (CHOOSE q \in mt_events : q.ev.stream = st /\ q.version = r.version).ev
    BY <2>1 DEF LogOf
  <2>3. \A q \in mt_events : q.ev.stream = st /\ q.version = r.version => q = r
    BY <1>4 DEF VersionsContiguous
  <2>4. (CHOOSE q \in mt_events : q.ev.stream = st /\ q.version = r.version) = r
    BY <1>4, <2>3
  <2> QED
    BY <2>2, <2>4
<1>5. DOMAIN LogOf(st) = 1..Current(st)
  BY DEF LogOf
<1>6. \A v \in 1..Current(st) : LogOf(st)[v] \in Event
  <2>1. \A r \in mt_events : r.ev \in Event
    BY DEF TypeOK, Row
  <2> QED
    BY <2>1, <1>3, <1>4
<1>7. LogOf(st) \in [1..Current(st) -> Event]
  <2>1. LogOf(st) = [v \in 1..Current(st) |-> LogOf(st)[v]]
    BY DEF LogOf
  <2> QED
    BY <2>1, <1>6
<1>8. LogOf(st) \in Seq(Event) /\ Len(LogOf(st)) = Current(st)
  BY <1>1, <1>7
<1> QED
  BY <1>1, <1>2, <1>3, <1>4, <1>5, <1>8 DEF LogFacts

LEMMA NextLog == TypeOK' /\ VersionsContiguous' => AllLogs'
BY LogIsRead, PTL

LEMMA IntervalSize == \A m \in Nat : IsFiniteSet(1..m) /\ Cardinality(1..m) = m
<1> SUFFICES ASSUME NEW m \in Nat PROVE IsFiniteSet(1..m) /\ Cardinality(1..m) = m
  OBVIOUS
<1>1. IsFiniteSet(1..m) /\ Cardinality(1..m) = IF 1 > m THEN 0 ELSE m - 1 + 1
  BY FS_Interval
<1> QED
  BY <1>1

LEMMA Concatenated ==
  ASSUME NEW S, NEW a \in Seq(S), NEW b \in Seq(S)
  PROVE  /\ a \o b \in Seq(S)
         /\ Len(a \o b) = Len(a) + Len(b)
         /\ \A v \in 1..(Len(a) + Len(b)) :
               (a \o b)[v] = IF v <= Len(a) THEN a[v] ELSE b[v - Len(a)]
OBVIOUS

LEMMA SameSequence ==
  ASSUME NEW S, NEW a \in Seq(S), NEW b \in Seq(S), Len(a) = Len(b),
         \A i \in 1..Len(a) : a[i] = b[i]
  PROVE  a = b
OBVIOUS

LEMMA SameLog ==
  ASSUME UNCHANGED <<mt_streams, mt_events>>
  PROVE  \A st \in Streams : LogOf(st)' = LogOf(st)
BY DEF LogOf, Current

(* What a commit does to the log of the stream.                            *)
LEMMA CommitRows ==
  ASSUME TypeOK, IInv, NEW s \in Sessions, Commit(s)
  PROVE  LET st == tx[s].stream
             n  == Len(tx[s].rows)
         IN  /\ n \in Nat \ {0} /\ DOMAIN tx[s].rows = 1..n
             /\ Current(st)' = Current(st) + n
             /\ mt_events' = mt_events \cup {tx[s].rows[k] : k \in 1..n}
             /\ \A k \in 1..n : /\ tx[s].rows[k].ev.stream = st
                                /\ tx[s].rows[k].version = Current(st) + k
             /\ \A other \in Streams \ {st} : Current(other)' = Current(other)
<1> DEFINE st == tx[s].stream
           n  == Len(tx[s].rows)
<1>1. n \in Nat /\ DOMAIN tx[s].rows = 1..n /\ tx[s].rows \in Seq(Row)
      /\ st \in Streams /\ tx[s].version \in Nat
  BY TxType
<1>2. /\ pc[s] = "update"
      /\ mt_streams' = [mt_streams EXCEPT ![st] = tx[s].version]
      /\ mt_events' = mt_events \cup {tx[s].rows[k] : k \in 1..n}
  BY <1>1 DEF Commit, At
<1>3. TxVersions(s)
  BY <1>2 DEF IInv, TxInv, InTx
<1>4. tx[s].rows # << >> /\ Base(s) = Current(st) /\ Base(s) = tx[s].version - n
  BY <1>2, <1>3 DEF TxVersions, Base
<1>5. n # 0
  BY <1>1, <1>4
<1>6. Current(st) \in Nat
  BY <1>1 DEF Current, TypeOK, NoRow
<1>7. mt_streams'[st] = Current(st) + n
  BY <1>1, <1>2, <1>4, <1>6 DEF TypeOK
<1>8. Current(st)' = Current(st) + n
  <2>1. tx'[s].stream = st
    BY DEF Commit
  <2>2. Current(st)' = IF mt_streams'[st] = NoRow THEN 0 ELSE mt_streams'[st]
    BY <2>1 DEF Current
  <2> QED
    BY <2>2, <1>6, <1>7, <1>1 DEF NoRow
<1>9. \A other \in Streams \ {st} : Current(other)' = Current(other)
  BY <1>2 DEF Current, TypeOK
<1>10. \A k \in 1..n : /\ tx[s].rows[k].ev.stream = st
                       /\ tx[s].rows[k].version = Current(st) + k
  BY <1>1, <1>3, <1>4 DEF TxVersions
<1> QED
  BY <1>1, <1>2, <1>5, <1>8, <1>9, <1>10

(* A commit moves the whole batch of its stream into the log.              *)
LEMMA CommitStores ==
  ASSUME TypeOK, TypeOK', IInv, IInv', BatchInv, NEW s \in Sessions, Commit(s)
  PROVE  Log!Store(s, tx[s].stream)
<1> PICK st : st = tx[s].stream
  OBVIOUS
<1> PICK n : n = Len(tx[s].rows)
  OBVIOUS
<1> PICK c : c = Current(st)
  OBVIOUS
<1> PICK rows : rows = tx[s].rows
  OBVIOUS
<1>1. /\ n \in Nat \ {0} /\ DOMAIN rows = 1..n
      /\ Current(st)' = c + n
      /\ mt_events' = mt_events \cup {rows[k] : k \in 1..n}
      /\ \A k \in 1..n : rows[k].ev.stream = st /\ rows[k].version = c + k
      /\ \A other \in Streams \ {st} : Current(other)' = Current(other)
  <2>1. tx' = tx
    BY DEF Commit
  <2> QED
    BY <2>1, CommitRows
<1>2. st \in Streams /\ c \in Nat /\ pc[s] = "update" /\ pending' = pending
  BY TxType, LogIsRead DEF IInv, AllLogs, Commit, At, sessionVars
<1>3. PICK order \in [1..n -> DOMAIN pending[s]] :
        /\ \A k \in 1..n : rows[k].ev = pending[s][order[k]]
        /\ \A k, l \in 1..n : k < l => order[k] < order[l]
        /\ {order[k] : k \in 1..n} =
             {i \in DOMAIN pending[s] : i <= tx[s].at /\ pending[s][i].stream = st}
  <2>1. TxBatch(s)
    BY <1>2 DEF BatchInv, InTx
  <2>2. PICK order \in [DOMAIN rows -> DOMAIN pending[s]] :
           /\ \A k \in DOMAIN order : rows[k].ev = pending[s][order[k]]
           /\ \A k, l \in DOMAIN order : k < l => order[k] < order[l]
           /\ {order[k] : k \in DOMAIN order} =
                {i \in DOMAIN pending[s] : i <= tx[s].at /\ pending[s][i].stream = st}
    BY <2>1 DEF TxBatch
  <2>3. DOMAIN order = 1..n /\ order \in [1..n -> DOMAIN pending[s]]
    BY <2>2, <1>1
  <2> QED
    BY <2>2, <2>3
<1>4. DOMAIN order = 1..n
  BY <1>3
<1>5. {order[k] : k \in 1..n} = {i \in DOMAIN pending[s] : pending[s][i].stream = st}
  <2>1. \A i \in DOMAIN pending[s] : pending[s][i].stream = st => i <= tx[s].at
    BY <1>2 DEF IInv, TxInv, TxEvents, InTx
  <2> QED
    BY <2>1, <1>3
<1>6. Log!Lists(order, pending[s], st)
  BY <1>3, <1>4, <1>5 DEF Log!Lists
<1>7. n \in 1..Len(pending[s])
  <2>1. PICK m \in Nat : m = Len(pending[s]) /\ DOMAIN pending[s] = 1..m
    BY DEF TypeOK
  <2>2. order \in Injection(1..n, 1..m)
    <3>1. ASSUME NEW k \in 1..n, NEW l \in 1..n, order[k] = order[l] PROVE k = l
      <4>1. order[k] \in Nat /\ order[l] \in Nat
        BY <1>3, <2>1
      <4>2. ~(k < l) /\ ~(l < k)
        BY <3>1, <4>1, <1>3
      <4> QED
        BY <4>2
    <3> QED
      BY <3>1, <1>3, <2>1 DEF Injection, IsInjective
  <2>3. IsFiniteSet(1..m) /\ Cardinality(1..m) = m /\ Cardinality(1..n) = n
    BY <2>1, <1>1, IntervalSize
  <2>4. n <= m
    BY <2>2, <2>3, FS_Injection
  <2> QED
    BY <2>1, <2>4, <1>1
<1> DEFINE batch == [k \in 1..n |-> pending[s][order[k]]]
<1>8. (Current(st) \in Nat /\ LogFacts(st))' /\ Current(st) \in Nat /\ LogFacts(st)
  BY <1>2, NextLog, LogIsRead DEF IInv, AllLogs
<1>9. LogOf(st)' = LogOf(st) \o batch
  <2>1. batch \in Seq(Event) /\ Len(batch) = n /\ DOMAIN batch = 1..n
    <3>1. \A i \in DOMAIN pending[s] : pending[s][i] \in Event
      BY PendingType
    <3> QED
      BY <3>1, <1>1, <1>3
  <2>2. \A k \in 1..n : batch[k] = rows[k].ev
    BY <1>3
  <2> HIDE DEF batch
  <2>3. PICK old : old = LogOf(st)
    OBVIOUS
  <2>4. PICK now : now = LogOf(st)'
    OBVIOUS
  <2>5. /\ old \in Seq(Event) /\ Len(old) = c /\ DOMAIN old = 1..c
        /\ now \in Seq(Event) /\ Len(now) = c + n /\ DOMAIN now = 1..(c + n)
    BY <2>3, <2>4, <1>1, <1>8 DEF LogFacts
  <2>6. \A r \in mt_events : r.ev.stream = st => old[r.version] = r.ev
    BY <2>3, <1>8 DEF LogFacts
  <2>7. \A r \in mt_events' : r.ev.stream = st => now[r.version] = r.ev
    BY <2>4, <1>8 DEF LogFacts
  <2>8. \A v \in 1..c : now[v] = old[v]
    <3> SUFFICES ASSUME NEW v \in 1..c PROVE now[v] = old[v]
      OBVIOUS
    <3>1. PICK r \in mt_events : r.ev.stream = st /\ r.version = v
      BY <1>8 DEF LogFacts
    <3> QED
      BY <3>1, <2>6, <2>7, <1>1
  <2>9. \A k \in 1..n : now[c + k] = batch[k]
    BY <2>2, <2>7, <1>1
  <2>10. PICK both : both = old \o batch
    OBVIOUS
  <2>11. /\ both \in Seq(Event) /\ Len(both) = c + n /\ DOMAIN both = 1..(c + n)
         /\ \A v \in 1..(c + n) : both[v] = IF v <= c THEN old[v] ELSE batch[v - c]
    <3>1. /\ old \in Seq(Event) /\ batch \in Seq(Event)
          /\ Len(old) = c /\ Len(batch) = n /\ both = old \o batch
      BY <2>1, <2>5, <2>10
    <3> HIDE DEF batch
    <3>2. both \in Seq(Event)
      BY <3>1, Concatenated
    <3>3. Len(both) = c + n
      BY <3>1, Concatenated
    <3>4. \A v \in 1..(c + n) : both[v] = IF v <= c THEN old[v] ELSE batch[v - c]
      BY <3>1, Concatenated
    <3> QED
      BY <3>2, <3>3, <3>4
  <2>12. \A v \in 1..(c + n) : now[v] = both[v]
    <3> SUFFICES ASSUME NEW v \in 1..(c + n) PROVE now[v] = both[v]
      OBVIOUS
    <3>1. CASE v <= c
      BY <3>1, <2>8, <2>11, <1>2
    <3>2. CASE ~(v <= c)
      <4>1. v - c \in 1..n /\ c + (v - c) = v
        BY <3>2, <1>1, <1>2
      <4> QED
        BY <4>1, <3>2, <2>9, <2>11
    <3> QED
      BY <3>1, <3>2
  <2>13. now = both
    BY <2>5, <2>11, <2>12, SameSequence
  <2> QED
    BY <2>3, <2>4, <2>10, <2>13
<1>10. \A x \in Streams \ {st} : LogOf(x)' = LogOf(x)
  <2> SUFFICES ASSUME NEW x \in Streams \ {st} PROVE LogOf(x)' = LogOf(x)
    OBVIOUS
  <2>1. (Current(x) \in Nat /\ LogFacts(x))' /\ Current(x) \in Nat /\ LogFacts(x)
    BY <1>2, NextLog, LogIsRead DEF IInv, AllLogs
  <2>2. PICK old : old = LogOf(x)
    OBVIOUS
  <2>3. PICK now : now = LogOf(x)'
    OBVIOUS
  <2>4. /\ Len(old) = Current(x) /\ Len(now) = Current(x)
        /\ old \in Seq(Event) /\ now \in Seq(Event)
    BY <2>1, <2>2, <2>3, <1>1 DEF LogFacts
  <2>5. \A v \in 1..Current(x) : now[v] = old[v]
    <3> SUFFICES ASSUME NEW v \in 1..Current(x) PROVE now[v] = old[v]
      OBVIOUS
    <3>1. PICK r \in mt_events : r.ev.stream = x /\ r.version = v
      BY <2>1 DEF LogFacts
    <3>2. old[v] = r.ev
      BY <3>1, <2>1, <2>2 DEF LogFacts
    <3>3. now[v] = r.ev
      BY <3>1, <2>1, <2>3, <1>1 DEF LogFacts
    <3> QED
      BY <3>2, <3>3
  <2> QED
    BY <2>2, <2>3, <2>4, <2>5, SameSequence
<1> QED
  <2>1. PICK log0 : log0 = [x \in Streams |-> LogOf(x)]
    OBVIOUS
  <2>2. [x \in Streams |-> LogOf(x)]' = [log0 EXCEPT ![st] = @ \o batch]
    BY <2>1, <1>2, <1>9, <1>10
  <2> HIDE DEF batch
  <2>3. [x \in Streams |-> LogOf(x)]' =
          [log0 EXCEPT ![st] = @ \o [k \in 1..n |-> pending[s][order[k]]]]
    BY <2>2 DEF batch
  <2>4. order \in [1..n -> DOMAIN pending[s]]
    BY <1>3
  <2>5. \E m \in 1..Len(pending[s]) : \E o \in [1..m -> DOMAIN pending[s]] :
           /\ Log!Lists(o, pending[s], st)
           /\ [x \in Streams |-> LogOf(x)]' =
                [[x \in Streams |-> LogOf(x)]
                   EXCEPT ![st] = @ \o [k \in 1..m |-> pending[s][o[k]]]]
    BY <2>1, <2>3, <2>4, <1>6, <1>7
  <2>6. Log!Store(s, st)
    BY <2>5, <1>2 DEF Log!Store
  <2> QED
    BY <2>6

(* What the other steps of a session are in the log.                       *)
LEMMA AppendAccepts ==
  ASSUME TypeOK, IInv, BatchInv, NEW s \in Sessions, NEW st \in Streams, AppendEvent(s, st)
  PROVE  Log!Accept(s)
<1> PICK e : e = [by |-> s, no |-> appended[s] + 1, stream |-> st]
  OBVIOUS
<1>1. /\ appended[s] < MaxAppends
      /\ pending' = [pending EXCEPT ![s] = Append(@, e)]
      /\ UNCHANGED <<mt_streams, mt_events>>
  BY DEF AppendEvent, dbVars
<1>2. appended[s] \in Nat /\ appended[s] + 1 \in 1..MaxAppends
  BY <1>1, BoundsAssumption DEF TypeOK
<1>3. /\ e \in [by : Sessions, no : 1..MaxAppends, stream : Streams]
      /\ e.by = s /\ e.no = appended[s] + 1 /\ e.stream = st
  BY <1>2
<1>4. ASSUME NEW t \in Sessions PROVE ~Log!Contains(pending[t], e)
  <2> SUFFICES ASSUME NEW i \in DOMAIN pending[t], pending[t][i] = e PROVE FALSE
    BY DEF Log!Contains
  <2>1. t = s
    BY <1>3 DEF IInv, SaveInv
  <2>2. e.no \in 1..appended[s]
    BY <2>1 DEF BatchInv, Numbered
  <2> QED
    BY <2>2, <1>2, <1>3
<1>5. ~Log!Contains(LogOf(st), e)
  <2> SUFFICES ASSUME NEW v \in DOMAIN LogOf(st), LogOf(st)[v] = e PROVE FALSE
    BY DEF Log!Contains
  <2>1. LogFacts(st)
    BY LogIsRead DEF IInv, AllLogs
  <2>2. PICK r \in mt_events : r.ev.stream = st /\ r.version = v
    BY <2>1 DEF LogFacts
  <2>3. r.ev = e
    BY <2>1, <2>2 DEF LogFacts
  <2>4. r.ev.no <= appended[r.ev.by]
    BY DEF BatchInv, Numbered
  <2> QED
    BY <2>3, <2>4, <1>2, <1>3
<1>6. [x \in Streams |-> LogOf(x)]' = [x \in Streams |-> LogOf(x)]
  BY <1>1, SameLog
<1>7. [x \in Streams |-> LogOf(x)][e.stream] = LogOf(st)
  BY <1>3
<1> QED
  BY <1>1, <1>3, <1>4, <1>5, <1>6, <1>7 DEF Log!Accept

LEMMA FinishReleases ==
  ASSUME TypeOK, IInv, NEW s \in Sessions, Finish(s)
  PROVE  Log!Release(s)
<1>1. /\ pc[s] = "loop" /\ todo[s] = {}
      /\ pending' = [pending EXCEPT ![s] = << >>]
      /\ UNCHANGED <<mt_streams, mt_events>>
  BY DEF Finish, dbVars
<1>2. ASSUME NEW i \in DOMAIN pending[s]
      PROVE  Log!Contains([x \in Streams |-> LogOf(x)][pending[s][i].stream], pending[s][i])
  <2> PICK st : st = pending[s][i].stream
    OBVIOUS
  <2>1. PICK r \in mt_events : r.ev = pending[s][i]
    BY <1>1 DEF IInv, SaveInv, Stored
  <2>2. st \in Streams
    BY PendingType
  <2>3. LogFacts(st)
    BY <2>2, LogIsRead DEF IInv, AllLogs
  <2>4. r.version \in DOMAIN LogOf(st) /\ LogOf(st)[r.version] = r.ev
    BY <2>1, <2>3 DEF LogFacts
  <2> QED
    BY <2>1, <2>2, <2>4 DEF Log!Contains
<1>3. [x \in Streams |-> LogOf(x)]' = [x \in Streams |-> LogOf(x)]
  BY <1>1, SameLog
<1> QED
  BY <1>1, <1>2, <1>3 DEF Log!Release

LEMMA InitLog == Init => Log!Init
<1> SUFFICES ASSUME Init PROVE Log!Init
  OBVIOUS
<1>1. \A st \in Streams : LogOf(st) = << >>
  <2>1. \A st \in Streams : Current(st) = 0
    BY DEF Init, Current
  <2> SUFFICES ASSUME NEW st \in Streams PROVE LogOf(st) = << >>
    OBVIOUS
  <2>2. 1..Current(st) = {}
    BY <2>1
  <2> QED
    BY <2>2 DEF LogOf
<1> QED
  BY <1>1 DEF Init, Log!Init

(* Each step of the event store, seen from the log.                        *)
LEMMA LogStep ==
  ASSUME TypeOK, TypeOK', IInv, IInv', BatchInv, [Next]_vars
  PROVE  [Log!Next]_<<pending, [st \in Streams |-> LogOf(st)]>>
<1>1. ASSUME UNCHANGED <<pending, mt_streams, mt_events>>
      PROVE  UNCHANGED <<pending, [st \in Streams |-> LogOf(st)]>>
  BY <1>1, SameLog
<1>2. ASSUME NEW s \in Sessions, NEW st \in Streams, AppendEvent(s, st) PROVE Log!Next
  BY <1>2, AppendAccepts DEF Log!Next
<1>3. ASSUME NEW s \in Sessions, Finish(s) PROVE Log!Next
  BY <1>3, FinishReleases DEF Log!Next
<1>4. ASSUME NEW s \in Sessions, Commit(s) PROVE Log!Next
  BY <1>4, CommitStores, TxType DEF Log!Next
<1>5. ASSUME NEW s \in Sessions,
             \/ Save(s)
             \/ \E st \in Streams : Send(s, st)
             \/ Receive(s)
             \/ Unavailable(s)
             \/ SentOnDead(s)
             \/ ConnectionLost(s)
             \/ Violation(s)
      PROVE  UNCHANGED <<pending, mt_streams, mt_events>>
  BY <1>5 DEF Save, Send, Receive, Unavailable, SentOnDead, ConnectionLost, Violation, Fail,
              sessionVars, dbVars
<1>6. ASSUME NEW s \in Sessions, Server(s), ~Commit(s), ~Violation(s)
      PROVE  UNCHANGED <<pending, mt_streams, mt_events>>
  BY <1>6 DEF Server, SelectVersion, InsertStream, NextVal, InsertEvent, txStep, sessionVars,
              dbVars
<1>7. CASE BreakIdle \/ UNCHANGED vars
  BY <1>1, <1>7 DEF BreakIdle, vars, sessionVars, dbVars
<1>8. ASSUME NEW s \in Sessions, Progress(s)
      PROVE  \/ Finish(s) \/ Commit(s)
             \/ UNCHANGED <<pending, mt_streams, mt_events>>
  BY <1>5, <1>6, <1>8 DEF Progress
<1> QED
  BY <1>1, <1>2, <1>3, <1>4, <1>5, <1>7, <1>8 DEF Next

(* Sessions that interleave statement by statement, race for the same      *)
(* versions, fail, lose their connection and retry are seen by the users   *)
(* of the log as appending whole batches, one at a time, and as letting go *)
(* of an event only once the log has it.                                   *)
THEOREM EventStoreImplementsLog == Spec => ImplementsEventLog
<1>1. Init => Log!Init
  BY InitLog
<1>2. TypeOK /\ IInv /\ BatchInv /\ TypeOK' /\ IInv' /\ [Next]_vars
        => [Log!Next]_<<pending, [st \in Streams |-> LogOf(st)]>>
  BY LogStep
<1> QED
  BY <1>1, <1>2, BatchesAreWhole, PTL DEF Spec, ImplementsEventLog, Log!Spec, Log!logVars

-----------------------------------------------------------------------------
(* The pool.                                                               *)

LEMMA PoolStep ==
  ASSUME [Next]_vars
  PROVE  [Pool!Next]_poolVars
<1>1. ASSUME NEW s \in Sessions,
             \/ \E st \in Streams : AppendEvent(s, st)
             \/ Save(s)
             \/ Finish(s)
             \/ Unavailable(s)
      PROVE  UNCHANGED poolVars
  BY <1>1 DEF AppendEvent, Save, Finish, Unavailable
<1>2. ASSUME NEW s \in Sessions, NEW st \in Streams, Send(s, st) PROVE Pool!Next
  BY <1>2 DEF Send, Pool!Next
<1>3. ASSUME NEW s \in Sessions, Receive(s) PROVE Pool!Next
  BY <1>3 DEF Receive, Pool!Next
<1>4. ASSUME NEW s \in Sessions, SentOnDead(s) \/ Violation(s) PROVE Pool!Next
  BY <1>4 DEF SentOnDead, Violation, Pool!Next
<1>5. ASSUME NEW s \in Sessions, ConnectionLost(s) PROVE Pool!Next
  BY <1>5 DEF ConnectionLost, Pool!Next
<1>6. ASSUME NEW s \in Sessions, Server(s), ~Violation(s) PROVE UNCHANGED poolVars
  BY <1>6 DEF Server, SelectVersion, InsertStream, NextVal, InsertEvent, Commit, txStep
<1>7. CASE BreakIdle
  BY <1>7 DEF BreakIdle, Pool!Next
<1>8. CASE UNCHANGED vars
  BY <1>8 DEF vars, poolVars
<1> QED
  BY <1>1, <1>2, <1>3, <1>4, <1>5, <1>6, <1>7, <1>8 DEF Next, Progress

(* What is proved of the pool, which does not depend on what its clients   *)
(* do: it is stated beside the clients of PgClient, of which there is none *)
(* here.                                                                   *)
PoolFacts == INSTANCE PgClientProofs
    WITH Clients <- Sessions, Docs <- {}, Streams <- {}, Buffers <- 1,
         MaxIds <- 0, MaxCalls <- 0, MaxFaults <- 0, script <- << >>, tables <- {}, docs <- {},
         versions <- << >>, upload <- << >>, objects <- {}, retval <- << >>, errType <- << >>,
         given <- << >>, leaks <- 0, calls <- 0

(* Whatever Save() does, error paths included, the pool only sees the      *)
(* operations of a well-behaved client.                                    *)
THEOREM PoolIsUsedProperly == Spec => Pool!Spec
<1>1. Init => Pool!Init
  BY DEF Init
<1>2. [Next]_vars => [Pool!Next]_poolVars
  BY PoolStep
<1> QED
  BY <1>1, <1>2, PTL DEF Spec, Pool!Spec, poolVars, Pool!poolVars

LEMMA SamePool ==
  /\ Pool!Init => PoolFacts!Init
  /\ [Pool!Next]_poolVars => [PoolFacts!Next]_PoolFacts!poolVars
<1>1. Pool!Init => PoolFacts!Init
  <2>1. Pool!Cardinality(Conns) = PoolFacts!Cardinality(Conns)
    BY Zenon DEF Pool!Cardinality, PoolFacts!Cardinality
  <2> QED
    BY <2>1, Zenon DEF Pool!Init, PoolFacts!Init, Pool!Idle, PoolFacts!Idle
<1>2. [Pool!Next]_poolVars => [PoolFacts!Next]_PoolFacts!poolVars
  BY Zenon DEF Pool!Next, PoolFacts!Next, Pool!Borrow, PoolFacts!Borrow,
         Pool!BorrowFree, PoolFacts!BorrowFree,
         Pool!BorrowAbandoned, PoolFacts!BorrowAbandoned,
         Pool!Abandoned, PoolFacts!Abandoned, Pool!Unborrow, PoolFacts!Unborrow,
         Pool!Abandon, PoolFacts!Abandon, Pool!AbandonBroken, PoolFacts!AbandonBroken,
         Pool!BreakIdle, PoolFacts!BreakIdle, Pool!Idle, PoolFacts!Idle,
         poolVars, PoolFacts!poolVars
<1> QED
  BY <1>1, <1>2

(* A session's shared_ptr lives as long as the call it serves.             *)
HeldInCall == \A s \in Sessions : held[s] # NoConn <=> s \in InCall

LEMMA NextHeld == TypeOK /\ HeldInCall /\ [Next]_vars => HeldInCall'
<1> SUFFICES ASSUME TypeOK, HeldInCall, [Next]_vars PROVE HeldInCall'
  OBVIOUS
<1> DEFINE Takes(s) == held'[s] # NoConn /\ pc'[s] \in InTx \cup {"reply"}
           Drops(s) == held'[s] = NoConn /\ pc'[s] \notin InTx \cup {"reply"}
           Stays(s) == /\ held'[s] = held[s]
                       /\ pc'[s] \in InTx \cup {"reply"} <=> pc[s] \in InTx \cup {"reply"}
<1>1. ASSUME NEW s \in Sessions,
             Takes(s) \/ Drops(s) \/ Stays(s),
             \A t \in Sessions \ {s} : Stays(t)
      PROVE  HeldInCall'
  BY <1>1 DEF HeldInCall, InCall
<1>2. /\ held \in [Sessions -> Conns \cup {NoConn}]
      /\ borrowed \subseteq Conns
      /\ free \in Seq(Conns)
      /\ pc \in [Sessions -> PCs]
  BY DEF TypeOK, Pool!PoolTypeOK
<1>3. ASSUME NEW s \in Sessions, NEW st \in Streams, Send(s, st)
      PROVE  Takes(s) /\ \A t \in Sessions \ {s} : Stays(t)
  <2>1. pc' = [pc EXCEPT ![s] = "select"]
    BY <1>3 DEF Send
  <2>2. PICK c \in Conns : held' = [held EXCEPT ![s] = c]
    BY <1>2, <1>3 DEF Send, Pool!Borrow, Pool!BorrowFree, Pool!BorrowAbandoned, Pool!Abandoned
  <2> QED
    BY <2>1, <2>2, <1>2, FiniteConns DEF InTx
<1>4. ASSUME NEW s \in Sessions, Receive(s)
      PROVE  Drops(s) /\ \A t \in Sessions \ {s} : Stays(t)
  BY <1>2, <1>4 DEF Receive, Pool!Unborrow, InTx
<1>5. ASSUME NEW s \in Sessions, SentOnDead(s) \/ ConnectionLost(s) \/ Violation(s)
      PROVE  Drops(s) /\ \A t \in Sessions \ {s} : Stays(t)
  <2>1. pc' = [pc EXCEPT ![s] = "idle"]
    BY <1>5 DEF SentOnDead, ConnectionLost, Violation, Fail
  <2>2. held' = [held EXCEPT ![s] = NoConn]
    BY <1>5 DEF SentOnDead, ConnectionLost, Violation, Pool!Abandon, Pool!AbandonBroken
  <2> QED
    BY <2>1, <2>2, <1>2 DEF InTx
<1>6. ASSUME NEW s \in Sessions,
             \/ \E st \in Streams : AppendEvent(s, st)
             \/ Save(s)
             \/ Finish(s)
             \/ Unavailable(s)
      PROVE  \A t \in Sessions : Stays(t)
  <2>1. held' = held
    BY <1>6 DEF AppendEvent, Save, Finish, Unavailable, poolVars
  <2>2. pc[s] \in {"idle", "loop"} /\ (pc' = pc \/ \E l \in {"idle", "loop"} : pc' = [pc EXCEPT ![s] = l])
    BY <1>6 DEF AppendEvent, Save, Finish, Unavailable, Fail
  <2> QED
    BY <2>1, <2>2, <1>2 DEF InTx
<1>7. ASSUME NEW s \in Sessions, Server(s), ~Violation(s)
      PROVE  \A t \in Sessions : Stays(t)
  <2>1. held' = held
    BY <1>7 DEF Server, SelectVersion, InsertStream, NextVal, InsertEvent, Commit,
                txStep, poolVars
  <2>2. /\ pc[s] \in InTx
        /\ \E l \in InTx \cup {"reply"} : pc' = [pc EXCEPT ![s] = l]
    BY <1>7 DEF Server, SelectVersion, InsertStream, NextVal, InsertEvent, Commit, At, InTx
  <2> QED
    BY <2>1, <2>2, <1>2 DEF InTx
<1>8. CASE BreakIdle
  BY <1>8 DEF BreakIdle, Pool!BreakIdle, HeldInCall, InCall
<1>9. CASE UNCHANGED vars
  BY <1>9 DEF vars, HeldInCall, InCall
<1>10. ASSUME NEW s \in Sessions, Progress(s) \/ Unavailable(s) \/ ConnectionLost(s)
       PROVE  HeldInCall'
  BY <1>1, <1>3, <1>4, <1>5, <1>6, <1>7, <1>10 DEF Progress
<1>11. ASSUME NEW s \in Sessions, (\E st \in Streams : AppendEvent(s, st)) \/ Save(s)
       PROVE  HeldInCall'
  BY <1>1, <1>6, <1>11
<1> QED
  BY <1>8, <1>9, <1>10, <1>11 DEF Next

(* For any pool size and any finite number of sessions: no way out of      *)
(* Save() leaks a connection, and borrow fails only when every connection  *)
(* is at work for some session.                                            *)
THEOREM PoolServesCalls ==
  ASSUME IsFiniteSet(Sessions)
  PROVE  Spec => []ConnectionsServeCalls
<1>1. Spec => []PoolFacts!CapacityKept
  <2>1. Spec => PoolFacts!Spec
    BY PoolIsUsedProperly, SamePool, PTL DEF Pool!Spec, PoolFacts!Spec, poolVars,
       Pool!poolVars, PoolFacts!poolVars
  <2>2. PoolFacts!Spec => []PoolFacts!CapacityKept
    <3>1. PoolFacts!IsFiniteSet(Sessions) /\ PoolFacts!IsFiniteSet(Conns)
      BY FiniteConns, Zenon DEF PoolFacts!IsFiniteSet, IsFiniteSet
    <3>2. 1 \in Nat \ {0} /\ 0 \in Nat
      OBVIOUS
    <3> QED
      BY <3>1, <3>2, FiniteConns, PoolFacts!CapacityIsKept
  <2> QED
    BY <2>1, <2>2, PTL
<1>2. Init => HeldInCall
  BY DEF Init, Pool!Init, HeldInCall, InCall, InTx
<1>3. HeldInCall /\ PoolFacts!CapacityKept => ConnectionsServeCalls
  <2> SUFFICES ASSUME HeldInCall, PoolFacts!CapacityKept, Pool!Exhausted
               PROVE  Cardinality(InCall) >= Cardinality(Conns)
    BY DEF ConnectionsServeCalls, HeldInCall
  <2>1. InCall = {s \in Sessions : held[s] # NoConn}
    BY DEF HeldInCall, InCall
  <2>2. PoolFacts!Exhausted
    BY DEF Pool!Exhausted, PoolFacts!Exhausted, Pool!Abandoned, PoolFacts!Abandoned
  <2>3. \A S : PoolFacts!Cardinality(S) = Cardinality(S)
    BY Zenon DEF PoolFacts!Cardinality, Cardinality
  <2>4. IsFiniteSet(InCall)
    BY FS_Subset DEF InCall
  <2>5. Cardinality(InCall) \in Nat /\ Cardinality(Conns) \in Nat
    BY <2>4, FS_CardinalityType, FiniteConns
  <2>6. ~(Cardinality(InCall) < Cardinality(Conns))
    BY <2>1, <2>2, <2>3 DEF PoolFacts!CapacityKept
  <2> QED
    BY <2>5, <2>6
<1> QED
  BY <1>1, <1>2, <1>3, NextHeld, TypeCorrect, PTL DEF Spec
=============================================================================
