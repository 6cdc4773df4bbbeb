--------------------------- MODULE PgClientProofs ---------------------------
(* The pool stays whole for any number of clients and connections, used by *)
(* any clients and by those of PgClient; and what their calls promise.     *)
EXTENDS PgClient, FiniteSetTheorems, SequenceTheorems, TLAPS

PoolInv == PoolTypeOK /\ PoolConserved

LEMMA InitPoolInv == Init => PoolInv
<1> SUFFICES ASSUME Init PROVE PoolInv
  OBVIOUS
<1>1. free \in Seq(Conns)
  BY FS_CardinalityType, PoolAssumption DEF Init
<1> QED
  BY <1>1, PoolAssumption DEF Init, PoolInv, PoolTypeOK, PoolConserved, Idle

LEMMA BorrowFreeInv ==
  ASSUME NEW cl \in Clients, PoolInv, held[cl] = NoConn, BorrowFree(cl)
  PROVE  PoolInv'
<1> USE DEF PoolInv, PoolTypeOK, PoolConserved, BorrowFree
<1>1. PICK n \in Nat : n = Len(free) /\ n > 0 /\ DOMAIN free = 1..n
  OBVIOUS
<1>2. Head(free) = free[1] /\ Len(free') = n - 1
  BY <1>1
<1>3. \A i \in 1..(n - 1) : free'[i] = free[i + 1]
  BY <1>1
<1>4. DOMAIN free' = 1..(n - 1)
  BY <1>1, <1>2
<1>5. PoolTypeOK'
  BY <1>1, <1>2
<1>6. Idle = Idle' \cup {Head(free)}
  <2>1. Idle = {free[i] : i \in 1..n} /\ Idle' = {free'[i] : i \in 1..(n - 1)}
    BY <1>1, <1>4 DEF Idle
  <2>2. \A i \in 1..n : i = 1 \/ (i - 1 \in 1..(n - 1) /\ free'[i - 1] = free[i])
    BY <1>1, <1>3
  <2>3. \A i \in 1..(n - 1) : i + 1 \in 1..n /\ free'[i] = free[i + 1]
    BY <1>1, <1>3
  <2>4. 1 \in 1..n
    BY <1>1
  <2> HIDE DEF BorrowFree, PoolTypeOK, PoolConserved
  <2>5. ASSUME NEW c \in Idle PROVE c \in Idle' \cup {Head(free)}
    <3>1. PICK i \in 1..n : c = free[i]
      BY <2>1, <2>5
    <3> QED
      BY <3>1, <2>1, <2>2, <1>2
  <2>6. ASSUME NEW c \in Idle' PROVE c \in Idle
    <3>1. PICK i \in 1..(n - 1) : c = free'[i]
      BY <2>1, <2>6
    <3> QED
      BY <3>1, <2>1, <2>3
  <2> QED
    BY <2>1, <2>4, <2>5, <2>6, <1>2
<1>7. (Idle \cup borrowed = Conns)' /\ (Idle \cap borrowed = {})'
  <2>1. Head(free) \notin Idle'
    BY <1>1, <1>2, <1>3, <1>4 DEF Idle
  <2> QED
    BY <2>1, <1>6
<1>8. (\A i, j \in DOMAIN free : free[i] = free[j] => i = j)'
  BY <1>1, <1>3, <1>4
<1>9. (\A c \in Clients : held[c] # NoConn => held[c] \in borrowed)'
  OBVIOUS
<1>10. (\A c1, c2 \in Clients : held[c1] = held[c2] /\ held[c1] # NoConn => c1 = c2)'
  <2>1. Head(free) \in Idle /\ Head(free) \in Conns
    BY <1>1, <1>2 DEF Idle
  <2>2. \A c \in Clients : held[c] # Head(free)
    BY <2>1, PoolAssumption
  <2> QED
    BY <2>2
<1> QED
  BY <1>5, <1>7, <1>8, <1>9, <1>10

LEMMA BorrowAbandonedInv ==
  ASSUME NEW cl \in Clients, PoolInv, held[cl] = NoConn, BorrowAbandoned(cl)
  PROVE  PoolInv'
BY PoolAssumption
DEF PoolInv, PoolTypeOK, PoolConserved, Idle, BorrowAbandoned, Abandoned

LEMMA UnborrowInv ==
  ASSUME NEW cl \in Clients, PoolInv, Unborrow(cl)
  PROVE  PoolInv'
<1> USE DEF PoolInv, PoolTypeOK, PoolConserved, Unborrow
<1>1. PICK n \in Nat : n = Len(free) /\ DOMAIN free = 1..n
  OBVIOUS
<1>2. held[cl] \in borrowed /\ held[cl] \in Conns
  OBVIOUS
<1>3. DOMAIN free' = 1..(n + 1) /\ free'[n + 1] = held[cl]
  BY <1>1, <1>2
<1>4. \A i \in 1..n : free'[i] = free[i]
  BY <1>1, <1>2
<1>5. PoolTypeOK'
  BY <1>2
<1>6. Idle' = Idle \cup {held[cl]}
  <2>1. \A i \in 1..(n + 1) : i = n + 1 \/ i \in 1..n
    BY <1>1
  <2> QED
    BY <2>1, <1>1, <1>3, <1>4 DEF Idle
<1>7. (Idle \cup borrowed = Conns)' /\ (Idle \cap borrowed = {})'
  BY <1>2, <1>6
<1>8. (\A i, j \in DOMAIN free : free[i] = free[j] => i = j)'
  <2>1. held[cl] \notin Idle
    BY <1>2
  <2>2. \A i \in 1..n : free[i] # held[cl]
    BY <2>1, <1>1 DEF Idle
  <2> QED
    BY <2>2, <1>1, <1>3, <1>4
<1>9. (\A c \in Clients : held[c] # NoConn => held[c] \in borrowed)'
  OBVIOUS
<1>10. (\A c1, c2 \in Clients : held[c1] = held[c2] /\ held[c1] # NoConn => c1 = c2)'
  OBVIOUS
<1> QED
  BY <1>5, <1>7, <1>8, <1>9, <1>10

LEMMA AbandonInv ==
  ASSUME NEW cl \in Clients, PoolInv, Abandon(cl) \/ AbandonBroken(cl)
  PROVE  PoolInv'
BY DEF PoolInv, PoolTypeOK, PoolConserved, Idle, Abandon, AbandonBroken

LEMMA NextPoolInv == PoolInv /\ [Next]_poolVars => PoolInv'
<1> SUFFICES ASSUME PoolInv, [Next]_poolVars PROVE PoolInv'
  OBVIOUS
<1>1. ASSUME NEW cl \in Clients, Borrow(cl) PROVE PoolInv'
  BY <1>1, BorrowFreeInv, BorrowAbandonedInv DEF Borrow
<1>2. ASSUME NEW cl \in Clients, Unborrow(cl) PROVE PoolInv'
  BY <1>2, UnborrowInv
<1>3. ASSUME NEW cl \in Clients, Abandon(cl) \/ AbandonBroken(cl) PROVE PoolInv'
  BY <1>3, AbandonInv
<1>4. CASE BreakIdle
  BY <1>4 DEF BreakIdle, PoolInv, PoolTypeOK, PoolConserved, Idle
<1>5. CASE UNCHANGED poolVars
  BY <1>5 DEF poolVars, PoolInv, PoolTypeOK, PoolConserved, Idle
<1> QED
  BY <1>1, <1>2, <1>3, <1>4, <1>5 DEF Next

(* Connections are conserved and lent to one client at a time, whatever    *)
(* mixture of borrow, unborrow and early returns the clients perform.      *)
THEOREM PoolIsConserved == Spec => [](PoolTypeOK /\ PoolConserved)
<1>1. Spec => []PoolInv
  BY InitPoolInv, NextPoolInv, PTL DEF Spec
<1> QED
  BY <1>1, PTL DEF PoolInv

(* A dry pool with nothing to reclaim has every connection in a client's   *)
(* hands, so that there are at least as many such clients as connections.  *)
LEMMA InvImpliesCapacity ==
  ASSUME PoolInv, IsFiniteSet(Clients)
  PROVE  CapacityKept
<1> DEFINE Holders == {cl \in Clients : held[cl] # NoConn}
<1> SUFFICES ASSUME Exhausted
             PROVE  Cardinality(Conns) <= Cardinality(Holders)
  <2>1. Cardinality(Conns) \in Nat
    BY FS_CardinalityType, PoolAssumption
  <2>2. Cardinality(Holders) \in Nat
    BY FS_CardinalityType, FS_Subset
  <2> QED
    BY <2>1, <2>2 DEF CapacityKept
<1>1. borrowed = Conns
  BY DEF Exhausted, PoolInv, PoolConserved, Idle
<1>2. \A c \in Conns : \E cl \in Holders : held[cl] = c
  BY <1>1, PoolAssumption DEF Exhausted, Abandoned
<1> DEFINE f == [cl \in Holders |-> held[cl]]
<1>3. f \in Surjection(Holders, Conns)
  BY <1>2 DEF Surjection, PoolInv, PoolTypeOK
<1>4. IsFiniteSet(Holders)
  BY FS_Subset
<1> HIDE DEF f, Holders
<1> QED
  BY <1>3, <1>4, FS_Surjection

(* Early returns do not use the pool up.                                   *)
THEOREM CapacityIsKept ==
  ASSUME IsFiniteSet(Clients)
  PROVE  Spec => []CapacityKept
<1>1. Spec => []PoolInv
  BY InitPoolInv, NextPoolInv, PTL DEF Spec
<1>2. PoolInv => CapacityKept
  BY InvImpliesCapacity
<1> QED
  BY <1>1, <1>2, PTL
-----------------------------------------------------------------------------
(* The pool under the clients of PgClient, whose server may also drop a    *)
(* connection at work.                                                     *)

LEMMA ConnectPool ==
  ASSUME NEW cl \in Clients, PoolInv, Connect(cl) PROVE PoolInv'
<1>1. CASE UNCHANGED poolVars
  BY <1>1, NextPoolInv
<1>2. CASE Unborrow(cl)
  BY <1>2, UnborrowInv
<1> QED
  BY <1>1, <1>2 DEF Connect

LEMMA ClientPoolInv == PoolInv /\ [ClientNext]_vars => PoolInv'
<1> SUFFICES ASSUME PoolInv, [ClientNext]_vars PROVE PoolInv'
  OBVIOUS
<1>1. CASE UNCHANGED poolVars
  BY <1>1, NextPoolInv
<1>2. ASSUME NEW cl \in Clients, Borrow(cl) PROVE PoolInv'
  BY <1>2, BorrowFreeInv, BorrowAbandonedInv DEF Borrow
<1>3. ASSUME NEW cl \in Clients, Unborrow(cl) PROVE PoolInv'
  BY <1>3, UnborrowInv
<1>4. ASSUME NEW cl \in Clients, Abandon(cl) \/ AbandonBroken(cl) PROVE PoolInv'
  BY <1>4, AbandonInv
<1>5. ASSUME NEW cl \in Clients, Connect(cl) PROVE PoolInv'
  BY <1>5, ConnectPool
<1>6. CASE Break
  <2>1. UNCHANGED <<free, borrowed, held>> /\ dead' \in SUBSET Conns
    BY <1>6 DEF Break, PoolInv, PoolTypeOK
  <2> QED
    BY <2>1 DEF PoolInv, PoolTypeOK, PoolConserved, Idle
<1>7. ASSUME NEW cl \in Clients, Begin(cl) \/ EventStoreSave(cl) \/ getConnInfo(cl) PROVE PoolInv'
  BY <1>1, <1>2, <1>7 DEF Begin, EventStoreSave, getConnInfo
<1>8. ASSUME NEW cl \in Clients, Step(cl) PROVE PoolInv'
  <2>1. CASE BorrowConnection(cl)
    BY <1>1, <1>2, <2>1 DEF BorrowConnection
  <2>2. CASE Execute(cl) \/ ExecuteOnDead(cl)
    BY <1>3, <2>2 DEF Execute, ExecuteOnDead
  <2>3. CASE EventStoreReturns(cl)
    BY <1>3, <1>4, <2>3 DEF EventStoreReturns
  <2>4. CASE Open(cl) \/ uploadFile(cl) \/ download(cl) \/ deleteOid(cl)
    BY <1>5, <2>4 DEF Open, uploadFile, download, deleteOid
  <2>5. CASE Retry(cl) \/ Write(cl) \/ Commit(cl)
    BY <1>1, <2>5 DEF Retry, Write, Commit
  <2> QED
    BY <1>8, <2>1, <2>2, <2>3, <2>4, <2>5 DEF Step
<1>9. CASE UNCHANGED vars
  BY <1>1, <1>9 DEF vars
<1> QED
  BY <1>6, <1>7, <1>8, <1>9 DEF ClientNext

-----------------------------------------------------------------------------
(* The rest of a script.                                                   *)

LEMMA SuffixElements ==
  ASSUME NEW S, NEW r \in Seq(S), NEW t \in Seq(S)
  PROVE  IsSuffix(r, t) <=> /\ Len(r) <= Len(t)
                            /\ \A j \in 1..Len(r) : r[Len(r) - j + 1] = t[Len(t) - j + 1]
<1> DEFINE a == Reverse(r)
           b == Reverse(t)
<1>1. /\ a \in Seq(S) /\ Len(a) = Len(r)
      /\ \A j \in 1..Len(r) : a[j] = r[Len(r) - j + 1]
  BY DEF Reverse
<1>2. /\ b \in Seq(S) /\ Len(b) = Len(t)
      /\ \A j \in 1..Len(t) : b[j] = t[Len(t) - j + 1]
  BY DEF Reverse
<1> HIDE DEF a, b
<1>3. CASE ~(Len(r) <= Len(t))
  BY <1>1, <1>2, <1>3 DEF IsSuffix, IsPrefix, a, b
<1>4. CASE Len(r) <= Len(t)
  <2> DEFINE n == Len(r)
  <2>1. n \in Nat /\ n <= Len(a) /\ n <= Len(b)
    BY <1>1, <1>2, <1>4
  <2>2. SubSeq(a, 1, n) = [j \in 1..n |-> a[j]]
    BY <1>1, <2>1
  <2>3. SubSeq(b, 1, n) = [j \in 1..n |-> b[j]]
    BY <1>2, <2>1
  <2>4. IsSuffix(r, t) <=> SubSeq(a, 1, n) = SubSeq(b, 1, n)
    BY <1>1, <1>2, <1>4 DEF IsSuffix, IsPrefix, a, b
  <2>5. IsSuffix(r, t) <=> \A j \in 1..n : a[j] = b[j]
    BY <2>2, <2>3, <2>4
  <2>6. \A j \in 1..n : a[j] = r[Len(r) - j + 1] /\ b[j] = t[Len(t) - j + 1]
    BY <1>1, <1>2, <1>4
  <2> QED
    BY <1>4, <2>5, <2>6
<1> QED
  BY <1>3, <1>4

(* Whole, or after one more statement, it is still the rest of the script. *)
LEMMA SuffixWhole ==
  ASSUME NEW S, NEW t \in Seq(S) PROVE IsSuffix(t, t) /\ IsSuffix(<< >>, t)
<1>1. IsSuffix(t, t)
  <2>1. Len(t) <= Len(t)
    OBVIOUS
  <2> QED
    BY <2>1, SuffixElements
<1>2. IsSuffix(<< >>, t)
  <2>1. PICK e : e = << >>
    OBVIOUS
  <2>2. e \in Seq(S) /\ Len(e) = 0
    BY <2>1
  <2>3. Len(e) <= Len(t) /\ \A j \in 1..Len(e) : e[Len(e) - j + 1] = t[Len(t) - j + 1]
    BY <2>2
  <2> QED
    BY <2>1, <2>2, <2>3, SuffixElements
<1> QED
  BY <1>1, <1>2

LEMMA SuffixTail ==
  ASSUME NEW S, NEW r \in Seq(S), NEW t \in Seq(S), r # << >>, IsSuffix(r, t)
  PROVE  Tail(r) \in Seq(S) /\ IsSuffix(Tail(r), t) /\ Head(r) = r[1] /\ r[1] \in S
<1>1. /\ Tail(r) \in Seq(S) /\ Len(Tail(r)) = Len(r) - 1 /\ Len(r) \in Nat /\ Len(r) > 0
      /\ \A j \in 1..(Len(r) - 1) : Tail(r)[j] = r[j + 1]
  OBVIOUS
<1>2. Len(r) <= Len(t) /\ \A j \in 1..Len(r) : r[Len(r) - j + 1] = t[Len(t) - j + 1]
  BY SuffixElements
<1>3. ASSUME NEW j \in 1..(Len(r) - 1)
      PROVE  Tail(r)[Len(Tail(r)) - j + 1] = t[Len(t) - j + 1]
  <2>1. Len(Tail(r)) - j + 1 \in 1..(Len(r) - 1) /\ Len(Tail(r)) - j + 1 = Len(r) - j
    BY <1>1
  <2>2. Tail(r)[Len(Tail(r)) - j + 1] = r[Len(r) - j + 1]
    BY <1>1, <2>1
  <2>3. j \in 1..Len(r)
    BY <1>1
  <2> QED
    BY <1>2, <2>2, <2>3
<1>4. Len(Tail(r)) <= Len(t)
  BY <1>1, <1>2
<1>5. IsSuffix(Tail(r), t)
  BY <1>1, <1>3, <1>4, SuffixElements
<1> QED
  BY <1>1, <1>5

(* What the statements of a script are: sequences of their own, and about  *)
(* what the database has.                                                  *)
LEMMA ScriptSequence ==
  ASSUME NEW s \in Scripts
  PROVE  s \in Seq(ToSet(s)) /\ \A e \in ToSet(s) : Proper(e)
<1> USE DEF Statement, ToSet, Proper, Puts
<1>1. CASE s = createStore
  BY <1>1 DEF createStore
<1>2. ASSUME NEW ids \in Maps, s = createStreamId(ids)
      PROVE  s \in Seq(ToSet(s)) /\ \A e \in ToSet(s) : Proper(e)
  <2>1. PICK n \in 1..MaxIds : ids \in [1..n -> Streams]
    BY DEF Maps
  <2>2. s = [i \in 1..n |-> [op |-> "stream", on |-> ids[i]]] /\ n \in Nat
    BY <1>2, <2>1, ClientAssumption DEF createStreamId
  <2>3. s \in Seq(ToSet(s))
    BY <2>2
  <2>4. \A e \in ToSet(s) : e.op = "stream" /\ e.on \in Streams
    BY <2>1, <2>2
  <2> QED
    BY <2>3, <2>4
<1>3. CASE s = list
  BY <1>3 DEF list
<1>4. ASSUME NEW d \in Docs, s = save(d) \/ s = insertOne(d) \/ s = own(d)
      PROVE  s \in Seq(ToSet(s)) /\ \A e \in ToSet(s) : Proper(e)
  BY <1>4 DEF save, insertOne, own
<1> QED
  BY <1>1, <1>2, <1>3, <1>4 DEF Scripts

-----------------------------------------------------------------------------
(* The conjuncts of IInv, one lemma for each part of the state.            *)

USE ClientAssumption

PCs == {"idle", "save", "execute", "append", "conninfo", "upload"}
PcTyped == pc \in [Clients -> PCs]
Bounded == calls \in 0..MaxCalls /\ faults \in 0..MaxFaults
Rows == tables \subseteq {"table", "indexes"} /\ docs \subseteq Docs
Uploads == upload \in [Clients -> Failed..Buffers] /\ objects \subseteq 0..Buffers

LEMMA PcStep == ASSUME PcTyped, [ClientNext]_vars PROVE PcTyped'
<1> USE DEF PcTyped, PCs
<1>1. ASSUME NEW cl \in Clients, NEW to \in PCs, pc' = [pc EXCEPT ![cl] = to] PROVE PcTyped'
  BY <1>1
<1>2. ASSUME NEW cl \in Clients, NEW o, Answer(cl, o) PROVE PcTyped'
  BY <1>1, <1>2 DEF Answer, Continue, Proceed
<1>3. ASSUME NEW cl \in Clients, Begin(cl) \/ EventStoreSave(cl) \/ getConnInfo(cl) PROVE PcTyped'
  BY <1>1, <1>3 DEF Begin, EventStoreSave, getConnInfo, Call
<1>4. ASSUME NEW cl \in Clients, Step(cl) PROVE PcTyped'
  <2>1. CASE BorrowConnection(cl) \/ Execute(cl) \/ ExecuteOnDead(cl)
    BY <1>1, <1>2, <2>1 DEF BorrowConnection, Execute, ExecuteOnDead
  <2>2. CASE Retry(cl) \/ EventStoreReturns(cl) \/ Open(cl) \/ Write(cl) \/ Commit(cl)
    BY <1>1, <2>2 DEF Retry, EventStoreReturns, Open, Write, Commit
  <2>3. CASE uploadFile(cl) \/ download(cl) \/ deleteOid(cl)
    BY <1>1, <2>3 DEF uploadFile, download, deleteOid
  <2> QED
    BY <1>4, <2>1, <2>2, <2>3 DEF Step
<1>5. CASE UNCHANGED pc
  BY <1>5
<1> QED
  BY <1>3, <1>4, <1>5 DEF ClientNext, Break, vars

LEMMA BoundedStep == ASSUME Bounded, [ClientNext]_vars PROVE Bounded' /\ calls' >= calls
<1>1. calls' = calls \/ (calls < MaxCalls /\ calls' = calls + 1)
  BY DEF ClientNext, Break, vars, Begin, EventStoreSave, getConnInfo, Call, Step, Retry,
         BorrowConnection, Execute, ExecuteOnDead, EventStoreReturns, Open, Write, Commit,
         uploadFile, download, deleteOid
<1>2. faults' = faults \/ (faults < MaxFaults /\ faults' = faults + 1)
  BY DEF ClientNext, Break, Fault, vars, Begin, EventStoreSave, getConnInfo, Step, Retry,
         BorrowConnection, Execute, ExecuteOnDead, EventStoreReturns, Open, Write, Commit,
         uploadFile, download, deleteOid
<1> QED
  BY <1>1, <1>2 DEF Bounded

LEMMA UploadsStep == ASSUME Uploads, [ClientNext]_vars PROVE Uploads'
<1> USE DEF Uploads, Failed
<1>1. ASSUME NEW cl \in Clients, Open(cl) PROVE Uploads'
  BY <1>1 DEF Open
<1>2. ASSUME NEW cl \in Clients, Write(cl) PROVE Uploads'
  BY <1>2 DEF Write, More
<1>3. ASSUME NEW cl \in Clients, Commit(cl) PROVE Uploads'
  <2>1. upload' \in [Clients -> Failed..Buffers]
    <3>1. upload' = [upload EXCEPT ![cl] = 0] /\ 0 \in Failed..Buffers
      BY <1>3 DEF Commit
    <3> QED
      BY <3>1
  <2>2. objects' = objects \/ (upload[cl] \in 0..Buffers /\ objects' = objects \cup {upload[cl]})
    BY <1>3 DEF Commit
  <2> QED
    BY <2>1, <2>2
<1>4. ASSUME NEW cl \in Clients, uploadFile(cl) \/ deleteOid(cl) PROVE Uploads'
  <2>1. upload' = upload
    BY <1>4 DEF uploadFile, deleteOid
  <2>2. objects' \subseteq objects \cup {Buffers}
    BY <1>4 DEF uploadFile, deleteOid
  <2>3. Buffers \in 0..Buffers
    OBVIOUS
  <2> QED
    BY <2>1, <2>2, <2>3
<1>5. CASE UNCHANGED loVars
  BY <1>5 DEF loVars
<1> QED
  BY <1>1, <1>2, <1>3, <1>4, <1>5
     DEF ClientNext, Break, vars, Begin, EventStoreSave, getConnInfo, Step, Retry,
         BorrowConnection, Execute, ExecuteOnDead, EventStoreReturns, download

-----------------------------------------------------------------------------
(* Scripts.                                                                *)

Rest(r) == \E s \in Scripts : r \in Seq(ToSet(s)) /\ IsSuffix(r, s)

LEMMA RestTail ==
  ASSUME NEW r, r # << >>, Rest(r)
  PROVE  /\ Rest(Tail(r)) /\ Head(r) = r[1]
         /\ Len(r) = 1 <=> Tail(r) = << >>
         /\ Proper(r[1])
<1>1. PICK s \in Scripts : r \in Seq(ToSet(s)) /\ IsSuffix(r, s)
  BY DEF Rest
<1>2. s \in Seq(ToSet(s)) /\ \A e \in ToSet(s) : Proper(e)
  BY ScriptSequence
<1>3. /\ Tail(r) \in Seq(ToSet(s)) /\ IsSuffix(Tail(r), s)
      /\ Head(r) = r[1] /\ r[1] \in ToSet(s)
  BY <1>1, <1>2, SuffixTail
<1>4. Len(r) = 1 <=> Tail(r) = << >>
  <2>1. PICK t : t = Tail(r)
    OBVIOUS
  <2>2. t \in Seq(ToSet(s)) /\ Len(t) = Len(r) - 1 /\ Len(r) \in Nat
    BY <1>1, <2>1
  <2>3. ASSUME NEW S, NEW u \in Seq(S) PROVE u = << >> <=> Len(u) = 0
    OBVIOUS
  <2>4. t = << >> <=> Len(t) = 0
    BY <2>2, <2>3
  <2> QED
    BY <2>1, <2>2, <2>4
<1> QED
  BY <1>2, <1>3, <1>4 DEF Rest

LEMMA ScriptNotEmpty == ASSUME NEW s \in Scripts PROVE s # << >>
<1>1. CASE s = createStore
  BY <1>1 DEF createStore
<1>2. ASSUME NEW ids \in Maps, s = createStreamId(ids) PROVE s # << >>
  <2>1. PICK n \in 1..MaxIds : ids \in [1..n -> Streams]
    BY DEF Maps
  <2>2. DOMAIN s = 1..n /\ 1 \in 1..n
    BY <1>2, <2>1 DEF createStreamId
  <2> QED
    BY <2>2
<1>3. CASE s = list
  BY <1>3 DEF list
<1>4. ASSUME NEW d \in Docs, s = save(d) \/ s = insertOne(d) \/ s = own(d) PROVE s # << >>
  BY <1>4 DEF save, insertOne, own
<1> QED
  BY <1>1, <1>2, <1>3, <1>4 DEF Scripts

LEMMA RestWhole == ASSUME NEW s \in Scripts PROVE Rest(s)
BY ScriptSequence, SuffixWhole DEF Rest

LEMMA ScriptedParts ==
  Scripted <=> /\ DOMAIN script = Clients
               /\ \A cl \in Clients : Rest(script[cl])
               /\ \A cl \in Clients : pc[cl] \in {"save", "execute"} => script[cl] # << >>
BY DEF Scripted, Rest

LEMMA ScriptedStep == ASSUME PcTyped, Scripted, [ClientNext]_vars PROVE Scripted'
<1>0. /\ DOMAIN script = Clients
      /\ \A cl \in Clients : Rest(script[cl])
      /\ \A cl \in Clients : pc[cl] \in {"save", "execute"} => script[cl] # << >>
  BY ScriptedParts
<1> DEFINE Goal == /\ DOMAIN script' = Clients
                   /\ \A cl \in Clients : Rest(script'[cl])
                   /\ \A cl \in Clients : pc'[cl] \in {"save", "execute"} => script'[cl] # << >>
<1>1. ASSUME NEW cl \in Clients, NEW to, pc' = [pc EXCEPT ![cl] = to], UNCHANGED script,
             to \in {"save", "execute"} => script[cl] # << >>
      PROVE  Goal
  BY <1>0, <1>1 DEF PcTyped
<1>2. ASSUME NEW cl \in Clients, pc[cl] \in {"save", "execute"}, Proceed(cl)
      PROVE  Goal
  <2>1. PICK r : r = script[cl] /\ r # << >> /\ Rest(r)
    BY <1>0, <1>2
  <2>2. script' = [script EXCEPT ![cl] = Tail(r)]
    BY <1>2, <2>1 DEF Proceed
  <2>3. Rest(Tail(r)) /\ (Tail(r) = << >> => Len(r) = 1)
    BY <2>1, RestTail
  <2>4. pc' = [pc EXCEPT ![cl] = IF Len(r) = 1 THEN "idle" ELSE "save"]
    BY <1>2, <2>1 DEF Proceed
  <2>5. pc'[cl] \in {"save", "execute"} => Tail(r) # << >>
    BY <2>3, <2>4 DEF PcTyped
  <2> QED
    BY <1>0, <2>2, <2>3, <2>4, <2>5 DEF PcTyped
<1>3. ASSUME NEW cl \in Clients, Begin(cl) PROVE Goal
  <2>1. PICK s \in Scripts : script' = [script EXCEPT ![cl] = s]
    BY <1>3 DEF Begin
  <2>2. pc' = [pc EXCEPT ![cl] = "save"]
    BY <1>3 DEF Begin, Call
  <2>3. Rest(s) /\ s # << >>
    BY RestWhole, ScriptNotEmpty
  <2> QED
    BY <1>0, <2>1, <2>2, <2>3 DEF PcTyped
<1>4. ASSUME NEW cl \in Clients, pc[cl] \in {"save", "execute"}, NEW o, Answer(cl, o) PROVE Goal
  BY <1>1, <1>2, <1>4 DEF Answer, Continue
<1>5. ASSUME NEW cl \in Clients, EventStoreSave(cl) \/ getConnInfo(cl) PROVE Goal
  BY <1>1, <1>5 DEF EventStoreSave, getConnInfo, Call
<1>6. ASSUME NEW cl \in Clients, Step(cl) PROVE Goal
  <2>1. CASE BorrowConnection(cl)
    BY <1>0, <1>1, <1>4, <2>1 DEF BorrowConnection
  <2>2. CASE Execute(cl) \/ ExecuteOnDead(cl)
    BY <1>4, <2>2 DEF Execute, ExecuteOnDead
  <2>3. CASE Retry(cl) \/ EventStoreReturns(cl) \/ Open(cl) \/ Commit(cl)
    BY <1>1, <2>3 DEF Retry, EventStoreReturns, Open, Commit
  <2>4. CASE uploadFile(cl) \/ download(cl) \/ deleteOid(cl)
    BY <1>1, <2>4 DEF uploadFile, download, deleteOid
  <2>5. CASE Write(cl)
    BY <1>0, <2>5 DEF Write
  <2> QED
    BY <1>6, <2>1, <2>2, <2>3, <2>4, <2>5 DEF Step
<1>7. ASSUME UNCHANGED <<pc, script>> PROVE Goal
  BY <1>0, <1>7
<1> HIDE DEF Goal
<1>8. Goal
  BY <1>3, <1>5, <1>6, <1>7 DEF ClientNext, Break, vars
<1> QED
  BY <1>8 DEF Goal, Scripted, Rest

-----------------------------------------------------------------------------
(* The tables.                                                             *)

(* A statement is executed at work, also when its answer is lost; the only *)
(* other writer is an event store.                                         *)
LEMMA Writers ==
  [ClientNext]_vars => \/ UNCHANGED dbVars
                       \/ \E cl \in Clients : pc[cl] = "execute" /\ Apply(Head(script[cl]))
                       \/ \E cl \in Clients : EventStoreReturns(cl)
<1> SUFFICES ASSUME [ClientNext]_vars
             PROVE  \/ UNCHANGED dbVars
                    \/ \E cl \in Clients : pc[cl] = "execute" /\ Apply(Head(script[cl]))
                    \/ \E cl \in Clients : EventStoreReturns(cl)
  OBVIOUS
<1>1. ASSUME NEW cl \in Clients, Execute(cl)
      PROVE  UNCHANGED dbVars \/ (pc[cl] = "execute" /\ Apply(Head(script[cl])))
  BY <1>1 DEF Execute
<1>2. CASE Break
  BY <1>2 DEF Break
<1>3. ASSUME NEW cl \in Clients, Begin(cl) \/ EventStoreSave(cl) \/ getConnInfo(cl)
      PROVE  UNCHANGED dbVars
  BY <1>3 DEF Begin, EventStoreSave, getConnInfo
<1>4. ASSUME NEW cl \in Clients,
             \/ Retry(cl) \/ BorrowConnection(cl) \/ ExecuteOnDead(cl) \/ Open(cl) \/ Write(cl)
             \/ Commit(cl) \/ uploadFile(cl) \/ download(cl) \/ deleteOid(cl)
      PROVE  UNCHANGED dbVars
  BY <1>4 DEF Retry, BorrowConnection, ExecuteOnDead, Open, Write, Commit, uploadFile, download,
              deleteOid
<1>5. CASE UNCHANGED vars
  BY <1>5 DEF vars
<1> QED
  BY <1>1, <1>2, <1>3, <1>4, <1>5 DEF ClientNext, Step

LEMMA RowsStep == ASSUME Rows, Scripted, [ClientNext]_vars PROVE Rows'
<1>1. CASE UNCHANGED dbVars
  BY <1>1 DEF Rows, dbVars
<1>2. ASSUME NEW cl \in Clients, pc[cl] = "execute", Apply(Head(script[cl])) PROVE Rows'
  <2>1. PICK e : e = Head(script[cl]) /\ Proper(e)
    BY <1>2, ScriptedParts, RestTail
  <2>2. Apply(e)
    BY <1>2, <2>1
  <2>3. tables' = tables \/ (e.op \in {"table", "indexes"} /\ tables' = tables \cup {e.op})
    BY <2>2 DEF Apply
  <2>4. docs' = docs \/ (Puts(e) /\ docs' = docs \cup {e.on})
    BY <2>2 DEF Apply
  <2> QED
    BY <2>1, <2>3, <2>4 DEF Rows, Proper
<1>3. ASSUME NEW cl \in Clients, EventStoreReturns(cl) PROVE Rows'
  BY <1>3 DEF EventStoreReturns, Rows
<1> QED
  BY <1>1, <1>2, <1>3, Writers

-----------------------------------------------------------------------------
(* Versions and the appends that make them.                                *)

Versions == versions \in [Streams -> Int] /\ \A st \in Streams : versions[st] >= NoRow

(* A statement gives a version to a stream that has none.                  *)
LEMMA ApplyVersions ==
  ASSUME Versions, NEW e, Apply(e)
  PROVE  /\ Versions'
         /\ \A st \in Streams : \/ versions'[st] = versions[st]
                                \/ versions[st] = NoRow /\ versions'[st] = 0
<1>1. CASE versions' = versions
  BY <1>1 DEF Versions
<1>2. CASE versions' = [versions EXCEPT ![e.on] = NewVersion(e.on)]
  <2>1. ASSUME NEW st \in Streams
        PROVE  /\ versions'[st] \in Int /\ versions'[st] >= NoRow
               /\ versions'[st] = versions[st] \/ (versions[st] = NoRow /\ versions'[st] = 0)
    <3>1. CASE st = e.on
      <4>1. versions'[st] = NewVersion(st)
        BY <1>2, <3>1 DEF Versions
      <4>2. CASE versions[st] = NoRow
        BY <4>1, <4>2 DEF NewVersion, NoRow
      <4>3. CASE versions[st] # NoRow
        BY <4>1, <4>3 DEF Versions, NewVersion
      <4> QED
        BY <4>2, <4>3
    <3>2. CASE st # e.on
      BY <1>2, <3>2 DEF Versions
    <3> QED
      BY <3>1, <3>2
  <2>2. versions' = [st \in Streams |-> versions'[st]]
    BY <1>2 DEF Versions
  <2> QED
    BY <2>1, <2>2 DEF Versions
<1> QED
  BY <1>1, <1>2 DEF Apply

(* Who is appending: a client that enters Save is a call more, one that    *)
(* returns an append less, and nobody else enters or leaves.               *)
LEMMA AppendersStep ==
  ASSUME PcTyped, [ClientNext]_vars
  PROVE  \/ \E cl \in Clients : EventStoreReturns(cl)
         \/ Appending' = Appending
         \/ \E cl \in Clients : /\ cl \notin Appending /\ Appending' = Appending \cup {cl}
                                /\ calls' = calls + 1
<1> DEFINE Goal == \/ \E cl \in Clients : EventStoreReturns(cl)
                   \/ Appending' = Appending
                   \/ \E cl \in Clients : /\ cl \notin Appending
                                          /\ Appending' = Appending \cup {cl}
                                          /\ calls' = calls + 1
<1>1. ASSUME NEW cl \in Clients, NEW to, pc' = [pc EXCEPT ![cl] = to],
             to # "append", pc[cl] # "append"
      PROVE  Goal
  BY <1>1 DEF PcTyped, Appending
<1>2. ASSUME NEW cl \in Clients, EventStoreSave(cl) PROVE Goal
  <2>1. cl \notin Appending /\ calls' = calls + 1
    BY <1>2 DEF EventStoreSave, Call, Appending
  <2>2. pc' = [pc EXCEPT ![cl] = "append"]
    BY <1>2 DEF EventStoreSave, Call
  <2>3. Appending' = Appending \cup {cl}
    BY <2>2 DEF PcTyped, Appending
  <2> QED
    BY <2>1, <2>3
<1>3. ASSUME NEW cl \in Clients, Begin(cl) \/ getConnInfo(cl) PROVE Goal
  BY <1>1, <1>3 DEF Begin, getConnInfo, Call
<1>4. ASSUME UNCHANGED pc PROVE Goal
  BY <1>4 DEF Appending
<1>5. ASSUME NEW cl \in Clients, NEW o, Answer(cl, o), pc[cl] # "append" PROVE Goal
  BY <1>1, <1>5 DEF Answer, Continue, Proceed
<1>6. ASSUME NEW cl \in Clients, Step(cl) PROVE Goal
  <2>1. CASE EventStoreReturns(cl)
    BY <2>1
  <2>2. CASE BorrowConnection(cl)
    BY <1>1, <1>5, <2>2 DEF BorrowConnection
  <2>3. CASE Execute(cl) \/ ExecuteOnDead(cl)
    BY <1>5, <2>3 DEF Execute, ExecuteOnDead
  <2>4. CASE Retry(cl) \/ Open(cl) \/ Commit(cl)
    BY <1>1, <2>4 DEF Retry, Open, Commit, Connect
  <2>5. CASE uploadFile(cl) \/ download(cl) \/ deleteOid(cl)
    BY <1>1, <2>5 DEF uploadFile, download, deleteOid, Connect
  <2>6. CASE Write(cl)
    BY <1>4, <2>6 DEF Write
  <2> HIDE DEF Goal
  <2> QED
    BY <1>6, <2>1, <2>2, <2>3, <2>4, <2>5, <2>6 DEF Step
<1> HIDE DEF Goal
<1>7. Goal
  BY <1>2, <1>3, <1>4, <1>6 DEF ClientNext, Break, vars
<1> QED
  BY <1>7 DEF Goal

(* An append makes a stream that is not there.                             *)
LEMMA AppendedVersions ==
  ASSUME Versions, Appended
  PROVE  /\ Versions'
         /\ \A st \in Streams : /\ versions'[st] >= versions[st]
                                /\ versions'[st] <= versions[st] + 1 \/ versions'[st] = 1
<1>1. PICK st \in Streams : versions' = [versions EXCEPT ![st] = NewVersion(st) + 1]
  BY DEF Appended
<1>2. PICK v \in Int : /\ v = NewVersion(st) + 1 /\ v >= versions[st] /\ v >= NoRow
                       /\ v = versions[st] + 1 \/ v = 1
  BY DEF NewVersion, Versions, NoRow
<1>3. versions' = [versions EXCEPT ![st] = v]
  BY <1>1, <1>2
<1>4. versions' \in [Streams -> Int]
  BY <1>2, <1>3 DEF Versions
<1>5. \A t \in Streams : versions'[t] = IF t = st THEN v ELSE versions[t]
  BY <1>3 DEF Versions
<1> QED
  BY <1>2, <1>4, <1>5 DEF Versions

LEMMA LeaksStep ==
  ASSUME leaks \in Nat, [ClientNext]_vars
  PROVE  \/ leaks' = leaks
         \/ /\ leaks' = leaks + 1
            /\ \E cl \in Clients : EventStoreReturns(cl) /\ (Abandon(cl) \/ AbandonBroken(cl))
<1> DEFINE Leaves(cl) == EventStoreReturns(cl) /\ (Abandon(cl) \/ AbandonBroken(cl))
           Goal == leaks' = leaks \/ (leaks' = leaks + 1 /\ \E cl \in Clients : Leaves(cl))
<1>1. ASSUME NEW cl \in Clients, EventStoreReturns(cl) PROVE Goal
  <2>1. leaks' = leaks \/ (leaks' = leaks + 1 /\ (Abandon(cl) \/ AbandonBroken(cl)))
    BY <1>1 DEF EventStoreReturns
  <2> QED
    BY <1>1, <2>1
<1>2. ASSUME NEW cl \in Clients,
             \/ Retry(cl) \/ BorrowConnection(cl) \/ Execute(cl) \/ ExecuteOnDead(cl) \/ Open(cl)
             \/ Write(cl) \/ Commit(cl) \/ uploadFile(cl) \/ download(cl) \/ deleteOid(cl)
             \/ Begin(cl) \/ EventStoreSave(cl) \/ getConnInfo(cl)
      PROVE  leaks' = leaks
  BY <1>2 DEF Retry, BorrowConnection, Execute, ExecuteOnDead, Open, Write, Commit, uploadFile,
              download, deleteOid, Begin, EventStoreSave, getConnInfo
<1>3. CASE Break \/ UNCHANGED vars
  BY <1>3 DEF Break, vars
<1>4. leaks' = leaks => Goal
  OBVIOUS
<1> HIDE DEF Goal
<1>5. Goal
  BY <1>1, <1>2, <1>3, <1>4 DEF ClientNext, Step
<1> QED
  BY <1>5 DEF Goal

LEMMA VersionsStep ==
  ASSUME IsFiniteSet(Clients), PcTyped, Bounded, Versions, leaks \in Nat, AppendsCounted,
         [ClientNext]_vars
  PROVE  Versions' /\ leaks' \in Nat /\ AppendsCounted'
<1>0. calls \in Nat /\ calls' \in Nat /\ calls' >= calls
  BY BoundedStep DEF Bounded
<1>1. PICK a \in Nat : a = Cardinality(Appending)
  BY FS_Subset, FS_CardinalityType DEF Appending
<1>2. /\ IsFiniteSet(Appending) /\ a <= calls /\ leaks + a <= calls
      /\ \A st \in Streams : versions[st] + a <= calls
  BY <1>1, FS_Subset DEF AppendsCounted, Appending, Versions
<1>3. ASSUME Versions', NEW b \in Nat, b = Cardinality(Appending'), b <= calls', leaks' + b <= calls',
             \A st \in Streams : versions'[st] + b <= calls'
      PROVE  AppendsCounted'
  BY <1>3 DEF AppendsCounted, Versions
<1>4. ASSUME NEW cl \in Clients, EventStoreReturns(cl)
      PROVE  Versions' /\ leaks' \in Nat /\ AppendsCounted'
  <2>1. cl \in Appending /\ Appending' = Appending \ {cl} /\ calls' = calls
    BY <1>4 DEF PcTyped, Appending, EventStoreReturns
  <2>2. PICK b : b = Cardinality(Appending') /\ b = a - 1 /\ b \in Nat
    <3>1. Cardinality(Appending \ {cl}) = Cardinality(Appending) - 1
      BY <1>2, <2>1, FS_RemoveElement
    <3>2. Cardinality(Appending \ {cl}) \in Nat
      BY <1>2, <2>1, FS_RemoveElement, FS_CardinalityType
    <3> QED
      BY <1>1, <2>1, <3>1, <3>2
  <2>3. versions' = versions \/ Appended
    BY <1>4 DEF EventStoreReturns
  <2>4. Versions' /\ \A st \in Streams : versions'[st] <= versions[st] + 1 \/ versions'[st] = 1
    <3>1. CASE versions' = versions
      BY <3>1 DEF Versions
    <3> QED
      BY <2>3, <3>1, AppendedVersions
  <2>5. \A st \in Streams : versions'[st] + b <= calls'
    BY <1>0, <1>1, <1>2, <2>1, <2>2, <2>4 DEF Versions
  <2>6. leaks' \in Nat /\ leaks' <= leaks + 1
    BY LeaksStep
  <2>7. b <= calls' /\ leaks' + b <= calls'
    BY <1>0, <1>1, <1>2, <2>1, <2>2, <2>6
  <2> QED
    BY <1>3, <2>2, <2>4, <2>5, <2>6, <2>7
<1>5. ASSUME ~(\E cl \in Clients : EventStoreReturns(cl))
      PROVE  Versions' /\ leaks' \in Nat /\ AppendsCounted'
  <2>1. /\ Versions'
        /\ \A st \in Streams : versions'[st] = versions[st] \/ versions'[st] = 0
    <3>1. CASE UNCHANGED dbVars
      BY <3>1 DEF Versions, dbVars
    <3>2. ASSUME NEW cl \in Clients, Apply(Head(script[cl]))
          PROVE  /\ Versions'
                 /\ \A st \in Streams : versions'[st] = versions[st] \/ versions'[st] = 0
      BY <3>2, ApplyVersions
    <3> QED
      BY <1>5, <3>1, <3>2, Writers
  <2>2. PICK b \in Nat : /\ b = Cardinality(Appending')
                         /\ b = a \/ (b = a + 1 /\ calls' = calls + 1)
    <3>1. CASE Appending' = Appending
      BY <1>1, <3>1
    <3>2. ASSUME NEW cl \in Clients, cl \notin Appending, Appending' = Appending \cup {cl},
                 calls' = calls + 1
          PROVE  Cardinality(Appending') = a + 1
      BY <1>1, <1>2, <3>2, FS_AddElement
    <3> QED
      BY <1>1, <1>5, <3>1, <3>2, AppendersStep
  <2>3. b <= calls' /\ \A st \in Streams : versions'[st] + b <= calls'
    BY <1>0, <1>1, <1>2, <2>1, <2>2 DEF Versions
  <2>4. leaks' = leaks
    BY <1>5, LeaksStep
  <2>5. leaks' + b <= calls'
    BY <1>0, <1>1, <1>2, <2>2, <2>4
  <2> QED
    BY <1>3, <2>1, <2>2, <2>3, <2>4, <2>5
<1> QED
  BY <1>4, <1>5

(* What is in the database stays there, and no version falls.              *)
LEMMA GrowStep ==
  ASSUME Versions, [ClientNext]_vars
  PROVE  /\ tables \subseteq tables' /\ docs \subseteq docs'
         /\ \A st \in Streams : versions'[st] >= versions[st]
<1>1. CASE UNCHANGED dbVars
  BY <1>1 DEF dbVars, Versions
<1>2. ASSUME NEW e, Apply(e)
      PROVE  /\ tables \subseteq tables' /\ docs \subseteq docs'
             /\ \A st \in Streams : versions'[st] >= versions[st]
  <2>1. tables \subseteq tables' /\ docs \subseteq docs'
    BY <1>2 DEF Apply
  <2>2. \A st \in Streams : versions'[st] >= versions[st]
    BY <1>2, ApplyVersions DEF Versions, NoRow
  <2> QED
    BY <2>1, <2>2
<1>3. ASSUME NEW cl \in Clients, EventStoreReturns(cl)
      PROVE  /\ tables \subseteq tables' /\ docs \subseteq docs'
             /\ \A st \in Streams : versions'[st] >= versions[st]
  <2>1. tables' = tables /\ docs' = docs /\ (versions' = versions \/ Appended)
    BY <1>3 DEF EventStoreReturns
  <2>2. CASE versions' = versions
    BY <2>1, <2>2 DEF Versions
  <2>3. CASE Appended
    BY <2>1, <2>3, AppendedVersions
  <2> QED
    BY <2>1, <2>2, <2>3
<1> QED
  BY <1>1, <1>2, <1>3, Writers

-----------------------------------------------------------------------------
(* Who has a connection, and which ones have been left behind.             *)

HeldAtWork == \A cl \in Clients : held[cl] # NoConn <=> cl \in AtWork
LeaksPaid == Cardinality(Abandoned) <= leaks

(* What the pool's operations do to a client's shared_ptr.                 *)
LEMMA Holds ==
  ASSUME PoolInv, NEW cl \in Clients
  PROVE  /\ Borrow(cl) => held'[cl] # NoConn /\ \A c \in Clients \ {cl} : held'[c] = held[c]
         /\ Unborrow(cl) \/ Abandon(cl) \/ AbandonBroken(cl)
              => held'[cl] = NoConn /\ \A c \in Clients \ {cl} : held'[c] = held[c]
<1> USE DEF PoolInv, PoolTypeOK
<1>1. ASSUME BorrowFree(cl)
      PROVE  held'[cl] # NoConn /\ \A c \in Clients \ {cl} : held'[c] = held[c]
  <2>1. Head(free) \in Conns
    BY <1>1 DEF BorrowFree
  <2> QED
    BY <1>1, <2>1, PoolAssumption DEF BorrowFree
<1>2. ASSUME BorrowAbandoned(cl)
      PROVE  held'[cl] # NoConn /\ \A c \in Clients \ {cl} : held'[c] = held[c]
  <2>1. Abandoned \subseteq Conns
    BY DEF Abandoned
  <2> QED
    BY <1>2, <2>1, PoolAssumption DEF BorrowAbandoned
<1>3. Unborrow(cl) \/ Abandon(cl) \/ AbandonBroken(cl)
        => held'[cl] = NoConn /\ \A c \in Clients \ {cl} : held'[c] = held[c]
  BY DEF Unborrow, Abandon, AbandonBroken
<1> QED
  BY <1>1, <1>2, <1>3 DEF Borrow

LEMMA HeldStep ==
  ASSUME PoolInv, PcTyped, HeldAtWork, [ClientNext]_vars PROVE HeldAtWork'
<1> DEFINE Work(c) == pc[c] \in {"execute", "append"} \/ (pc[c] = "conninfo" /\ held[c] # NoConn)
<1>0. /\ \A c \in Clients : c \in AtWork <=> Work(c)
      /\ \A c \in Clients : c \in AtWork' <=> Work(c)'
  BY DEF AtWork
<1>1. ASSUME NEW cl \in Clients, \A c \in Clients \ {cl} : held'[c] = held[c] /\ pc'[c] = pc[c],
             held'[cl] # NoConn <=> Work(cl)'
      PROVE  HeldAtWork'
  BY <1>0, <1>1 DEF HeldAtWork
<1>2. ASSUME NEW cl \in Clients, NEW to, pc' = [pc EXCEPT ![cl] = to]
      PROVE  /\ pc'[cl] = to /\ \A c \in Clients \ {cl} : pc'[c] = pc[c]
  BY <1>2 DEF PcTyped
<1>3. ASSUME NEW cl \in Clients, NEW to, pc' = [pc EXCEPT ![cl] = to],
             to \in {"idle", "save", "upload"},
             \/ Unborrow(cl) \/ Abandon(cl) \/ AbandonBroken(cl)
             \/ held[cl] = NoConn /\ UNCHANGED poolVars
      PROVE  HeldAtWork'
  <2>1. held'[cl] = NoConn /\ \A c \in Clients \ {cl} : held'[c] = held[c]
    <3>1. CASE held[cl] = NoConn /\ UNCHANGED poolVars
      BY <3>1 DEF poolVars
    <3>2. CASE Unborrow(cl) \/ Abandon(cl) \/ AbandonBroken(cl)
      BY <3>2, Holds
    <3> QED
      BY <1>3, <3>1, <3>2
  <2>2. pc'[cl] = to /\ \A c \in Clients \ {cl} : pc'[c] = pc[c]
    BY <1>2, <1>3
  <2>3. ~Work(cl)'
    BY <1>3, <2>1, <2>2
  <2> QED
    BY <1>1, <2>1, <2>2, <2>3
<1>4. ASSUME NEW cl \in Clients, NEW to, pc' = [pc EXCEPT ![cl] = to],
             to \in {"execute", "append", "conninfo"}, Borrow(cl)
      PROVE  HeldAtWork'
  <2>1. held'[cl] # NoConn /\ \A c \in Clients \ {cl} : held'[c] = held[c]
    BY <1>4, Holds
  <2>2. pc'[cl] = to /\ \A c \in Clients \ {cl} : pc'[c] = pc[c]
    BY <1>2, <1>4
  <2>3. Work(cl)'
    BY <1>4, <2>1, <2>2
  <2> QED
    BY <1>1, <2>1, <2>2, <2>3
<1>5. ASSUME UNCHANGED <<pc, held>> PROVE HeldAtWork'
  BY <1>0, <1>5 DEF HeldAtWork
<1>6. ASSUME NEW cl \in Clients, NEW o, Answer(cl, o)
      PROVE  \E to \in {"idle", "save"} : pc' = [pc EXCEPT ![cl] = to]
  BY <1>6 DEF Answer, Continue, Proceed
<1>7. ASSUME NEW cl \in Clients, pc[cl] \in {"idle", "save", "upload"} PROVE held[cl] = NoConn
  BY <1>0, <1>7 DEF HeldAtWork
<1>8. ASSUME NEW cl \in Clients, Begin(cl) PROVE HeldAtWork'
  BY <1>3, <1>7, <1>8 DEF Begin, Call
<1>9. ASSUME NEW cl \in Clients, EventStoreSave(cl) PROVE HeldAtWork'
  BY <1>4, <1>9 DEF EventStoreSave, Call
<1>10. ASSUME NEW cl \in Clients, getConnInfo(cl) PROVE HeldAtWork'
  <2>1. CASE Borrow(cl)
    BY <1>4, <1>10, <2>1 DEF getConnInfo, Call
  <2>2. CASE UNCHANGED poolVars
    <3>1. held[cl] = NoConn /\ pc' = [pc EXCEPT ![cl] = "conninfo"] /\ held' = held
      BY <1>7, <1>10, <2>2 DEF getConnInfo, Call, poolVars
    <3> QED
      BY <1>1, <1>2, <3>1
  <2> QED
    BY <1>10, <2>1, <2>2 DEF getConnInfo
<1>11. ASSUME NEW cl \in Clients, Connect(cl), NEW to \in {"idle", "upload"},
              pc' = [pc EXCEPT ![cl] = to]
       PROVE  HeldAtWork'
  BY <1>3, <1>11 DEF Connect
<1>12. ASSUME NEW cl \in Clients, BorrowConnection(cl) PROVE HeldAtWork'
  <2>1. CASE Borrow(cl) /\ pc' = [pc EXCEPT ![cl] = "execute"]
    BY <1>4, <2>1
  <2>2. CASE Answer(cl, "unknown") /\ UNCHANGED poolVars
    <3>1. held[cl] = NoConn
      BY <1>7, <1>12 DEF BorrowConnection
    <3> QED
      BY <1>3, <1>6, <2>2, <3>1
  <2> QED
    BY <1>12, <2>1, <2>2 DEF BorrowConnection
<1>13. ASSUME NEW cl \in Clients, Execute(cl) \/ ExecuteOnDead(cl) PROVE HeldAtWork'
  <2>1. Unborrow(cl) /\ \E o : Answer(cl, o)
    BY <1>13 DEF Execute, ExecuteOnDead
  <2> QED
    BY <1>3, <1>6, <2>1
<1>14. ASSUME NEW cl \in Clients, EventStoreReturns(cl) PROVE HeldAtWork'
  BY <1>3, <1>14 DEF EventStoreReturns
<1>15. ASSUME NEW cl \in Clients, Retry(cl) \/ Commit(cl) PROVE HeldAtWork'
  <2>1. held[cl] = NoConn /\ UNCHANGED poolVars
    BY <1>7, <1>15 DEF Retry, Commit
  <2>2. \E to \in {"idle", "save"} : pc' = [pc EXCEPT ![cl] = to]
    BY <1>15 DEF Retry, Commit
  <2> QED
    BY <1>3, <2>1, <2>2
<1>16. ASSUME NEW cl \in Clients, Open(cl) \/ uploadFile(cl) \/ download(cl) \/ deleteOid(cl)
       PROVE  HeldAtWork'
  BY <1>11, <1>16 DEF Open, uploadFile, download, deleteOid
<1>17. CASE Break \/ (\E cl \in Clients : Write(cl)) \/ UNCHANGED vars
  BY <1>5, <1>17 DEF Break, Write, vars, poolVars
<1> QED
  BY <1>8, <1>9, <1>10, <1>12, <1>13, <1>14, <1>15, <1>16, <1>17 DEF ClientNext, Step

(* A connection is left behind by Abandon only.                            *)
LEMMA AbandonedBy ==
  ASSUME PoolInv, NEW cl \in Clients
  PROVE  /\ Borrow(cl) \/ Unborrow(cl) => Abandoned' \subseteq Abandoned
         /\ Abandon(cl) \/ AbandonBroken(cl) => Abandoned' \subseteq Abandoned \cup {held[cl]}
<1>1. ASSUME Borrow(cl) PROVE Abandoned' \subseteq Abandoned
  <2>1. held[cl] = NoConn /\ NoConn \notin borrowed
    BY <1>1, PoolAssumption DEF Borrow, PoolInv, PoolTypeOK
  <2>2. CASE BorrowFree(cl)
    <3>1. held' = [held EXCEPT ![cl] = Head(free)] /\ borrowed' = borrowed \cup {Head(free)}
      BY <2>2 DEF BorrowFree
    <3>2. held'[cl] = Head(free) /\ \A c \in Clients \ {cl} : held'[c] = held[c]
      BY <3>1 DEF PoolInv, PoolTypeOK
    <3> QED
      BY <2>1, <3>1, <3>2 DEF Abandoned
  <2>3. CASE BorrowAbandoned(cl)
    <3>1. PICK a \in Abandoned : held' = [held EXCEPT ![cl] = a]
      BY <2>3 DEF BorrowAbandoned
    <3>2. \A c \in Clients \ {cl} : held'[c] = held[c]
      BY <3>1 DEF PoolInv, PoolTypeOK
    <3>3. borrowed' = borrowed
      BY <2>3 DEF BorrowAbandoned
    <3> QED
      BY <2>1, <3>2, <3>3 DEF Abandoned
  <2> QED
    BY <1>1, <2>2, <2>3 DEF Borrow
<1>2. ASSUME Unborrow(cl) PROVE Abandoned' \subseteq Abandoned
  <2>1. borrowed' = borrowed \ {held[cl]} /\ \A c \in Clients \ {cl} : held'[c] = held[c]
    BY <1>2 DEF Unborrow, PoolInv, PoolTypeOK
  <2> QED
    BY <2>1 DEF Abandoned
<1>3. ASSUME Abandon(cl) \/ AbandonBroken(cl) PROVE Abandoned' \subseteq Abandoned \cup {held[cl]}
  <2>1. borrowed' = borrowed /\ \A c \in Clients \ {cl} : held'[c] = held[c]
    BY <1>3 DEF Abandon, AbandonBroken, PoolInv, PoolTypeOK
  <2> QED
    BY <2>1 DEF Abandoned
<1> QED
  BY <1>1, <1>2, <1>3

LEMMA PoolUse ==
  ASSUME [ClientNext]_vars
  PROVE  \/ UNCHANGED <<borrowed, held>>
         \/ \E cl \in Clients : Borrow(cl) \/ Unborrow(cl)
         \/ \E cl \in Clients : (Abandon(cl) \/ AbandonBroken(cl)) /\ leaks' = leaks + 1
<1> DEFINE Leaves(cl) == (Abandon(cl) \/ AbandonBroken(cl)) /\ leaks' = leaks + 1
           Goal == \/ UNCHANGED <<borrowed, held>>
                   \/ \E cl \in Clients : Borrow(cl) \/ Unborrow(cl)
                   \/ \E cl \in Clients : Leaves(cl)
<1>1. UNCHANGED <<borrowed, held>> => Goal
  OBVIOUS
<1>2. ASSUME NEW cl \in Clients, Borrow(cl) \/ Unborrow(cl) PROVE Goal
  BY <1>2
<1>3. ASSUME NEW cl \in Clients, Leaves(cl) PROVE Goal
  BY <1>3
<1>4. ASSUME NEW cl \in Clients, EventStoreReturns(cl) PROVE Unborrow(cl) \/ Leaves(cl)
  BY <1>4 DEF EventStoreReturns
<1> HIDE DEF Goal, Leaves
<1>5. ASSUME NEW cl \in Clients, Connect(cl) PROVE Goal
  BY <1>1, <1>2, <1>5 DEF Connect, poolVars
<1>6. ASSUME NEW cl \in Clients,
             \/ Begin(cl) \/ EventStoreSave(cl) \/ getConnInfo(cl) \/ BorrowConnection(cl)
             \/ Retry(cl) \/ Write(cl) \/ Commit(cl) \/ Execute(cl) \/ ExecuteOnDead(cl)
      PROVE  Goal
  <2>1. UNCHANGED poolVars \/ Borrow(cl) \/ Unborrow(cl)
    BY <1>6 DEF Begin, EventStoreSave, getConnInfo, BorrowConnection, Retry, Write, Commit,
                Execute, ExecuteOnDead
  <2> QED
    BY <1>1, <1>2, <2>1 DEF poolVars
<1>7. ASSUME NEW cl \in Clients, Open(cl) \/ uploadFile(cl) \/ download(cl) \/ deleteOid(cl)
      PROVE  Goal
  BY <1>5, <1>7 DEF Open, uploadFile, download, deleteOid
<1>8. ASSUME Break \/ UNCHANGED vars PROVE Goal
  BY <1>1, <1>8 DEF Break, vars, poolVars
<1>9. ASSUME NEW cl \in Clients, Step(cl) PROVE Goal
  BY <1>2, <1>3, <1>4, <1>6, <1>7, <1>9 DEF Step
<1>10. Goal
  BY <1>6, <1>8, <1>9 DEF ClientNext
<1> QED
  BY <1>10 DEF Goal, Leaves

LEMMA PaidStep ==
  ASSUME PoolInv, leaks \in Nat, LeaksPaid, [ClientNext]_vars PROVE LeaksPaid'
<1>1. IsFiniteSet(Abandoned) /\ Cardinality(Abandoned) \in Nat
  <2>1. Abandoned \subseteq Conns
    BY DEF PoolInv, PoolTypeOK, Abandoned
  <2> QED
    BY <2>1, FS_Subset, FS_CardinalityType, PoolAssumption
<1>2. CASE Abandoned' \subseteq Abandoned
  <2>1. Cardinality(Abandoned') <= Cardinality(Abandoned) /\ Cardinality(Abandoned') \in Nat
    BY <1>1, <1>2, FS_Subset, FS_CardinalityType
  <2>2. leaks' \in Nat /\ leaks' >= leaks
    BY LeaksStep
  <2> QED
    BY <1>1, <2>1, <2>2 DEF LeaksPaid
<1>3. ASSUME NEW x, Abandoned' \subseteq Abandoned \cup {x}, leaks' = leaks + 1 PROVE LeaksPaid'
  <2>1. /\ IsFiniteSet(Abandoned \cup {x})
        /\ Cardinality(Abandoned \cup {x}) \in Nat
        /\ Cardinality(Abandoned \cup {x}) <= Cardinality(Abandoned) + 1
    BY <1>1, FS_AddElement, FS_CardinalityType
  <2>2. /\ Cardinality(Abandoned') <= Cardinality(Abandoned \cup {x})
        /\ Cardinality(Abandoned') \in Nat
    BY <1>3, <2>1, FS_Subset, FS_CardinalityType
  <2> QED
    BY <1>1, <1>3, <2>1, <2>2 DEF LeaksPaid
<1>4. CASE UNCHANGED <<borrowed, held>>
  BY <1>2, <1>4 DEF Abandoned
<1>5. ASSUME NEW cl \in Clients, Borrow(cl) \/ Unborrow(cl) PROVE LeaksPaid'
  BY <1>2, <1>5, AbandonedBy
<1>6. ASSUME NEW cl \in Clients, Abandon(cl) \/ AbandonBroken(cl), leaks' = leaks + 1
      PROVE  LeaksPaid'
  BY <1>3, <1>6, AbandonedBy
<1> QED
  BY <1>4, <1>5, <1>6, PoolUse

-----------------------------------------------------------------------------
(* What the calls answer.                                                  *)

ErrorsTyped == errType \in [Clients -> ErrorTypes] /\ given \in [Clients -> SUBSET Docs]
Outcomes == {"connection", "execution", "unknown"}

(* A statement is answered for once, by what became of it.                 *)
LEMMA AnswersStep ==
  ASSUME PcTyped, [ClientNext]_vars
  PROVE  \/ UNCHANGED answers
         \/ \E cl \in Clients : /\ retval' = [retval EXCEPT ![cl] = {}]
                                /\ UNCHANGED <<errType, given>>
         \/ \E cl \in Clients : \E o \in Outcomes :
               pc[cl] \in {"save", "execute"} /\ Answer(cl, o)
         \/ \E cl \in Clients : /\ pc[cl] = "execute" /\ Apply(Head(script[cl]))
                                /\ Answer(cl, "Succeeded")
<1> DEFINE Forgets(cl) == retval' = [retval EXCEPT ![cl] = {}] /\ UNCHANGED <<errType, given>>
           Fails(cl) == \E o \in Outcomes : pc[cl] \in {"save", "execute"} /\ Answer(cl, o)
           Succeeds(cl) == /\ pc[cl] = "execute" /\ Apply(Head(script[cl]))
                           /\ Answer(cl, "Succeeded")
           Goal == UNCHANGED answers \/ \E cl \in Clients : Forgets(cl) \/ Fails(cl) \/ Succeeds(cl)
<1>1. ASSUME NEW cl \in Clients, Begin(cl) \/ EventStoreSave(cl) \/ getConnInfo(cl)
      PROVE  Forgets(cl)
  BY <1>1 DEF Begin, EventStoreSave, getConnInfo, Call
<1>2. ASSUME NEW cl \in Clients, BorrowConnection(cl) PROVE UNCHANGED answers \/ Fails(cl)
  BY <1>2 DEF BorrowConnection, Outcomes, answers
<1>3. ASSUME NEW cl \in Clients, Execute(cl) PROVE Fails(cl) \/ Succeeds(cl)
  BY <1>3 DEF Execute, Outcomes
<1>4. ASSUME NEW cl \in Clients, ExecuteOnDead(cl) PROVE Fails(cl)
  BY <1>4 DEF ExecuteOnDead, Outcomes
<1>5. ASSUME NEW cl \in Clients,
             \/ Retry(cl) \/ EventStoreReturns(cl) \/ Open(cl) \/ Write(cl) \/ Commit(cl)
             \/ uploadFile(cl) \/ download(cl) \/ deleteOid(cl)
      PROVE  UNCHANGED answers
  BY <1>5 DEF Retry, EventStoreReturns, Open, Write, Commit, uploadFile, download, deleteOid
<1>6. ASSUME Break \/ UNCHANGED vars PROVE UNCHANGED answers
  BY <1>6 DEF Break, vars
<1> HIDE DEF Forgets, Fails, Succeeds
<1>7. UNCHANGED answers => Goal
  OBVIOUS
<1>8. ASSUME NEW cl \in Clients, Forgets(cl) \/ Fails(cl) \/ Succeeds(cl) PROVE Goal
  BY <1>8
<1> HIDE DEF Goal
<1>9. ASSUME NEW cl \in Clients, Step(cl) PROVE Goal
  BY <1>2, <1>3, <1>4, <1>5, <1>7, <1>8, <1>9 DEF Step
<1>10. Goal
  BY <1>1, <1>6, <1>7, <1>8, <1>9 DEF ClientNext
<1> QED
  BY <1>10 DEF Goal, Forgets, Fails, Succeeds

(* Nothing that is done is undone.                                         *)
LEMMA InPlaceStays ==
  ASSUME Versions, [ClientNext]_vars, NEW s, Proper(s), s.op # "read", InPlace(s)
  PROVE  InPlace(s)'
<1>1. /\ tables \subseteq tables' /\ docs \subseteq docs'
      /\ \A st \in Streams : versions'[st] >= versions[st]
  BY GrowStep
<1>2. CASE s.op \in {"table", "indexes"}
  BY <1>1, <1>2 DEF InPlace, Puts
<1>3. CASE s.op = "stream"
  <2>1. s.on \in Streams /\ versions[s.on] \in Int /\ versions[s.on] > NoRow
    BY <1>3 DEF Proper, Puts, InPlace, Versions, NoRow
  <2>2. versions'[s.on] >= versions[s.on]
    BY <1>1, <2>1
  <2>3. versions'[s.on] # NoRow
    BY <2>1, <2>2 DEF NoRow
  <2> QED
    BY <1>3, <2>3 DEF InPlace, Puts
<1>4. CASE Puts(s)
  BY <1>1, <1>4 DEF InPlace, Puts
<1> QED
  BY <1>2, <1>3, <1>4 DEF Proper

LEMMA AppliedInPlace ==
  ASSUME Versions, NEW s, Proper(s), s.op # "read", Apply(s)
  PROVE  InPlace(s)'
<1>1. CASE s.op \in {"table", "indexes"}
  BY <1>1 DEF InPlace, Apply
<1>2. CASE s.op = "stream"
  <2>1. versions' = [versions EXCEPT ![s.on] = NewVersion(s.on)] /\ s.on \in Streams
    BY <1>2 DEF Apply, Proper
  <2>2. versions'[s.on] = NewVersion(s.on)
    BY <2>1 DEF Versions
  <2>3. NewVersion(s.on) # NoRow
    BY DEF NewVersion, NoRow
  <2> QED
    BY <1>2, <2>2, <2>3 DEF InPlace, Puts
<1>3. CASE Puts(s)
  BY <1>3 DEF InPlace, Apply, Puts
<1> QED
  BY <1>1, <1>2, <1>3 DEF Proper

(* The statement a client at work is at.                                   *)
LEMMA AtHead ==
  ASSUME Scripted, NEW cl \in Clients, pc[cl] \in {"save", "execute"}
  PROVE  Proper(Head(script[cl]))
BY ScriptedParts, RestTail

LEMMA SaidStep ==
  ASSUME PcTyped, Scripted, Versions, Answers, SucceededMeansDone, [ClientNext]_vars
  PROVE  Answers' /\ SucceededMeansDone'
<1> DEFINE True(s) == Proper(s) /\ s.op # "read" /\ InPlace(s)'
<1>1. ASSUME NEW cl \in Clients, NEW s \in retval[cl] PROVE True(s)
  BY <1>1, InPlaceStays DEF Answers, SucceededMeansDone
<1>2. ASSUME DOMAIN retval' = Clients, \A cl \in Clients : \A s \in retval'[cl] : True(s)
      PROVE  Answers' /\ SucceededMeansDone'
  BY <1>2 DEF Answers, SucceededMeansDone
<1>3. DOMAIN retval = Clients
  BY DEF Answers
<1>4. CASE UNCHANGED answers
  BY <1>1, <1>2, <1>3, <1>4 DEF answers
<1>5. ASSUME NEW cl \in Clients, retval' = [retval EXCEPT ![cl] = {}]
      PROVE  Answers' /\ SucceededMeansDone'
  BY <1>1, <1>2, <1>3, <1>5
<1>6. ASSUME NEW cl \in Clients, pc[cl] \in {"save", "execute"}, NEW o, Answer(cl, o),
             o = "Succeeded" => Apply(Head(script[cl]))
      PROVE  Answers' /\ SucceededMeansDone'
  <2>1. PICK h : h = Head(script[cl]) /\ Proper(h)
    BY <1>6, AtHead
  <2>2. PICK v : retval' = [retval EXCEPT ![cl] = v] /\ v \subseteq retval[cl] \cup Said(h, o)
    BY <1>6, <2>1 DEF Answer
  <2>3. \A s \in Said(h, o) : True(s)
    <3>1. CASE o = "Succeeded" /\ h.op # "read"
      BY <1>6, <2>1, <3>1, AppliedInPlace DEF Said
    <3> QED
      BY <3>1 DEF Said
  <2>4. \A s \in v : True(s)
    BY <1>1, <2>2, <2>3
  <2>5. \A c \in Clients : retval'[c] = IF c = cl THEN v ELSE retval[c]
    BY <1>3, <2>2
  <2> HIDE DEF True
  <2> QED
    BY <1>1, <1>2, <1>3, <2>2, <2>4, <2>5
<1> HIDE DEF True
<1> QED
  BY <1>4, <1>5, <1>6, AnswersStep DEF Outcomes

(* An ErrorType that is still untouched was handed to successes only.      *)
LEMMA SilenceStep ==
  ASSUME PcTyped, Scripted, Versions, ErrorsTyped, NoErrorMeansDone, [ClientNext]_vars
  PROVE  ErrorsTyped' /\ NoErrorMeansDone'
<1>1. docs \subseteq docs'
  BY GrowStep
<1>2. CASE UNCHANGED <<errType, given>>
  BY <1>1, <1>2 DEF ErrorsTyped, NoErrorMeansDone
<1>3. ASSUME NEW cl \in Clients, pc[cl] \in {"save", "execute"},
             NEW o \in Outcomes \cup {"Succeeded"}, Answer(cl, o),
             o = "Succeeded" => Apply(Head(script[cl]))
      PROVE  ErrorsTyped' /\ NoErrorMeansDone'
  <2>1. PICK h : h = Head(script[cl]) /\ Proper(h)
    BY <1>3, AtHead
  <2>2. PICK e : e = Classified(h, o, errType[cl])
    OBVIOUS
  <2>3. PICK g : g = IF h.op = "sql" THEN given[cl] \cup {h.on} ELSE given[cl]
    OBVIOUS
  <2>4. errType' = [errType EXCEPT ![cl] = e] /\ given' = [given EXCEPT ![cl] = g]
    BY <1>3, <2>1, <2>2, <2>3 DEF Answer
  <2>5. e \in ErrorTypes /\ g \in SUBSET Docs
    BY <2>1, <2>2, <2>3 DEF Classified, ErrorsTyped, ErrorTypes, Outcomes, Proper, Puts
  <2>6. ErrorsTyped'
    BY <2>4, <2>5 DEF ErrorsTyped
  <2>7. e = "unset" => errType[cl] = "unset" /\ (h.op = "sql" => o = "Succeeded")
    BY <2>2 DEF Classified, Outcomes
  <2>8. e = "unset" => g \subseteq docs'
    <3>1. ASSUME e = "unset", h.op = "sql" PROVE h.on \in docs'
      <4>1. Apply(h)
        BY <1>3, <2>1, <2>7, <3>1
      <4> QED
        BY <3>1, <4>1 DEF Apply, Puts
    <3>2. e = "unset" => given[cl] \subseteq docs
      BY <2>7 DEF NoErrorMeansDone
    <3> QED
      BY <1>1, <2>3, <3>1, <3>2
  <2>9. \A c \in Clients : /\ errType'[c] = IF c = cl THEN e ELSE errType[c]
                           /\ given'[c] = IF c = cl THEN g ELSE given[c]
    BY <2>4 DEF ErrorsTyped
  <2>10. NoErrorMeansDone'
    BY <1>1, <2>8, <2>9 DEF NoErrorMeansDone
  <2> QED
    BY <2>6, <2>10
<1> QED
  BY <1>2, <1>3, AnswersStep DEF Outcomes, answers

-----------------------------------------------------------------------------
(* IInv, part by part.                                                     *)

Parts == /\ PoolInv /\ PcTyped /\ Bounded /\ Uploads /\ Rows /\ Scripted
         /\ Versions /\ leaks \in Nat /\ AppendsCounted
         /\ HeldAtWork /\ LeaksPaid
         /\ ErrorsTyped /\ Answers /\ SucceededMeansDone /\ NoErrorMeansDone

LEMMA InitParts == ASSUME IsFiniteSet(Clients) PROVE ClientInit => Parts
<1> SUFFICES ASSUME ClientInit PROVE Parts
  OBVIOUS
<1>1. PoolInv /\ HeldAtWork /\ LeaksPaid
  <2>1. PoolInv
    BY InitPoolInv DEF ClientInit
  <2>2. HeldAtWork
    BY DEF ClientInit, Init, HeldAtWork, AtWork
  <2>3. Abandoned = {} /\ Cardinality({}) = 0
    BY FS_EmptySet DEF ClientInit, Init, Abandoned
  <2> QED
    BY <2>1, <2>2, <2>3 DEF LeaksPaid, ClientInit
<1>2. PcTyped /\ Bounded /\ Uploads /\ Rows /\ leaks \in Nat
  BY DEF ClientInit, PcTyped, PCs, Bounded, Uploads, Rows, Failed
<1>3. Scripted
  <2>1. \A s \in Scripts : << >> \in Seq(ToSet(s)) /\ IsSuffix(<< >>, s)
    BY ScriptSequence, SuffixWhole
  <2>2. createStore \in Scripts
    BY DEF Scripts
  <2>3. \A cl \in Clients : script[cl] = << >> /\ pc[cl] = "idle"
    BY DEF ClientInit
  <2>4. DOMAIN script = Clients
    BY DEF ClientInit
  <2> QED
    BY <2>1, <2>2, <2>3, <2>4 DEF Scripted
<1>4. Versions /\ AppendsCounted
  <2>1. Appending = {} /\ Cardinality({}) = 0
    BY FS_EmptySet DEF ClientInit, Appending
  <2> QED
    BY <2>1 DEF ClientInit, Versions, AppendsCounted, NoRow
<1>5. ErrorsTyped /\ Answers /\ SucceededMeansDone /\ NoErrorMeansDone
  BY DEF ClientInit, ErrorsTyped, ErrorTypes, Answers, SucceededMeansDone, NoErrorMeansDone
<1> QED
  BY <1>1, <1>2, <1>3, <1>4, <1>5 DEF Parts

LEMMA StepParts == ASSUME IsFiniteSet(Clients) PROVE Parts /\ [ClientNext]_vars => Parts'
<1> SUFFICES ASSUME Parts, [ClientNext]_vars PROVE Parts'
  OBVIOUS
<1> USE DEF Parts
<1>1. PoolInv' /\ PcTyped' /\ Bounded' /\ Uploads'
  BY ClientPoolInv, PcStep, BoundedStep, UploadsStep
<1>2. Rows' /\ Scripted'
  BY RowsStep, ScriptedStep
<1>3. Versions' /\ (leaks \in Nat)' /\ AppendsCounted'
  BY VersionsStep
<1>4. HeldAtWork' /\ LeaksPaid'
  BY HeldStep, PaidStep
<1>5. ErrorsTyped' /\ Answers' /\ SucceededMeansDone' /\ NoErrorMeansDone'
  BY SaidStep, SilenceStep
<1> QED
  BY <1>1, <1>2, <1>3, <1>4, <1>5

LEMMA PartsAlways == ASSUME IsFiniteSet(Clients) PROVE ClientSpec => []Parts
<1>1. ClientInit => Parts
  BY InitParts
<1>2. Parts /\ [ClientNext]_vars => Parts'
  BY StepParts
<1> QED
  BY <1>1, <1>2, PTL DEF ClientSpec

LEMMA PartsTyped == ASSUME IsFiniteSet(Clients), Parts PROVE TypeOK
<1>1. Cardinality(Appending) \in Nat
  BY FS_Subset, FS_CardinalityType DEF Appending
<1>2. PICK n \in Nat : n = Cardinality(Appending)
  BY <1>1
<1>3. calls \in 0..MaxCalls /\ leaks + n <= calls /\ leaks \in Nat
  BY <1>2 DEF Parts, AppendsCounted, Bounded
<1>4. leaks \in 0..MaxCalls
  BY <1>2, <1>3
<1>5. versions \in [Streams -> NoRow..MaxCalls]
  <2>1. ASSUME NEW st \in Streams PROVE versions[st] \in NoRow..MaxCalls
    <3>1. versions[st] \in Int /\ versions[st] >= NoRow /\ versions[st] + n <= calls
      BY <1>2 DEF Parts, AppendsCounted, Versions
    <3> QED
      BY <1>2, <1>3, <3>1 DEF NoRow
  <2> QED
    BY <2>1 DEF Parts, Versions
<1>6. \A cl \in Clients : \E s \in Scripts : IsSuffix(script[cl], s)
  BY DEF Parts, Scripted
<1> QED
  BY <1>4, <1>5, <1>6
     DEF Parts, TypeOK, PoolInv, PcTyped, PCs, Rows, Uploads, ErrorsTyped, Bounded

LEMMA PartsServe == ASSUME IsFiniteSet(Clients), Parts PROVE ConnectionsServeCalls
<1>1. CapacityKept
  BY InvImpliesCapacity DEF Parts
<1>2. AtWork = {cl \in Clients : held[cl] # NoConn}
  BY DEF Parts, HeldAtWork, AtWork
<1>3. Exhausted => Cardinality(AtWork) >= Cardinality(Conns)
  <2>1. Cardinality(AtWork) \in Nat /\ Cardinality(Conns) \in Nat
    BY FS_Subset, FS_CardinalityType, PoolAssumption DEF AtWork
  <2>2. Exhausted => ~(Cardinality(AtWork) < Cardinality(Conns))
    BY <1>1, <1>2 DEF CapacityKept
  <2> QED
    BY <2>1, <2>2
<1> QED
  BY <1>3 DEF Parts, HeldAtWork, LeaksPaid, ConnectionsServeCalls

-----------------------------------------------------------------------------
(* Every part of IInv holds throughout; types and bounds with them.        *)
THEOREM TypeCorrect == ASSUME IsFiniteSet(Clients) PROVE ClientSpec => []TypeOK
<1>1. Parts => TypeOK
  BY PartsTyped
<1> QED
  BY <1>1, PartsAlways, PTL

(* Whatever fails, every call but a failed Save gives its connection back, *)
(* and the pool turns a call away only when all its connections are at     *)
(* work.                                                                   *)
THEOREM EveryWayOutUnborrows ==
  ASSUME IsFiniteSet(Clients)
  PROVE  ClientSpec => []ConnectionsServeCalls
<1>1. Parts => ConnectionsServeCalls
  BY PartsServe
<1> QED
  BY <1>1, PartsAlways, PTL

(* A reported success is in the database and stays there.                  *)
THEOREM SuccessesAreTrue ==
  ASSUME IsFiniteSet(Clients)
  PROVE  ClientSpec => []SucceededMeansDone
<1>1. Parts => SucceededMeansDone
  BY DEF Parts
<1> QED
  BY <1>1, PartsAlways, PTL

(* An ErrorType nothing has set tells that everything it went along with   *)
(* is stored.                                                              *)
THEOREM SilenceIsTruthful ==
  ASSUME IsFiniteSet(Clients)
  PROVE  ClientSpec => []NoErrorMeansDone
<1>1. Parts => NoErrorMeansDone
  BY DEF Parts
<1> QED
  BY <1>1, PartsAlways, PTL

(* createStreamId among the appends of event stores takes no version back. *)
THEOREM VersionsDoNotFall == ASSUME IsFiniteSet(Clients) PROVE ClientSpec => VersionsNeverFall
<1> DEFINE Grow == \A st \in Streams : versions'[st] >= versions[st]
<1>1. Parts /\ [ClientNext]_vars => [Grow]_vars
  BY GrowStep DEF Parts
<1> QED
  BY <1>1, PartsAlways, PTL DEF ClientSpec, VersionsNeverFall
=============================================================================
