----------------------- MODULE SqlServerClientsProofs -----------------------
(* The safety properties of the clients of SQL Server, for any number of   *)
(* threads, connections, calls and failures, with and without DEBUG.       *)
EXTENDS SqlServerClients, FiniteSetTheorems, TLAPS

USE ClientsAssumption

LEMMA NoPoolIsNone == NoPool \notin Pools
BY DEF Pools, Libraries

LEMMA LentFinite == \A p : IsFiniteSet(Lent(p)) /\ Cardinality(Lent(p)) \in Nat
<1> SUFFICES ASSUME NEW p PROVE IsFiniteSet(Lent(p)) /\ Cardinality(Lent(p)) \in Nat
  OBVIOUS
<1>1. IsFiniteSet(Lent(p))
  <2>1. Lent(p) \subseteq Threads
    BY DEF Lent
  <2> QED
    BY <2>1, FS_Subset
<1> QED
  BY <1>1, FS_CardinalityType

-----------------------------------------------------------------------------
(* The three ways a step can move connections.                             *)

(* A thread without a connection in hand borrows one of pool p.            *)
LEMMA Took ==
  ASSUME IInv, NEW t \in Threads, NEW p \in Pools, pc[t] \notin Held,
         NEW label \in Held, pc' = [pc EXCEPT ![t] = label],
         pool'[t] = p, \A u \in Threads : u # t => pool'[u] = pool[u],
         Lend(p), UNCHANGED created
  PROVE  Balanced'
<1>0. TypeOK /\ Balanced
  BY DEF IInv
<1>p. pc'[t] = label /\ \A u \in Threads : u # t => pc'[u] = pc[u]
  BY <1>0 DEF TypeOK
<1>1. Lent(p)' = Lent(p) \cup {t} /\ t \notin Lent(p)
  BY <1>p DEF Lent
<1>2. ASSUME NEW q \in Pools, q # p PROVE Lent(q)' = Lent(q)
  BY <1>p, <1>2 DEF Lent
<1>3. Cardinality(Lent(p)') = Cardinality(Lent(p)) + 1
  <2>1. IsFiniteSet(Lent(p))
    BY LentFinite
  <2>2. Cardinality(Lent(p) \cup {t}) = Cardinality(Lent(p)) + 1
    BY <1>1, <2>1, FS_AddElement
  <2> QED
    BY <1>1, <2>2
<1>4. idle'[p] + abandoned'[p] = idle[p] + abandoned[p] - 1
  BY <1>0 DEF Lend, Exhausted, TypeOK
<1>5. ASSUME NEW q \in Pools, q # p PROVE idle'[q] = idle[q] /\ abandoned'[q] = abandoned[q]
  BY <1>0, <1>5 DEF Lend, TypeOK
<1>6. \A q \in Pools : /\ idle[q] \in Nat /\ abandoned[q] \in Nat
                       /\ idle'[q] \in Int /\ abandoned'[q] \in Int
  BY <1>0 DEF TypeOK, Lend
<1>7. ASSUME NEW q \in Pools
      PROVE  idle'[q] + abandoned'[q] + Cardinality(Lent(q)')
                = idle[q] + abandoned[q] + Cardinality(Lent(q))
  <2>1. CASE q = p
    <3>1. /\ Cardinality(Lent(p)) \in Int /\ idle[p] \in Int /\ abandoned[p] \in Int
          /\ idle'[p] \in Int /\ abandoned'[p] \in Int
      BY <1>6, LentFinite
    <3> QED
      BY <1>3, <1>4, <2>1, <3>1
  <2>2. CASE q # p
    BY <1>2, <1>5, <2>2
  <2> QED
    BY <2>1, <2>2
<1> QED
  BY <1>0, <1>7 DEF Balanced

(* A thread with a connection in hand gives it back, or abandons it.       *)
LEMMA LetGo ==
  ASSUME IInv, NEW t \in Threads, pc[t] \in Held,
         NEW label, label \notin Held, pc' = [pc EXCEPT ![t] = label],
         UNCHANGED <<pool, created>>,
         \/ idle' = [idle EXCEPT ![pool[t]] = @ + 1] /\ UNCHANGED abandoned
         \/ abandoned' = [abandoned EXCEPT ![pool[t]] = @ + 1] /\ UNCHANGED idle
  PROVE  Balanced'
<1>0. TypeOK /\ Balanced
  BY DEF IInv
<1>q. PICK p \in Pools : p = pool[t]
  BY <1>0 DEF TypeOK, IInv, Reliable
<1>p. pc'[t] = label /\ (\A u \in Threads : u # t => pc'[u] = pc[u])
  BY <1>0 DEF TypeOK
<1>1. Lent(p)' = Lent(p) \ {t} /\ t \in Lent(p)
  BY <1>p, <1>q DEF Lent
<1>2. ASSUME NEW q \in Pools, q # p PROVE Lent(q)' = Lent(q)
  BY <1>p, <1>q, <1>2 DEF Lent
<1>3. Cardinality(Lent(p)') = Cardinality(Lent(p)) - 1
  <2>1. IsFiniteSet(Lent(p))
    BY LentFinite
  <2>2. Cardinality(Lent(p) \ {t}) = Cardinality(Lent(p)) - 1
    BY <1>1, <2>1, FS_RemoveElement
  <2> QED
    BY <1>1, <2>2
<1>4. idle'[p] + abandoned'[p] = idle[p] + abandoned[p] + 1
  BY <1>0, <1>q DEF TypeOK
<1>5. ASSUME NEW q \in Pools, q # p PROVE idle'[q] = idle[q] /\ abandoned'[q] = abandoned[q]
  BY <1>0, <1>q, <1>5 DEF TypeOK
<1>6. \A q \in Pools : /\ idle[q] \in Nat /\ abandoned[q] \in Nat
                       /\ idle'[q] \in Int /\ abandoned'[q] \in Int
  BY <1>0 DEF TypeOK
<1>7. ASSUME NEW q \in Pools
      PROVE  idle'[q] + abandoned'[q] + Cardinality(Lent(q)')
                = idle[q] + abandoned[q] + Cardinality(Lent(q))
  <2>1. CASE q = p
    <3>1. /\ Cardinality(Lent(p)) \in Int /\ idle[p] \in Int /\ abandoned[p] \in Int
          /\ idle'[p] \in Int /\ abandoned'[p] \in Int
      BY <1>6, LentFinite
    <3> QED
      BY <1>3, <1>4, <2>1, <3>1
  <2>2. CASE q # p
    BY <1>2, <1>5, <2>2
  <2> QED
    BY <2>1, <2>2
<1> QED
  BY <1>0, <1>7 DEF Balanced

(* Threads without a connection in hand move, and no connection does.      *)
LEMMA NoneMoved ==
  ASSUME IInv, UNCHANGED <<idle, abandoned, created>>,
         \A u \in Threads : \/ pc'[u] = pc[u] /\ pool'[u] = pool[u]
                            \/ pc[u] \notin Held /\ pc'[u] \notin Held
  PROVE  Balanced'
<1>1. \A q \in Pools : Lent(q)' = Lent(q)
  BY DEF Lent
<1> QED
  BY <1>1 DEF IInv, Balanced

-----------------------------------------------------------------------------
(* The inductive invariant, one lemma per action.                          *)

LEMMA InitInv == Init => IInv
<1> SUFFICES ASSUME Init PROVE IInv
  OBVIOUS
<1> USE DEF Init
<1>1. TypeOK
  <2>1. /\ instance \in [Libraries -> Pools \cup {NoPool}] /\ created \subseteq Pools
        /\ pool \in [Threads -> Pools \cup {NoPool}] /\ library \in [Threads -> Libraries]
    BY DEF Libraries
  <2>2. idle \in [Pools -> Nat] /\ abandoned \in [Pools -> Nat]
    OBVIOUS
  <2>3. /\ pc \in [Threads -> {"new"}] /\ result \in [Threads -> {"none"}]
        /\ executed \in [Threads -> BOOLEAN] /\ crashed \in BOOLEAN
    OBVIOUS
  <2>4. calls \in 0..MaxCalls /\ faults \in 0..MaxFaults
    OBVIOUS
  <2> QED
    BY <2>1, <2>2, <2>3, <2>4 DEF TypeOK
<1>2. Registered /\ Announced
  BY DEF Registered, Announced
<1>3. ASSUME NEW t \in Threads PROVE Reliable(t)
  BY DEF Reliable, Held
<1>4. Balanced
  <2>1. \A p \in Pools : Lent(p) = {}
    BY DEF Lent, Held
  <2> QED
    <3>1. \A p \in Pools : Cardinality(Lent(p)) = 0 /\ idle[p] = 0 /\ abandoned[p] = 0
      BY <2>1, FS_EmptySet
    <3> QED
      BY <3>1 DEF Balanced
<1>5. ResultTruthful
  BY DEF ResultTruthful
<1> QED
  BY <1>1, <1>2, <1>3, <1>4, <1>5 DEF IInv

LEMMA ConstructInv == ASSUME IInv, NEW t \in Threads, Construct(t) PROVE IInv'
<1>0. TypeOK /\ Registered /\ Announced /\ ResultTruthful
  BY DEF IInv
<1>a. ASSUME NEW u \in Threads PROVE Reliable(u)
  BY DEF IInv
<1> USE DEF Construct, registry, connections, client, answer, bounds, Goto, At, Count, Fault
<1>1. TypeOK'
  BY <1>0, <1>a DEF TypeOK, Pools
<1>2. Registered'
  BY <1>0, <1>a DEF Registered, TypeOK, Reliable
<1>3. Announced'
  BY <1>0, <1>a DEF Announced, Registers, Registered, TypeOK, Reliable
<1>4. ASSUME NEW u \in Threads PROVE Reliable(u)'
  BY <1>0, <1>a DEF Reliable, TypeOK, Announced, Registers, Registered, Held
<1>5. Balanced'
  BY <1>0, NoneMoved DEF TypeOK, Held
<1>6. ResultTruthful'
  BY <1>0, <1>a DEF ResultTruthful, TypeOK
<1> QED
  BY <1>1, <1>2, <1>3, <1>4, <1>5, <1>6 DEF IInv

LEMMA CheckInv == ASSUME IInv, NEW t \in Threads, Check(t) PROVE IInv'
<1>0. TypeOK /\ Registered /\ Announced /\ ResultTruthful
  BY DEF IInv
<1>a. ASSUME NEW u \in Threads PROVE Reliable(u)
  BY DEF IInv
<1> USE DEF Check, registry, connections, client, answer, bounds, Goto, At, Count, Fault, InstanceWithKeyExist
<1>1. TypeOK'
  BY <1>0, <1>a DEF TypeOK, Pools
<1>2. Registered'
  BY <1>0, <1>a DEF Registered, TypeOK, Reliable
<1>3. Announced'
  BY <1>0, <1>a DEF Announced, Registers, Registered, TypeOK, Reliable
<1>4. ASSUME NEW u \in Threads PROVE Reliable(u)'
  BY <1>0, <1>a DEF Reliable, TypeOK, Announced, Registers, Registered, Held
<1>5. Balanced'
  BY <1>0, NoneMoved DEF TypeOK, Held
<1>6. ResultTruthful'
  BY <1>0, <1>a DEF ResultTruthful, TypeOK
<1> QED
  BY <1>1, <1>2, <1>3, <1>4, <1>5, <1>6 DEF IInv

LEMMA CreateInv == ASSUME IInv, NEW t \in Threads, Create(t) PROVE IInv'
<1>0. TypeOK /\ Registered /\ Announced /\ ResultTruthful
  BY DEF IInv
<1>a. ASSUME NEW u \in Threads PROVE Reliable(u)
  BY DEF IInv
<1> USE DEF Create, registry, connections, client, answer, bounds, Goto, At, Count, Fault
<1>1. TypeOK'
  BY <1>0, <1>a DEF TypeOK, Pools
<1>2. Registered'
  BY <1>0, <1>a DEF Registered, TypeOK, Reliable
<1>3. Announced'
  BY <1>0, <1>a DEF Announced, Registers, Registered, TypeOK, Reliable
<1>4. ASSUME NEW u \in Threads PROVE Reliable(u)'
  BY <1>0, <1>a DEF Reliable, TypeOK, Announced, Registers, Registered, Held
<1>5. Balanced'
  <2>1. \A q \in Pools : Lent(q)' = Lent(q)
    BY <1>0 DEF Lent, Held, TypeOK
  <2>2. <<t, library[t]>> \in Pools \ created
    BY <1>0, <1>a DEF TypeOK, Pools, Reliable
  <2> DEFINE p == <<t, library[t]>>
  <2>3. Balanced /\ created' = created \cup {p} /\ abandoned' = abandoned
        /\ idle' = [idle EXCEPT ![p] = PoolSize]
    BY DEF IInv
  <2>4. \A q \in Pools : idle[q] \in Nat /\ abandoned[q] \in Nat /\ Cardinality(Lent(q)) \in Nat
    BY <1>0, LentFinite DEF TypeOK
  <2>5. /\ idle'[p] = PoolSize /\ \A q \in Pools : q # p => idle'[q] = idle[q]
        /\ p \in Pools \ created
    BY <1>0, <2>2, <2>3 DEF TypeOK
  <2> HIDE DEF p, Create
  <2>6. idle[p] + abandoned[p] + Cardinality(Lent(p)) = 0
    BY <2>3, <2>5 DEF Balanced
  <2>7. abandoned[p] = 0 /\ Cardinality(Lent(p)) = 0
    BY <2>4, <2>5, <2>6
  <2>8. ASSUME NEW q \in Pools
        PROVE  idle'[q] + abandoned'[q] + Cardinality(Lent(q)')
                  = IF q \in created' THEN PoolSize ELSE 0
    <3>1. CASE q = p
      BY <2>1, <2>3, <2>5, <2>7, <3>1
    <3>2. CASE q # p
      BY <2>1, <2>3, <2>5, <3>2 DEF Balanced
    <3> QED
      BY <3>1, <3>2
  <2> QED
    BY <2>8 DEF Balanced
<1>6. ResultTruthful'
  BY <1>0, <1>a DEF ResultTruthful, TypeOK
<1> QED
  BY <1>1, <1>2, <1>3, <1>4, <1>5, <1>6 DEF IInv

LEMMA CannotCreateInv == ASSUME IInv, NEW t \in Threads, CannotCreate(t) PROVE IInv'
<1>0. TypeOK /\ Registered /\ Announced /\ ResultTruthful
  BY DEF IInv
<1>a. ASSUME NEW u \in Threads PROVE Reliable(u)
  BY DEF IInv
<1> USE DEF CannotCreate, registry, connections, client, answer, bounds, Goto, At, Count, Fault
<1>1. TypeOK'
  BY <1>0, <1>a DEF TypeOK, Pools
<1>2. Registered'
  BY <1>0, <1>a DEF Registered, TypeOK, Reliable
<1>3. Announced'
  BY <1>0, <1>a DEF Announced, Registers, Registered, TypeOK, Reliable
<1>4. ASSUME NEW u \in Threads PROVE Reliable(u)'
  BY <1>0, <1>a DEF Reliable, TypeOK, Announced, Registers, Registered, Held
<1>5. Balanced'
  BY <1>0, NoneMoved DEF TypeOK, Held
<1>6. ResultTruthful'
  BY <1>0, <1>a DEF ResultTruthful, TypeOK
<1> QED
  BY <1>1, <1>2, <1>3, <1>4, <1>5, <1>6 DEF IInv

LEMMA RegisterInstanceWithKeyInv == ASSUME IInv, NEW t \in Threads, RegisterInstanceWithKey(t) PROVE IInv'
<1>0. TypeOK /\ Registered /\ Announced /\ ResultTruthful
  BY DEF IInv
<1>a. ASSUME NEW u \in Threads PROVE Reliable(u)
  BY DEF IInv
<1> USE DEF RegisterInstanceWithKey, registry, connections, client, answer, bounds, Goto, At, Count, Fault
<1>n. <<t, library[t]>> # NoPool
  BY <1>0, NoPoolIsNone DEF TypeOK, Pools
<1>1. TypeOK'
  BY <1>0, <1>a DEF TypeOK, Pools
<1>2. Registered'
  BY <1>0, <1>a DEF Registered, TypeOK, Reliable
<1>3. Announced'
  BY <1>0, <1>a, <1>n DEF Announced, Registers, Registered, TypeOK, Reliable
<1>4. ASSUME NEW u \in Threads PROVE Reliable(u)'
  BY <1>0, <1>a, <1>n DEF Reliable, TypeOK, Announced, Registers, Registered, Held
<1>5. Balanced'
  BY <1>0, NoneMoved DEF TypeOK, Held
<1>6. ResultTruthful'
  BY <1>0, <1>a DEF ResultTruthful, TypeOK
<1> QED
  BY <1>1, <1>2, <1>3, <1>4, <1>5, <1>6 DEF IInv

LEMMA TestBorrowsInv == ASSUME IInv, NEW t \in Threads, TestBorrows(t) PROVE IInv'
<1>0. TypeOK /\ Registered /\ Announced /\ ResultTruthful
  BY DEF IInv
<1>a. ASSUME NEW u \in Threads PROVE Reliable(u)
  BY DEF IInv
<1> USE DEF TestBorrows, registry, connections, client, answer, bounds, Goto, At, Count, Fault, Exhausted, Lend
<1>1. TypeOK'
  <2>1. /\ instance' \in [Libraries -> Pools \cup {NoPool}] /\ created' \subseteq Pools
        /\ library' \in [Threads -> Libraries]
    BY <1>0 DEF TypeOK, Pools
  <2>2. idle' \in [Pools -> Nat] /\ abandoned' \in [Pools -> Nat]
    BY <1>0 DEF TypeOK
  <2>3. pc' \in [Threads -> {"new", "check", "create", "register", "test", "testing",
                           "get", "ready", "execute", "insertOne", "quick"}]
    BY <1>0 DEF TypeOK
  <2>4. pool' \in [Threads -> Pools \cup {NoPool}]
    BY <1>0 DEF TypeOK
  <2>5. /\ result' \in [Threads -> {"none", "thrown", "0", "1", "rc"}]
        /\ executed' \in [Threads -> BOOLEAN]
    BY <1>0 DEF TypeOK
  <2>6. crashed' \in BOOLEAN /\ calls' \in 0..MaxCalls /\ faults' \in 0..MaxFaults
    BY <1>0 DEF TypeOK
  <2> QED
    BY <2>1, <2>2, <2>3, <2>4, <2>5, <2>6 DEF TypeOK
<1>2. Registered'
  BY <1>0, <1>a DEF Registered, TypeOK, Reliable
<1>3. Announced'
  BY <1>0, <1>a DEF Announced, Registers, Registered, TypeOK, Reliable
<1>4. ASSUME NEW u \in Threads PROVE Reliable(u)'
  BY <1>0, <1>a DEF Reliable, TypeOK, Announced, Registers, Registered, Held
<1>5. Balanced'
  <2> DEFINE tested == instance[library[t]]
  <2>1. CASE Lend(tested) /\ Goto(t, "testing")
    <3>1. tested \in Pools
      BY <1>0, <1>a DEF TypeOK, Reliable, Registered
    <3>2. pool'[t] = tested /\ \A u \in Threads : u # t => pool'[u] = pool[u]
      BY <1>0 DEF TypeOK
    <3>3. PICK p \in Pools : p = tested
      BY <3>1
    <3>4. pc[t] \notin Held /\ "testing" \in Held /\ pc' = [pc EXCEPT ![t] = "testing"]
          /\ UNCHANGED created /\ Lend(p) /\ pool'[t] = p
      BY <2>1, <3>2, <3>3 DEF Held
    <3> HIDE DEF TestBorrows, Lend, tested
    <3> QED
      BY <3>2, <3>4, Took
  <2>2. CASE Goto(t, "new") /\ UNCHANGED connections
    BY <1>0, <2>2, NoneMoved DEF TypeOK, Held
  <2> QED
    BY <2>1, <2>2
<1>6. ResultTruthful'
  BY <1>0, <1>a DEF ResultTruthful, TypeOK
<1> QED
  BY <1>1, <1>2, <1>3, <1>4, <1>5, <1>6 DEF IInv

LEMMA TestReturnsInv == ASSUME IInv, NEW t \in Threads, TestReturns(t) PROVE IInv'
<1>0. TypeOK /\ Registered /\ Announced /\ ResultTruthful
  BY DEF IInv
<1>a. ASSUME NEW u \in Threads PROVE Reliable(u)
  BY DEF IInv
<1> USE DEF TestReturns, registry, connections, client, answer, bounds, Goto, At, Count, Fault, Unborrow
<1>1. TypeOK'
  <2>1. /\ instance' \in [Libraries -> Pools \cup {NoPool}] /\ created' \subseteq Pools
        /\ library' \in [Threads -> Libraries]
    BY <1>0 DEF TypeOK, Pools
  <2>2. idle' \in [Pools -> Nat] /\ abandoned' \in [Pools -> Nat]
    <3>1. pool[t] \in Pools
      BY <1>0, <1>a DEF Reliable, Held, TypeOK
    <3> QED
      BY <1>0, <3>1 DEF TypeOK
  <2>3. pc' \in [Threads -> {"new", "check", "create", "register", "test", "testing",
                           "get", "ready", "execute", "insertOne", "quick"}]
    BY <1>0 DEF TypeOK
  <2>4. pool' \in [Threads -> Pools \cup {NoPool}]
    BY <1>0 DEF TypeOK
  <2>5. /\ result' \in [Threads -> {"none", "thrown", "0", "1", "rc"}]
        /\ executed' \in [Threads -> BOOLEAN]
    BY <1>0 DEF TypeOK
  <2>6. crashed' \in BOOLEAN /\ calls' \in 0..MaxCalls /\ faults' \in 0..MaxFaults
    BY <1>0 DEF TypeOK
  <2> QED
    BY <2>1, <2>2, <2>3, <2>4, <2>5, <2>6 DEF TypeOK
<1>2. Registered'
  BY <1>0, <1>a DEF Registered, TypeOK, Reliable
<1>3. Announced'
  BY <1>0, <1>a DEF Announced, Registers, Registered, TypeOK, Reliable
<1>4. ASSUME NEW u \in Threads PROVE Reliable(u)'
  BY <1>0, <1>a DEF Reliable, TypeOK, Announced, Registers, Registered, Held
<1>5. Balanced'
  BY LetGo DEF Held
<1>6. ResultTruthful'
  BY <1>0, <1>a DEF ResultTruthful, TypeOK
<1> QED
  BY <1>1, <1>2, <1>3, <1>4, <1>5, <1>6 DEF IInv

LEMMA TestFailsInv == ASSUME IInv, NEW t \in Threads, TestFails(t) PROVE IInv'
<1>0. TypeOK /\ Registered /\ Announced /\ ResultTruthful
  BY DEF IInv
<1>a. ASSUME NEW u \in Threads PROVE Reliable(u)
  BY DEF IInv
<1> USE DEF TestFails, registry, connections, client, answer, bounds, Goto, At, Count, Fault
<1>1. TypeOK'
  <2>1. /\ instance' \in [Libraries -> Pools \cup {NoPool}] /\ created' \subseteq Pools
        /\ library' \in [Threads -> Libraries]
    BY <1>0 DEF TypeOK, Pools
  <2>2. idle' \in [Pools -> Nat] /\ abandoned' \in [Pools -> Nat]
    <3>1. pool[t] \in Pools
      BY <1>0, <1>a DEF Reliable, Held, TypeOK
    <3> QED
      BY <1>0, <3>1 DEF TypeOK
  <2>3. pc' \in [Threads -> {"new", "check", "create", "register", "test", "testing",
                           "get", "ready", "execute", "insertOne", "quick"}]
    BY <1>0 DEF TypeOK
  <2>4. pool' \in [Threads -> Pools \cup {NoPool}]
    BY <1>0 DEF TypeOK
  <2>5. /\ result' \in [Threads -> {"none", "thrown", "0", "1", "rc"}]
        /\ executed' \in [Threads -> BOOLEAN]
    BY <1>0 DEF TypeOK
  <2>6. crashed' \in BOOLEAN /\ calls' \in 0..MaxCalls /\ faults' \in 0..MaxFaults
    BY <1>0 DEF TypeOK
  <2> QED
    BY <2>1, <2>2, <2>3, <2>4, <2>5, <2>6 DEF TypeOK
<1>2. Registered'
  BY <1>0, <1>a DEF Registered, TypeOK, Reliable
<1>3. Announced'
  BY <1>0, <1>a DEF Announced, Registers, Registered, TypeOK, Reliable
<1>4. ASSUME NEW u \in Threads PROVE Reliable(u)'
  BY <1>0, <1>a DEF Reliable, TypeOK, Announced, Registers, Registered, Held
<1>5. Balanced'
  BY LetGo DEF Held
<1>6. ResultTruthful'
  BY <1>0, <1>a DEF ResultTruthful, TypeOK
<1> QED
  BY <1>1, <1>2, <1>3, <1>4, <1>5, <1>6 DEF IInv

LEMMA GetInstanceWithKeyInv == ASSUME IInv, NEW t \in Threads, GetInstanceWithKey(t) PROVE IInv'
<1>0. TypeOK /\ Registered /\ Announced /\ ResultTruthful
  BY DEF IInv
<1>a. ASSUME NEW u \in Threads PROVE Reliable(u)
  BY DEF IInv
<1> USE DEF GetInstanceWithKey, registry, connections, client, answer, bounds, Goto, At, Count, Fault
<1>1. TypeOK'
  BY <1>0, <1>a DEF TypeOK, Pools
<1>2. Registered'
  BY <1>0, <1>a DEF Registered, TypeOK, Reliable
<1>3. Announced'
  BY <1>0, <1>a DEF Announced, Registers, Registered, TypeOK, Reliable
<1>4. ASSUME NEW u \in Threads PROVE Reliable(u)'
  BY <1>0, <1>a DEF Reliable, TypeOK, Announced, Registers, Registered, Held
<1>5. Balanced'
  BY <1>0, NoneMoved DEF TypeOK, Held
<1>6. ResultTruthful'
  BY <1>0, <1>a DEF ResultTruthful, TypeOK
<1> QED
  BY <1>1, <1>2, <1>3, <1>4, <1>5, <1>6 DEF IInv

LEMMA BorrowInv == ASSUME IInv, NEW t \in Threads, Borrow(t) PROVE IInv'
<1>0. TypeOK /\ Registered /\ Announced /\ ResultTruthful
  BY DEF IInv
<1>a. ASSUME NEW u \in Threads PROVE Reliable(u)
  BY DEF IInv
<1> USE DEF Borrow, registry, connections, client, answer, bounds, Goto, At, Count, Fault, Returns, Operations, Lend, Exhausted
<1>1. TypeOK'
  <2>1. /\ instance' \in [Libraries -> Pools \cup {NoPool}] /\ created' \subseteq Pools
        /\ library' \in [Threads -> Libraries]
    BY <1>0 DEF TypeOK, Pools
  <2>2. idle' \in [Pools -> Nat] /\ abandoned' \in [Pools -> Nat]
    BY <1>0 DEF TypeOK
  <2>3. pc' \in [Threads -> {"new", "check", "create", "register", "test", "testing",
                           "get", "ready", "execute", "insertOne", "quick"}]
    BY <1>0 DEF TypeOK
  <2>4. pool' \in [Threads -> Pools \cup {NoPool}]
    BY <1>0 DEF TypeOK
  <2>5. /\ result' \in [Threads -> {"none", "thrown", "0", "1", "rc"}]
        /\ executed' \in [Threads -> BOOLEAN]
    BY <1>0 DEF TypeOK
  <2>6. crashed' \in BOOLEAN /\ calls' \in 0..MaxCalls /\ faults' \in 0..MaxFaults
    BY <1>0 DEF TypeOK
  <2> QED
    BY <2>1, <2>2, <2>3, <2>4, <2>5, <2>6 DEF TypeOK
<1>2. Registered'
  BY <1>0, <1>a DEF Registered, TypeOK, Reliable
<1>3. Announced'
  BY <1>0, <1>a DEF Announced, Registers, Registered, TypeOK, Reliable
<1>4. ASSUME NEW u \in Threads PROVE Reliable(u)'
  BY <1>0, <1>a DEF Reliable, TypeOK, Announced, Registers, Registered, Held
<1>5. Balanced'
  <2>1. PICK p \in Pools : p = pool[t]
    BY <1>0, <1>a DEF TypeOK, Reliable
  <2>2. PICK op \in Operations(library[t]) : pc' = [pc EXCEPT ![t] = op]
    OBVIOUS
  <2>3. pc[t] \notin Held /\ op \in Held /\ UNCHANGED <<pool, created>> /\ Lend(p)
    BY <2>1, <2>2 DEF Held
  <2> HIDE DEF Borrow, Lend
  <2> QED
    BY <2>1, <2>2, <2>3, Took
<1>6. ResultTruthful'
  BY <1>0, <1>a DEF ResultTruthful, TypeOK
<1> QED
  BY <1>1, <1>2, <1>3, <1>4, <1>5, <1>6 DEF IInv

LEMMA UnavailableInv == ASSUME IInv, NEW t \in Threads, Unavailable(t) PROVE IInv'
<1>0. TypeOK /\ Registered /\ Announced /\ ResultTruthful
  BY DEF IInv
<1>a. ASSUME NEW u \in Threads PROVE Reliable(u)
  BY DEF IInv
<1> USE DEF Unavailable, registry, connections, client, answer, bounds, Goto, At, Count, Fault, Returns
<1>1. TypeOK'
  BY <1>0, <1>a DEF TypeOK, Pools
<1>2. Registered'
  BY <1>0, <1>a DEF Registered, TypeOK, Reliable
<1>3. Announced'
  BY <1>0, <1>a DEF Announced, Registers, Registered, TypeOK, Reliable
<1>4. ASSUME NEW u \in Threads PROVE Reliable(u)'
  BY <1>0, <1>a DEF Reliable, TypeOK, Announced, Registers, Registered, Held
<1>5. Balanced'
  BY <1>0, NoneMoved DEF TypeOK, Held
<1>6. ResultTruthful'
  BY <1>0, <1>a DEF ResultTruthful, TypeOK
<1> QED
  BY <1>1, <1>2, <1>3, <1>4, <1>5, <1>6 DEF IInv

LEMMA runQueryInv == ASSUME IInv, NEW t \in Threads, runQuery(t) PROVE IInv'
<1>0. TypeOK /\ Registered /\ Announced /\ ResultTruthful
  BY DEF IInv
<1>a. ASSUME NEW u \in Threads PROVE Reliable(u)
  BY DEF IInv
<1> USE DEF runQuery, registry, connections, client, answer, bounds, Goto, At, Count, Fault
<1>1. TypeOK'
  BY <1>0, <1>a DEF TypeOK, Pools
<1>2. Registered'
  BY <1>0, <1>a DEF Registered, TypeOK, Reliable
<1>3. Announced'
  BY <1>0, <1>a DEF Announced, Registers, Registered, TypeOK, Reliable
<1>4. ASSUME NEW u \in Threads PROVE Reliable(u)'
  BY <1>0, <1>a DEF Reliable, TypeOK, Announced, Registers, Registered, Held
<1>5. Balanced'
  BY <1>0, NoneMoved DEF TypeOK, Held
<1>6. ResultTruthful'
  BY <1>0, <1>a DEF ResultTruthful, TypeOK
<1> QED
  BY <1>1, <1>2, <1>3, <1>4, <1>5, <1>6 DEF IInv

LEMMA SucceededInv == ASSUME IInv, NEW t \in Threads, Succeeded(t) PROVE IInv'
<1>0. TypeOK /\ Registered /\ Announced /\ ResultTruthful
  BY DEF IInv
<1>a. ASSUME NEW u \in Threads PROVE Reliable(u)
  BY DEF IInv
<1> USE DEF Succeeded, registry, connections, client, answer, bounds, Goto, At, Count, Fault, Returns, Unborrow
<1>1. TypeOK'
  <2>1. /\ instance' \in [Libraries -> Pools \cup {NoPool}] /\ created' \subseteq Pools
        /\ library' \in [Threads -> Libraries]
    BY <1>0 DEF TypeOK, Pools
  <2>2. idle' \in [Pools -> Nat] /\ abandoned' \in [Pools -> Nat]
    <3>1. pool[t] \in Pools
      BY <1>0, <1>a DEF Reliable, Held, TypeOK
    <3> QED
      BY <1>0, <3>1 DEF TypeOK
  <2>3. pc' \in [Threads -> {"new", "check", "create", "register", "test", "testing",
                           "get", "ready", "execute", "insertOne", "quick"}]
    BY <1>0 DEF TypeOK
  <2>4. pool' \in [Threads -> Pools \cup {NoPool}]
    BY <1>0 DEF TypeOK
  <2>5. /\ result' \in [Threads -> {"none", "thrown", "0", "1", "rc"}]
        /\ executed' \in [Threads -> BOOLEAN]
    BY <1>0 DEF TypeOK
  <2>6. crashed' \in BOOLEAN /\ calls' \in 0..MaxCalls /\ faults' \in 0..MaxFaults
    BY <1>0 DEF TypeOK
  <2> QED
    BY <2>1, <2>2, <2>3, <2>4, <2>5, <2>6 DEF TypeOK
<1>2. Registered'
  BY <1>0, <1>a DEF Registered, TypeOK, Reliable
<1>3. Announced'
  BY <1>0, <1>a DEF Announced, Registers, Registered, TypeOK, Reliable
<1>4. ASSUME NEW u \in Threads PROVE Reliable(u)'
  BY <1>0, <1>a DEF Reliable, TypeOK, Announced, Registers, Registered, Held
<1>5. Balanced'
  BY LetGo DEF Held
<1>6. ResultTruthful'
  BY <1>0, <1>a DEF ResultTruthful, TypeOK
<1> QED
  BY <1>1, <1>2, <1>3, <1>4, <1>5, <1>6 DEF IInv

LEMMA ExceptionInv == ASSUME IInv, NEW t \in Threads, Exception(t) PROVE IInv'
<1>0. TypeOK /\ Registered /\ Announced /\ ResultTruthful
  BY DEF IInv
<1>a. ASSUME NEW u \in Threads PROVE Reliable(u)
  BY DEF IInv
<1> USE DEF Exception, registry, connections, client, answer, bounds, Goto, At, Count, Fault, Caught, Returns, Unborrow
<1>1. TypeOK'
  <2>1. /\ instance' \in [Libraries -> Pools \cup {NoPool}] /\ created' \subseteq Pools
        /\ library' \in [Threads -> Libraries]
    BY <1>0 DEF TypeOK, Pools
  <2>2. idle' \in [Pools -> Nat] /\ abandoned' \in [Pools -> Nat]
    <3>1. pool[t] \in Pools
      BY <1>0, <1>a DEF Reliable, Held, TypeOK
    <3> QED
      BY <1>0, <3>1 DEF TypeOK
  <2>3. pc' \in [Threads -> {"new", "check", "create", "register", "test", "testing",
                           "get", "ready", "execute", "insertOne", "quick"}]
    BY <1>0 DEF TypeOK
  <2>4. pool' \in [Threads -> Pools \cup {NoPool}]
    BY <1>0 DEF TypeOK
  <2>5. /\ result' \in [Threads -> {"none", "thrown", "0", "1", "rc"}]
        /\ executed' \in [Threads -> BOOLEAN]
    BY <1>0 DEF TypeOK
  <2>6. crashed' \in BOOLEAN /\ calls' \in 0..MaxCalls /\ faults' \in 0..MaxFaults
    BY <1>0 DEF TypeOK
  <2> QED
    BY <2>1, <2>2, <2>3, <2>4, <2>5, <2>6 DEF TypeOK
<1>2. Registered'
  BY <1>0, <1>a DEF Registered, TypeOK, Reliable
<1>3. Announced'
  BY <1>0, <1>a DEF Announced, Registers, Registered, TypeOK, Reliable
<1>4. ASSUME NEW u \in Threads PROVE Reliable(u)'
  BY <1>0, <1>a DEF Reliable, TypeOK, Announced, Registers, Registered, Held
<1>5. Balanced'
  BY LetGo DEF Held
<1>6. ResultTruthful'
  BY <1>0, <1>a DEF ResultTruthful, TypeOK
<1> QED
  BY <1>1, <1>2, <1>3, <1>4, <1>5, <1>6 DEF IInv

LEMMA QuickDoneInv == ASSUME IInv, NEW t \in Threads, QuickDone(t) PROVE IInv'
<1>0. TypeOK /\ Registered /\ Announced /\ ResultTruthful
  BY DEF IInv
<1>a. ASSUME NEW u \in Threads PROVE Reliable(u)
  BY DEF IInv
<1> USE DEF QuickDone, registry, connections, client, answer, bounds, Goto, At, Count, Fault, Returns, Unborrow
<1>1. TypeOK'
  <2>1. /\ instance' \in [Libraries -> Pools \cup {NoPool}] /\ created' \subseteq Pools
        /\ library' \in [Threads -> Libraries]
    BY <1>0 DEF TypeOK, Pools
  <2>2. idle' \in [Pools -> Nat] /\ abandoned' \in [Pools -> Nat]
    <3>1. pool[t] \in Pools
      BY <1>0, <1>a DEF Reliable, Held, TypeOK
    <3> QED
      BY <1>0, <3>1 DEF TypeOK
  <2>3. pc' \in [Threads -> {"new", "check", "create", "register", "test", "testing",
                           "get", "ready", "execute", "insertOne", "quick"}]
    BY <1>0 DEF TypeOK
  <2>4. pool' \in [Threads -> Pools \cup {NoPool}]
    BY <1>0 DEF TypeOK
  <2>5. /\ result' \in [Threads -> {"none", "thrown", "0", "1", "rc"}]
        /\ executed' \in [Threads -> BOOLEAN]
    BY <1>0 DEF TypeOK
  <2>6. crashed' \in BOOLEAN /\ calls' \in 0..MaxCalls /\ faults' \in 0..MaxFaults
    BY <1>0 DEF TypeOK
  <2> QED
    BY <2>1, <2>2, <2>3, <2>4, <2>5, <2>6 DEF TypeOK
<1>2. Registered'
  BY <1>0, <1>a DEF Registered, TypeOK, Reliable
<1>3. Announced'
  BY <1>0, <1>a DEF Announced, Registers, Registered, TypeOK, Reliable
<1>4. ASSUME NEW u \in Threads PROVE Reliable(u)'
  BY <1>0, <1>a DEF Reliable, TypeOK, Announced, Registers, Registered, Held
<1>5. Balanced'
  BY LetGo DEF Held
<1>6. ResultTruthful'
  BY <1>0, <1>a DEF ResultTruthful, TypeOK
<1> QED
  BY <1>1, <1>2, <1>3, <1>4, <1>5, <1>6 DEF IInv

LEMMA QuickFailsInv == ASSUME IInv, NEW t \in Threads, QuickFails(t) PROVE IInv'
<1>0. TypeOK /\ Registered /\ Announced /\ ResultTruthful
  BY DEF IInv
<1>a. ASSUME NEW u \in Threads PROVE Reliable(u)
  BY DEF IInv
<1> USE DEF QuickFails, registry, connections, client, answer, bounds, Goto, At, Count, Fault, Returns, Unborrow
<1>1. TypeOK'
  <2>1. /\ instance' \in [Libraries -> Pools \cup {NoPool}] /\ created' \subseteq Pools
        /\ library' \in [Threads -> Libraries]
    BY <1>0 DEF TypeOK, Pools
  <2>2. idle' \in [Pools -> Nat] /\ abandoned' \in [Pools -> Nat]
    <3>1. pool[t] \in Pools
      BY <1>0, <1>a DEF Reliable, Held, TypeOK
    <3> QED
      BY <1>0, <3>1 DEF TypeOK
  <2>3. pc' \in [Threads -> {"new", "check", "create", "register", "test", "testing",
                           "get", "ready", "execute", "insertOne", "quick"}]
    BY <1>0 DEF TypeOK
  <2>4. pool' \in [Threads -> Pools \cup {NoPool}]
    BY <1>0 DEF TypeOK
  <2>5. /\ result' \in [Threads -> {"none", "thrown", "0", "1", "rc"}]
        /\ executed' \in [Threads -> BOOLEAN]
    BY <1>0 DEF TypeOK
  <2>6. crashed' \in BOOLEAN /\ calls' \in 0..MaxCalls /\ faults' \in 0..MaxFaults
    BY <1>0 DEF TypeOK
  <2> QED
    BY <2>1, <2>2, <2>3, <2>4, <2>5, <2>6 DEF TypeOK
<1>2. Registered'
  BY <1>0, <1>a DEF Registered, TypeOK, Reliable
<1>3. Announced'
  BY <1>0, <1>a DEF Announced, Registers, Registered, TypeOK, Reliable
<1>4. ASSUME NEW u \in Threads PROVE Reliable(u)'
  BY <1>0, <1>a DEF Reliable, TypeOK, Announced, Registers, Registered, Held
<1>5. Balanced'
  BY LetGo DEF Held
<1>6. ResultTruthful'
  BY <1>0, <1>a DEF ResultTruthful, TypeOK
<1> QED
  BY <1>1, <1>2, <1>3, <1>4, <1>5, <1>6 DEF IInv

LEMMA DataRaceInv == IInv /\ DataRace => IInv'
BY DEF IInv, DataRace, registry, connections, client, answer, bounds, TypeOK, Registered, Announced,
       Registers, Reliable, Balanced, Lent, ResultTruthful

LEMMA StutterInv == IInv /\ UNCHANGED vars => IInv'
BY DEF IInv, vars, registry, connections, client, answer, bounds, TypeOK, Registered, Announced,
       Registers, Reliable, Balanced, Lent, ResultTruthful

LEMMA StepInv == IInv /\ [Next]_vars => IInv'
<1> SUFFICES ASSUME IInv, [Next]_vars PROVE IInv'
  OBVIOUS
<1>1. CASE UNCHANGED vars
  BY <1>1, StutterInv
<1>2. CASE DataRace
  BY <1>2, DataRaceInv
<1>3. ASSUME NEW t \in Threads, Constructor(t) PROVE IInv'
  BY <1>3, ConstructInv, CheckInv, CreateInv, CannotCreateInv, RegisterInstanceWithKeyInv,
     TestBorrowsInv, TestReturnsInv, TestFailsInv, GetInstanceWithKeyInv DEF Constructor
<1>4. ASSUME NEW t \in Threads, Operation(t) PROVE IInv'
  BY <1>4, BorrowInv, UnavailableInv, runQueryInv, SucceededInv, ExceptionInv, QuickDoneInv,
     QuickFailsInv DEF Operation
<1> QED
  BY <1>1, <1>2, <1>3, <1>4 DEF Next

-----------------------------------------------------------------------------
(* Type correctness of every reachable state.                              *)
THEOREM TypeCorrect == Spec => []TypeOK
<1>1. IInv => TypeOK
  BY DEF IInv
<1> QED
  BY <1>1, InitInv, StepInv, PTL DEF Spec

(* Every constructor that returns leaves a client with an open pool of its *)
(* own library, whoever else registers pools under the same key.           *)
THEOREM ClientsAreUsable == Spec => []ClientsUsable
<1>1. IInv => ClientsUsable
  BY DEF IInv, ClientsUsable, Reliable, Held
<1> QED
  BY <1>1, InitInv, StepInv, PTL DEF Spec

(* No path through a call, and no failed test, loses a connection.         *)
THEOREM ConnectionsAreReturned == Spec => []ConnectionsReturned
<1>1. IInv => ConnectionsReturned
  BY DEF IInv, ConnectionsReturned, Balanced, TypeOK
<1> QED
  BY <1>1, InitInv, StepInv, PTL DEF Spec

(* "Succeeded" is true, and a call that threw has executed nothing.        *)
THEOREM ResultsAreTruthful == Spec => []ResultTruthful
<1>1. IInv => ResultTruthful
  BY DEF IInv
<1> QED
  BY <1>1, InitInv, StepInv, PTL DEF Spec
=============================================================================
