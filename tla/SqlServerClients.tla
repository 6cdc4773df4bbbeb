--------------------------- MODULE SqlServerClients ---------------------------
(***************************************************************************)
(* The clients of SQL Server, MsSqlBaseClient (library "tds") and          *)
(* MsSqlDbLibBaseClient ("dblib"), and the container their connection      *)
(* pools are kept in.  A constructor looks for the pool under its key,     *)
(* creates and registers it if there is none, and then fetches it; the     *)
(* container has no lock, so constructors of several threads interleave.   *)
(*                                                                         *)
(* All clients use one key.  A pool is named by the thread that created it *)
(* and its library; a thread that has registered a pool finds one, so it   *)
(* never creates a second.                                                 *)
(***************************************************************************)
EXTENDS Naturals, FiniteSets

CONSTANTS
    Threads,
    PoolSize,
    Debug,        \* is it a build with DEBUG, whose constructors test a new pool?
    NoPool,       \* nullptr
    MaxCalls,     \* bound: constructors and calls
    MaxFaults     \* bound: failures of a connection or of a statement

ASSUME ClientsAssumption == /\ PoolSize \in Nat \ {0} /\ Debug \in BOOLEAN
                            /\ MaxCalls \in Nat /\ MaxFaults \in Nat
                            /\ IsFiniteSet(Threads)
                            /\ NoPool \notin Threads \X {"tds", "dblib"}

VARIABLES
    instance,     \* per library, the pool registered under the key
    created,      \* pools created so far
    idle,         \* idle connections of each pool
    abandoned,    \* its connections that were dropped without unborrow
    pc,
    library,      \* the library of the client a thread has or constructs
    pool,         \* the pool that client holds
    result,       \* what the last call returned or threw
    executed,     \* history: the server has executed the statement of the last call
    crashed,      \* the process has ended
    calls, faults

registry == <<instance, created>>
client == <<library, pool>>
answer == <<result, executed>>
bounds == <<calls, faults>>
connections == <<idle, abandoned>>
vars == <<registry, connections, pc, client, answer, crashed, bounds>>

Libraries == {"tds", "dblib"}
Pools == Threads \X Libraries
Held == {"testing", "execute", "insertOne", "quick"}     \* with a connection in hand
Lent(p) == {t \in Threads : pc[t] \in Held /\ pool[t] = p}

Init == /\ instance = [l \in Libraries |-> NoPool]
        /\ created = {}
        /\ idle = [p \in Pools |-> 0] /\ abandoned = [p \in Pools |-> 0]
        /\ pc = [t \in Threads |-> "new"]
        /\ library = [t \in Threads |-> "tds"]
        /\ pool = [t \in Threads |-> NoPool]
        /\ result = [t \in Threads |-> "none"]
        /\ executed = [t \in Threads |-> FALSE]
        /\ crashed = FALSE
        /\ calls = 0 /\ faults = 0

At(t, label) == ~crashed /\ pc[t] = label
Goto(t, label) == pc' = [pc EXCEPT ![t] = label]
Count == calls < MaxCalls /\ calls' = calls + 1
Fault == faults < MaxFaults /\ faults' = faults + 1

(* pool->borrow() and pool->unborrow(): a pool without an idle connection  *)
(* replaces one that nobody holds any more.                                *)
Exhausted(p) == idle[p] = 0 /\ abandoned[p] = 0
Lend(p) == /\ ~Exhausted(p)
           /\ IF idle[p] > 0
                THEN idle' = [idle EXCEPT ![p] = @ - 1] /\ UNCHANGED abandoned
                ELSE abandoned' = [abandoned EXCEPT ![p] = @ - 1] /\ UNCHANGED idle
Unborrow(t) == idle' = [idle EXCEPT ![pool[t]] = @ + 1] /\ UNCHANGED abandoned

-----------------------------------------------------------------------------
(* The constructors.                                                       *)

Construct(t) ==
    /\ pc[t] \in {"new", "ready"} /\ ~crashed
    /\ Count
    /\ \E l \in Libraries : library' = [library EXCEPT ![t] = l]
    /\ pool' = [pool EXCEPT ![t] = NoPool]
    /\ Goto(t, "check")
    /\ UNCHANGED <<registry, connections, answer, crashed, faults>>

InstanceWithKeyExist(l) == instance[l] # NoPool

Check(t) ==
    /\ At(t, "check")
    /\ Goto(t, IF InstanceWithKeyExist(library[t]) THEN "get" ELSE "create")
    /\ UNCHANGED <<registry, connections, client, answer, crashed, bounds>>

(* The pool opens all its connections.                                     *)
Create(t) ==
    /\ At(t, "create")
    /\ created' = created \cup {<<t, library[t]>>}
    /\ idle' = [idle EXCEPT ![<<t, library[t]>>] = PoolSize]
    /\ Goto(t, "register")
    /\ UNCHANGED <<instance, abandoned, client, answer, crashed, bounds>>

(* Variant that swallows the error.                                        *)
CannotCreateIgnored(t) ==
    /\ At(t, "create")
    /\ Fault
    /\ Goto(t, "get")
    /\ UNCHANGED <<registry, connections, client, answer, crashed, calls>>

(* "Cannot create MSSQL pool": there is no client.                         *)
CannotCreate(t) ==
    /\ At(t, "create")
    /\ Fault
    /\ Goto(t, "new")
    /\ UNCHANGED <<registry, connections, client, answer, crashed, calls>>

RegisterInstanceWithKey(t) ==
    /\ At(t, "register")
    /\ instance' = [instance EXCEPT ![library[t]] = <<t, library[t]>>]
    /\ Goto(t, IF Debug THEN "test" ELSE "get")
    /\ UNCHANGED <<created, connections, client, answer, crashed, bounds>>

(* testPool of a build with DEBUG.  Others may have borrowed all of the     *)
(* pool, which is registered already; a test that fails keeps the          *)
(* connection.  Either way there is no client.                             *)
TestBorrows(t) ==
    LET tested == instance[library[t]] IN
    /\ At(t, "test")
    /\ pool' = [pool EXCEPT ![t] = tested]
    /\ \/ Lend(tested) /\ Goto(t, "testing")
       \/ Exhausted(tested) /\ Goto(t, "new") /\ UNCHANGED connections
    /\ UNCHANGED <<registry, library, answer, crashed, bounds>>

TestReturns(t) ==
    /\ At(t, "testing")
    /\ Unborrow(t)
    /\ Goto(t, "get")
    /\ UNCHANGED <<registry, client, answer, crashed, bounds>>

TestFails(t) ==
    /\ At(t, "testing")
    /\ Fault
    /\ abandoned' = [abandoned EXCEPT ![pool[t]] = @ + 1]
    /\ Goto(t, "new")
    /\ UNCHANGED <<registry, idle, client, answer, crashed, calls>>

GetInstanceWithKey(t) ==
    /\ At(t, "get")
    /\ pool' = [pool EXCEPT ![t] = instance[library[t]]]
    /\ Goto(t, "ready")
    /\ UNCHANGED <<registry, connections, library, answer, crashed, bounds>>

(* An insertion into the map while another thread inserts or looks.        *)
DataRace ==
    /\ \E t, u \in Threads : /\ t # u /\ At(t, "register")
                             /\ pc[u] \in {"check", "register", "test", "get"}
    /\ crashed' = TRUE
    /\ UNCHANGED <<registry, connections, pc, client, answer, bounds>>

-----------------------------------------------------------------------------
(* The calls.                                                              *)

Operations(l) == IF l = "tds" THEN {"execute", "insertOne"} ELSE {"quick"}

Returns(t, r) == result' = [result EXCEPT ![t] = r]

Borrow(t) ==
    /\ At(t, "ready") /\ Lend(pool[t])
    /\ Count
    /\ \E op \in Operations(library[t]) : Goto(t, op)
    /\ Returns(t, "none") /\ executed' = [executed EXCEPT ![t] = FALSE]
    /\ UNCHANGED <<registry, client, crashed, faults>>

(* ConnectionUnavailable: quick prints it, the others let it pass.  quick  *)
(* has no return statement at its end, and returns any number.             *)
Unavailable(t) ==
    /\ At(t, "ready") /\ Exhausted(pool[t])
    /\ Count
    /\ executed' = [executed EXCEPT ![t] = FALSE]
    /\ \E r \in (IF library[t] = "tds" THEN {"thrown"} ELSE {"0", "rc"}) : Returns(t, r)
    /\ UNCHANGED <<registry, connections, pc, client, crashed, faults>>

(* runQuery, and runQueryJson by it: the borrowed connection is dropped,   *)
(* and a null pointer dereferenced.                                        *)
runQuery(t) ==
    /\ At(t, "ready") /\ library[t] = "tds" /\ ~Exhausted(pool[t])
    /\ Count
    /\ crashed' = TRUE
    /\ UNCHANGED <<registry, connections, pc, client, answer, faults>>

(* execute and insertOne.                                                  *)
Succeeded(t) ==
    /\ ~crashed /\ pc[t] \in {"execute", "insertOne"}
    /\ executed' = [executed EXCEPT ![t] = TRUE]
    /\ Returns(t, "1")
    /\ Unborrow(t)
    /\ Goto(t, "ready")
    /\ UNCHANGED <<registry, client, crashed, bounds>>

(* TDSPP::Exception: the server refused the statement, or the connection   *)
(* was lost, perhaps after the server had executed it.  Two variants: one  *)
(* leaves the try block only to go on, one keeps the connection.           *)
Caught(t, r) ==
    /\ ~crashed /\ pc[t] \in {"execute", "insertOne"}
    /\ Fault
    /\ \E b \in BOOLEAN : executed' = [executed EXCEPT ![t] = b]
    /\ Returns(t, r)
    /\ Goto(t, "ready")
    /\ UNCHANGED <<registry, client, crashed, calls>>

ExceptionGoesOn(t) == Caught(t, "1") /\ Unborrow(t)
ExceptionKeepsConnection(t) == Caught(t, "0") /\ UNCHANGED connections
Exception(t) == Caught(t, "0") /\ Unborrow(t)

(* quick; an error code is returned from inside the try block, an          *)
(* exception is printed and ends like success, with any number.            *)
QuickDone(t) ==
    /\ At(t, "quick")
    /\ executed' = [executed EXCEPT ![t] = TRUE]
    /\ \E r \in {"0", "rc"} : Returns(t, r)
    /\ Unborrow(t)
    /\ Goto(t, "ready")
    /\ UNCHANGED <<registry, client, crashed, bounds>>

QuickFails(t) ==
    /\ At(t, "quick")
    /\ Fault
    /\ \E r \in {"0", "rc"} : Returns(t, r)
    /\ \E b \in BOOLEAN : executed' = [executed EXCEPT ![t] = b]
    /\ Unborrow(t)
    /\ Goto(t, "ready")
    /\ UNCHANGED <<registry, client, crashed, calls>>

-----------------------------------------------------------------------------
Constructor(t) == \/ Construct(t) \/ Check(t) \/ Create(t) \/ CannotCreate(t)
                  \/ RegisterInstanceWithKey(t) \/ GetInstanceWithKey(t)
                  \/ TestBorrows(t) \/ TestReturns(t) \/ TestFails(t)

Operation(t) == \/ Borrow(t) \/ Unavailable(t) \/ runQuery(t) \/ Succeeded(t)
                \/ Exception(t) \/ QuickDone(t) \/ QuickFails(t)

Next == DataRace \/ \E t \in Threads : Constructor(t) \/ Operation(t)

Spec == Init /\ [][Next]_vars

-----------------------------------------------------------------------------
(* Properties.                                                             *)

TypeOK ==
    /\ instance \in [Libraries -> Pools \cup {NoPool}]
    /\ created \subseteq Pools
    /\ idle \in [Pools -> Nat] /\ abandoned \in [Pools -> Nat]
    /\ pc \in [Threads -> {"new", "check", "create", "register", "test", "testing",
                           "get", "ready", "execute", "insertOne", "quick"}]
    /\ library \in [Threads -> Libraries]
    /\ pool \in [Threads -> Pools \cup {NoPool}]
    /\ result \in [Threads -> {"none", "thrown", "0", "1", "rc"}]
    /\ executed \in [Threads -> BOOLEAN]
    /\ crashed \in BOOLEAN
    /\ calls \in 0..MaxCalls /\ faults \in 0..MaxFaults

(* Whichever constructor wins the race for the key, every constructor that *)
(* returns leaves a client with a pool whose connections are open, and     *)
(* that connects through the client's own library.                         *)
ClientsUsable ==
    \A t \in Threads : pc[t] \in {"ready", "execute", "insertOne", "quick"}
                         => pool[t] \in created /\ pool[t][2] = library[t]

(* No way out of a call makes a connection vanish, or returns it twice or  *)
(* to another pool: it is idle, lent to one thread, or has been left       *)
(* behind, as by a test that failed, where the pool can tell that nobody   *)
(* holds it and replaces it.                                               *)
ConnectionsReturned ==
    \A p \in created : idle[p] + abandoned[p] + Cardinality(Lent(p)) = PoolSize

(* "Succeeded" is true, and a call that threw has executed nothing.  (0,   *)
(* message) leaves it open: the answer may have been lost.                 *)
ResultTruthful ==
    \A t \in Threads : /\ result[t] = "1" => executed[t]
                       /\ result[t] = "thrown" => ~executed[t]
-----------------------------------------------------------------------------
(* The inductive invariant behind the safety properties: what a thread may *)
(* rely on where it is, and where the connections of every pool are.       *)

Registered == \A l \in Libraries :
                 instance[l] # NoPool => instance[l] \in created /\ instance[l][2] = l

Registers(t, l) == pc[t] = "register" /\ library[t] = l

Announced == \A t \in Threads, l \in Libraries :
                <<t, l>> \in created => instance[l] # NoPool \/ Registers(t, l)

Reliable(t) ==
    /\ pc[t] = "create" => <<t, library[t]>> \notin created
    /\ pc[t] = "register" => <<t, library[t]>> \in created
    /\ pc[t] \in {"test", "testing", "get"} => instance[library[t]] # NoPool
    /\ pc[t] \in Held \cup {"ready"} => pool[t] \in created /\ pool[t][2] = library[t]

Balanced == \A p \in Pools :
               idle[p] + abandoned[p] + Cardinality(Lent(p)) = IF p \in created THEN PoolSize ELSE 0

IInv == /\ TypeOK
        /\ Registered /\ Announced
        /\ \A t \in Threads : Reliable(t)
        /\ Balanced
        /\ ResultTruthful
=============================================================================
