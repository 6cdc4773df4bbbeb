--------------------------- MODULE ConnectionPool ---------------------------
(***************************************************************************)
(* The com::eztier connection pool every SQL and Mongo client of the       *)
(* repository borrows from.  The pool is a library outside the repository: *)
(* its operations are modelled from how src/ builds and uses it.  A client *)
(* keeps the borrowed connection in a shared_ptr, so a client that returns *)
(* without unborrow leaves the connection listed as borrowed and owned by  *)
(* nobody; the pool takes such a connection back, and replaces it with a   *)
(* fresh one, the next time it runs dry.  borrow never waits.              *)
(***************************************************************************)
EXTENDS Integers, Sequences, FiniteSets

CONSTANTS
    Clients,   \* the callers of borrow and unborrow
    Conns,     \* the slots of the pool: a replaced connection keeps its slot
    NoConn     \* the null shared_ptr

ASSUME PoolAssumption == /\ IsFiniteSet(Conns)
                         /\ NoConn \notin Conns

VARIABLES
    free,      \* the deque of idle connections
    borrowed,  \* the set of connections lent out
    held,      \* the connection each client's shared_ptr points to
    dead       \* connections whose server side is gone

poolVars == <<free, borrowed, held, dead>>

Idle == {free[i] : i \in DOMAIN free}

(* Lent out, and no client points to it any more (shared_ptr::unique).     *)
Abandoned == {c \in borrowed : \A cl \in Clients : held[cl] # c}

(* createPool opens every connection before the pool is registered.        *)
Init == /\ free \in [1..Cardinality(Conns) -> Conns]
        /\ \A i, j \in DOMAIN free : free[i] = free[j] => i = j
        /\ Idle = Conns
        /\ borrowed = {}
        /\ held = [cl \in Clients |-> NoConn]
        /\ dead = {}

BorrowFree(cl) ==
    /\ free # << >>
    /\ free' = Tail(free)
    /\ borrowed' = borrowed \cup {Head(free)}
    /\ held' = [held EXCEPT ![cl] = Head(free)]
    /\ UNCHANGED dead

(* The pool is dry: a new connection takes the place of an abandoned one.  *)
BorrowAbandoned(cl) ==
    /\ free = << >>
    /\ \E c \in Abandoned :
          /\ held' = [held EXCEPT ![cl] = c]
          /\ dead' = dead \ {c}
    /\ UNCHANGED <<free, borrowed>>

Borrow(cl) == /\ held[cl] = NoConn
              /\ BorrowFree(cl) \/ BorrowAbandoned(cl)

(* borrow throws ConnectionUnavailable: nothing idle, nothing to replace.  *)
Exhausted == free = << >> /\ Abandoned = {}

(* Variant that puts the connection at the front of the deque.             *)
UnborrowToFront(cl) == /\ held[cl] # NoConn
                       /\ free' = <<held[cl]>> \o free
                       /\ borrowed' = borrowed \ {held[cl]}
                       /\ held' = [held EXCEPT ![cl] = NoConn]
                       /\ UNCHANGED dead

Unborrow(cl) == /\ held[cl] # NoConn
                /\ free' = Append(free, held[cl])
                /\ borrowed' = borrowed \ {held[cl]}
                /\ held' = [held EXCEPT ![cl] = NoConn]
                /\ UNCHANGED dead

(* The client's shared_ptr goes out of scope without unborrow.             *)
Abandon(cl) == /\ held[cl] # NoConn
               /\ held' = [held EXCEPT ![cl] = NoConn]
               /\ UNCHANGED <<free, borrowed, dead>>

(* The same, for a client that learnt its connection broke.                *)
AbandonBroken(cl) == /\ held[cl] # NoConn
                     /\ dead' = dead \cup {held[cl]}
                     /\ held' = [held EXCEPT ![cl] = NoConn]
                     /\ UNCHANGED <<free, borrowed>>

(* The server drops a connection nobody is using.                          *)
BreakIdle == /\ \E c \in Idle \ dead : dead' = dead \cup {c}
             /\ UNCHANGED <<free, borrowed, held>>

Next == \/ \E cl \in Clients : \/ Borrow(cl)
                               \/ Unborrow(cl)
                               \/ Abandon(cl)
                               \/ AbandonBroken(cl)
        \/ BreakIdle

Spec == Init /\ [][Next]_poolVars

-----------------------------------------------------------------------------
PoolTypeOK == /\ free \in Seq(Conns)
              /\ borrowed \in SUBSET Conns
              /\ held \in [Clients -> Conns \cup {NoConn}]
              /\ dead \in SUBSET Conns

(* No connection is lost, listed twice, or idle and lent out at once, and  *)
(* no two clients talk over the same connection: what every client of the  *)
(* pool relies on while error paths leave connections behind.              *)
PoolConserved ==
    /\ Idle \cup borrowed = Conns
    /\ Idle \cap borrowed = {}
    /\ \A i, j \in DOMAIN free : free[i] = free[j] => i = j
    /\ \A cl \in Clients : held[cl] # NoConn => held[cl] \in borrowed
    /\ \A c1, c2 \in Clients : held[c1] = held[c2] /\ held[c1] # NoConn => c1 = c2

(* Clients that return early do not use the pool up: while fewer clients   *)
(* hold a connection than the pool has, borrow finds one.                  *)
CapacityKept ==
    Cardinality({cl \in Clients : held[cl] # NoConn}) < Cardinality(Conns)
      => ~Exhausted
=============================================================================
