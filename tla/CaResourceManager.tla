------------------------- MODULE CaResourceManager -------------------------
(***************************************************************************)
(* store::storage::cassandra::CaResourceManager over CassandraBaseClient:  *)
(* the managers of one process, one for each purpose, each polling on a    *)
(* thread of its own.  A poll asks for the last row its purpose has        *)
(* processed, then for the first modification after it, gives that to the  *)
(* handler of the purpose and logs it as processed.                        *)
(*                                                                         *)
(* The answers are taken by two callbacks kept in global variables, which  *)
(* every manager sets when its poll begins: a thread calls whatever is in  *)
(* them when its answer arrives, be it another manager's.  A query that    *)
(* fails ends the process (print_error rethrows nothing).  Tables are      *)
(* external: modifications are read in the order of their time uuids,      *)
(* processed rows in the reverse order, as the two queries need it.        *)
(***************************************************************************)
EXTENDS Integers, FiniteSets

CONSTANTS
    Managers,    \* each has its own purpose
    MaxRows,     \* bound: modifications
    MaxCrashes,  \* bound: failed queries and other ends of the process
    MaxCount     \* bound: how far calls of a handler are counted

ASSUME ManagerAssumption == /\ MaxRows \in Nat /\ MaxCrashes \in Nat
                            /\ MaxCount \in Nat \ {0}

VARIABLES
    uid,         \* the last time uuid drawn
    inflight,    \* modifications that insertAsync has sent
    modified,    \* ca_resource_modified
    processed,   \* ca_resource_processed, by purpose
    old,         \* uuids up to this one are older than two days
    rowToCaResourceModifiedCallback, rowToCaResourceProcessedCallback,
    pc,          \* where a manager's thread is in its poll
    inside,      \* the manager whose callback the thread is in
    row,         \* the uuid the thread has: cursor, then modification
    crashes,
    handled,     \* history: how often a handler was given a modification
    late,        \* history: modifications that became visible out of order
    start,       \* history: the cursor of a purpose's last poll from scratch
    mixed        \* history: has a thread called a callback of another manager,
                 \* or one that another manager was replacing?

table == <<uid, inflight, modified, late, old>>
callbacks == <<rowToCaResourceModifiedCallback, rowToCaResourceProcessedCallback>>
vars == <<table, processed, callbacks, pc, inside, row, crashes, handled, start, mixed>>

Rows == 1..MaxRows
Max(S) == CHOOSE x \in S : \A y \in S : y <= x
Min(S) == CHOOSE x \in S : \A y \in S : x <= y
None == 0

Init == /\ uid = 0 /\ inflight = {} /\ modified = {} /\ old = 0
        /\ processed = [m \in Managers |-> {}]
        /\ \E m \in Managers : /\ rowToCaResourceModifiedCallback = m
                               /\ rowToCaResourceProcessedCallback = m
        /\ pc = [m \in Managers |-> "sleep"]
        /\ inside = [m \in Managers |-> m]
        /\ row = [m \in Managers |-> None]
        /\ crashes = 0
        /\ handled = [m \in Managers |-> [u \in Rows |-> 0]]
        /\ late = {} /\ start = [m \in Managers |-> 0] /\ mixed = FALSE

-----------------------------------------------------------------------------
(* The writers, with insertAsync, and time.                                *)

rest == <<processed, callbacks, pc, inside, row, crashes, handled, start, mixed>>

getUUID == uid + 1

insertAsync == /\ uid < MaxRows
               /\ uid' = getUUID
               /\ inflight' = inflight \cup {getUUID}
               /\ UNCHANGED <<modified, late, old, rest>>

Arrive == /\ \E u \in inflight :
                /\ inflight' = inflight \ {u}
                /\ modified' = modified \cup {u}
                /\ late' = IF \E v \in modified : v > u THEN late \cup {u} ELSE late
          /\ UNCHANGED <<uid, old, rest>>

TwoDaysPass == /\ old < uid /\ old' = uid
               /\ UNCHANGED <<uid, inflight, modified, late, rest>>

-----------------------------------------------------------------------------
(* A poll.                                                                 *)

Goto(m, from, to) == pc[m] = from /\ pc' = [pc EXCEPT ![m] = to]

(* fetchNextTasks, after the wait: the first callback; the second one and  *)
(* ca_resource_processed_select, two days back when there is no row.       *)
SetModifiedCallback(m) ==
    /\ Goto(m, "sleep", "processed")
    /\ rowToCaResourceModifiedCallback' = m
    /\ inside' = [inside EXCEPT ![m] = m]
    /\ row' = [row EXCEPT ![m] = None]
    /\ UNCHANGED <<table, processed, rowToCaResourceProcessedCallback, crashes, handled,
                   start, mixed>>

(* Variant that reads the first processed row, not the last.               *)
CursorFirst(m) == IF processed[m] = {} THEN old ELSE Min(processed[m])

(* Variant that starts from now when there is no row, not two days back.   *)
CursorNow(m) == IF processed[m] = {} THEN uid ELSE Max(processed[m])

Cursor(m) == IF processed[m] = {} THEN old ELSE Max(processed[m])

SelectProcessed(m) ==
    /\ Goto(m, "processed", "answer")
    /\ rowToCaResourceProcessedCallback' = m
    /\ row' = [row EXCEPT ![m] = Cursor(m)]
    /\ start' = IF processed[m] = {} THEN [start EXCEPT ![m] = old] ELSE start
    /\ UNCHANGED <<table, processed, rowToCaResourceModifiedCallback, inside, crashes, handled,
                   mixed>>

Become(m, callback) == /\ inside' = [inside EXCEPT ![m] = callback]
                       /\ mixed' = (mixed \/ callback # m)

After(u) == {v \in modified : v > u}

(* Variant whose query returns the youngest modification.                  *)
NextRowYoungest(u) == Max(After(u))

NextRow(u) == Min(After(u))

(* rowToCaResourceProcessedTapFunc of whoever set the callback last, and   *)
(* ca_resource_modified_select with limit 1.                               *)
rowToCaResourceProcessedTapFunc(m) ==
    /\ Goto(m, "answer", "modified")
    /\ Become(m, rowToCaResourceProcessedCallback)
    /\ row' = [row EXCEPT ![m] =
                  IF After(row[m]) = {} THEN None ELSE NextRow(row[m])]
    /\ UNCHANGED <<table, processed, callbacks, crashes, handled, start>>

(* rowToCaResourceModifiedTapFunc: the handler of whoever set the callback *)
(* last.  Without a row the batch is empty.                                *)
rowToCaResourceModifiedTapFunc(m) ==
    /\ Goto(m, "modified", IF row[m] = None THEN "sleep" ELSE "insert")
    /\ Become(m, rowToCaResourceModifiedCallback)
    /\ handled' = IF row[m] = None THEN handled
                  ELSE [handled EXCEPT ![inside'[m]][row[m]] = IF @ < MaxCount THEN @ + 1 ELSE @]
    /\ UNCHANGED <<table, processed, callbacks, row, crashes, start>>

(* Variant that logs the row under the purpose of the thread's manager.    *)
insertSyncOwn(m) ==
    /\ Goto(m, "insert", "sleep")
    /\ processed' = [processed EXCEPT ![m] = @ \cup {row[m]}]
    /\ UNCHANGED <<table, callbacks, inside, row, crashes, handled, start, mixed>>

(* The batch logs the row under the purpose of the manager that handled it.*)
Batch(m) == [processed EXCEPT ![inside[m]] = @ \cup {row[m]}]

insertSync(m) ==
    /\ Goto(m, "insert", "sleep")
    /\ processed' = Batch(m)
    /\ UNCHANGED <<table, callbacks, inside, row, crashes, handled, start, mixed>>

(* The process ends, with a batch executed or not, and is started again.   *)
Restart ==
    /\ \/ UNCHANGED processed
       \/ \E m \in Managers : pc[m] = "insert" /\ processed' = Batch(m)
    /\ pc' = [m \in Managers |-> "sleep"]
    /\ inside' = [m \in Managers |-> m]
    /\ row' = [m \in Managers |-> None]
    /\ UNCHANGED <<table, callbacks, handled, start>>

(* A query or the batch failed, or the process was killed.                 *)
Crash == /\ crashes < MaxCrashes /\ crashes' = crashes + 1
         /\ Restart /\ UNCHANGED mixed

(* A thread calls a callback while another manager's is replacing it, or   *)
(* one of another manager's last poll, which refers to a handler that was  *)
(* a temporary of that poll: what is called is whatever is left there, or  *)
(* the process ends.                                                       *)
Undefined(m) == /\ pc[m] \in {"answer", "modified"}
                /\ \E n \in Managers \ {m} : pc[n] \in {"sleep", "processed"}
                /\ Restart /\ mixed' = TRUE /\ UNCHANGED crashes

-----------------------------------------------------------------------------
Poll(m) == \/ SetModifiedCallback(m) \/ SelectProcessed(m)
           \/ rowToCaResourceProcessedTapFunc(m) \/ rowToCaResourceModifiedTapFunc(m)
           \/ insertSync(m)

Next == \/ insertAsync \/ Arrive \/ TwoDaysPass \/ Crash
        \/ \E m \in Managers : Poll(m) \/ Undefined(m)

(* run() polls for ever.                                                   *)
Spec == Init /\ [][Next]_vars /\ \A m \in Managers : WF_vars(Poll(m))

-----------------------------------------------------------------------------
(* Properties.                                                             *)

TypeOK ==
    /\ uid \in 0..MaxRows /\ old \in 0..uid
    /\ inflight \subseteq Rows /\ modified \subseteq Rows /\ late \subseteq modified
    /\ processed \in [Managers -> SUBSET modified]
    /\ rowToCaResourceModifiedCallback \in Managers
    /\ rowToCaResourceProcessedCallback \in Managers
    /\ pc \in [Managers -> {"sleep", "processed", "answer", "modified", "insert"}]
    /\ inside \in [Managers -> Managers]
    /\ row \in [Managers -> 0..MaxRows]
    /\ crashes \in 0..MaxCrashes
    /\ handled \in [Managers -> [Rows -> 0..MaxCount]]
    /\ start \in [Managers -> 0..MaxRows] /\ mixed \in BOOLEAN

(* A modification is logged as processed only under a purpose whose        *)
(* handler has had it, across crashes and swapped callbacks.               *)
ProcessedMeansHandled ==
    \A m \in Managers : \A u \in processed[m] : handled[m][u] > 0

(* As long as no callback was swapped, a purpose passes over no            *)
(* modification, except one that was older than two days when it began,    *)
(* or that became visible after a younger one.                             *)
NothingPassedOver ==
    ~mixed => \A m \in Managers : \A u \in modified \ late :
                 start[m] < u /\ (\E v \in processed[m] : u <= v) => handled[m][u] > 0

(* As long as no callback was swapped, only a crash makes a handler see a  *)
(* modification again.                                                     *)
HandledAgainOnlyAfterCrash ==
    ~mixed => \A m \in Managers : \A u \in Rows : handled[m][u] <= 1 + crashes

(* Every purpose comes to every such modification.                         *)
EventuallyHandled ==
    \A m \in Managers : \A u \in Rows :
       u \in modified ~> handled[m][u] > 0 \/ u \in late \/ u <= start[m] \/ mixed

-----------------------------------------------------------------------------
(* The inductive invariant behind the safety properties: what the row a    *)
(* thread carries says about the tables.                                   *)

RowKnown(m) ==
    /\ pc[m] = "modified" => row[m] = None \/ row[m] \in modified
    /\ pc[m] = "insert" => row[m] \in modified /\ handled[inside[m]][row[m]] > 0

Passed(m, u) == u \in modified \ late /\ start[m] < u

(* What holds of a purpose as long as its thread is in its own callbacks.  *)
OwnInv(m) ==
    /\ pc[m] \in {"modified", "insert"} => inside[m] = m
    /\ pc[m] = "answer" => \/ processed[m] = {} /\ row[m] = start[m]
                           \/ row[m] \in processed[m] /\ \A v \in processed[m] : v <= row[m]
    /\ pc[m] \in {"modified", "insert"} /\ row[m] # None =>
          /\ \A v \in processed[m] : v < row[m]
          /\ \A u \in Rows : Passed(m, u) /\ u < row[m] => handled[m][u] > 0
    /\ \A u \in Rows : \A v \in processed[m] : Passed(m, u) /\ u <= v => handled[m][u] > 0
    /\ \A u \in Rows :
          \/ handled[m][u] <= crashes
          \/ handled[m][u] = crashes + 1 /\ (u \in processed[m] \/ (pc[m] = "insert" /\ row[m] = u))

IInv == /\ TypeOK
        /\ ProcessedMeansHandled
        /\ \A m \in Managers : RowKnown(m)
        /\ ~mixed => \A m \in Managers : OwnInv(m)
=============================================================================
