---------------------- MODULE CaResourceManagerProofs ----------------------
(* The safety properties of the resource managers, for any number of       *)
(* managers, modifications and crashes.                                    *)
EXTENDS CaResourceManager, WellFoundedInduction, TLAPS

USE ManagerAssumption

LEMMA RowsAreNumbers == \A u \in Rows : u \in 0..MaxRows /\ u \in Int
BY DEF Rows

LEMMA CursorsAreNumbers == \A u \in 0..MaxRows : u \in Int
OBVIOUS

(* The two queries find what they look for.                                *)
LEMMA MinIsLeast ==
  ASSUME NEW S, S \subseteq Nat, S # {}
  PROVE  Min(S) \in S /\ \A y \in S : Min(S) <= y
<1>1. PICK x \in S : \A y \in S : ~(<<y, x>> \in OpToRel(<, Nat))
  BY WFMin, NatLessThanWellFounded, Zenon
<1>2. \A y \in S : ~(y < x)
  BY <1>1 DEF OpToRel
<1>3. \A y \in S : x <= y
  BY <1>2
<1> QED
  BY <1>3, Zenon DEF Min

LEMMA MaxIsGreatest ==
  ASSUME NEW S, S \subseteq Rows, S # {}
  PROVE  Max(S) \in S /\ \A y \in S : y <= Max(S)
<1> DEFINE T == {MaxRows - x : x \in S}
<1>0. \A x \in S : x \in Nat /\ MaxRows - x \in Nat
  BY DEF Rows
<1>1. T \subseteq Nat /\ T # {}
  BY <1>0
<1>2. Min(T) \in T /\ \A y \in T : Min(T) <= y
  <2> HIDE DEF T
  <2> QED
    BY <1>1, MinIsLeast
<1>3. PICK x \in S : Min(T) = MaxRows - x
  BY <1>2
<1>4. ASSUME NEW y \in S PROVE y <= x
  <2>1. MaxRows - y \in T
    OBVIOUS
  <2>2. MaxRows - x <= MaxRows - y
    BY <1>2, <1>3, <2>1
  <2> QED
    BY <1>0, <2>2
<1> QED
  BY <1>4, Zenon DEF Max

-----------------------------------------------------------------------------
(* The inductive invariant, one lemma per action.                          *)

LEMMA InitInv == Init => IInv
<1> SUFFICES ASSUME Init PROVE IInv
  OBVIOUS
<1> USE DEF Init
<1>1. TypeOK
  <2>1. handled \in [Managers -> [Rows -> 0..MaxCount]]
    OBVIOUS
  <2>2. row \in [Managers -> 0..MaxRows] /\ start \in [Managers -> 0..MaxRows]
    BY DEF None
  <2>3. uid \in 0..MaxRows /\ old \in 0..uid /\ crashes \in 0..MaxCrashes
    OBVIOUS
  <2> QED
    BY <2>1, <2>2, <2>3 DEF TypeOK
<1>2. ASSUME NEW m \in Managers
      PROVE  /\ pc[m] = "sleep" /\ processed[m] = {} /\ crashes = 0
             /\ \A u \in Rows : handled[m][u] = 0
  OBVIOUS
<1>3. \A m \in Managers : RowKnown(m) /\ OwnInv(m)
  BY <1>2 DEF RowKnown, OwnInv
<1> QED
  BY <1>1, <1>2, <1>3 DEF IInv, ProcessedMeansHandled

LEMMA WritersInv ==
  ASSUME IInv, insertAsync \/ TwoDaysPass
  PROVE  IInv'
<1>1. CASE insertAsync
  <2>1. uid \in 0..MaxRows /\ old \in 0..uid /\ uid' = uid + 1 /\ uid < MaxRows
    BY <1>1 DEF insertAsync, getUUID, IInv, TypeOK
  <2>2. uid' \in 0..MaxRows /\ old \in 0..uid' /\ uid' \in Rows
    BY <2>1 DEF Rows
  <2>3. UNCHANGED <<modified, late, old, rest>> /\ inflight' = inflight \cup {uid'}
    BY <1>1, <2>1 DEF insertAsync, getUUID
  <2> QED
    BY <2>2, <2>3
    DEF rest, callbacks, IInv, TypeOK, ProcessedMeansHandled, RowKnown, OwnInv, Passed
<1>2. CASE TwoDaysPass
  <2>1. old' \in 0..uid /\ UNCHANGED <<uid, inflight, modified, late, rest>>
    BY <1>2 DEF TwoDaysPass, IInv, TypeOK
  <2>2. TypeOK'
    BY <2>1 DEF rest, callbacks, IInv, TypeOK
  <2> QED
    BY <2>1, <2>2
    DEF rest, callbacks, IInv, ProcessedMeansHandled, RowKnown, OwnInv, Passed
<1> QED
  BY <1>1, <1>2

(* What arrives in its order is younger than all that threads work on.     *)
LEMMA ArriveInv ==
  ASSUME IInv, Arrive
  PROVE  IInv'
<1> PICK a \in inflight :
          /\ modified' = modified \cup {a}
          /\ inflight' = inflight \ {a}
          /\ late' = IF \E v \in modified : v > a THEN late \cup {a} ELSE late
  BY DEF Arrive
<1> USE DEF IInv
<1>1. UNCHANGED <<uid, old, processed, callbacks, pc, inside, row, crashes, handled, start, mixed>>
  BY DEF Arrive, rest
<1>2. TypeOK'
  <2>1. a \in Rows
    BY DEF TypeOK
  <2> QED
    BY <1>1, <2>1 DEF TypeOK, callbacks
<1>3. \A m \in Managers : RowKnown(m)'
  BY <1>1 DEF RowKnown, TypeOK
<1>4. ProcessedMeansHandled'
  BY <1>1 DEF ProcessedMeansHandled
<1>5. ASSUME NEW m \in Managers, NEW u \in Rows, Passed(m, u)'
      PROVE  Passed(m, u) \/ \A v \in modified : v < u
  <2>1. a \in Nat /\ \A v \in modified : v \in Nat
    BY DEF TypeOK, Rows
  <2>2. CASE u \in modified
    BY <1>1, <1>5, <2>2 DEF Passed
  <2>3. CASE u = a /\ u \notin modified
    BY <1>5, <2>1, <2>3 DEF Passed
  <2> QED
    BY <1>5, <2>2, <2>3 DEF Passed
<1>6. ASSUME ~mixed', NEW m \in Managers PROVE OwnInv(m)'
  <2>1. OwnInv(m) /\ RowKnown(m)
    BY <1>1, <1>6
  <2>2. processed[m] \subseteq modified /\ modified \subseteq Rows /\ row[m] \in 0..MaxRows
    BY DEF TypeOK
  <2>3. (pc[m] \in {"modified", "insert"} /\ row[m] # None =>
           \A u \in Rows : Passed(m, u) /\ u < row[m] => handled[m][u] > 0)'
    BY <1>1, <1>5, <2>1, <2>2 DEF OwnInv, RowKnown, Rows
  <2>4. (\A u \in Rows : \A v \in processed[m] :
           Passed(m, u) /\ u <= v => handled[m][u] > 0)'
    <3> SUFFICES ASSUME NEW u \in Rows, NEW v \in processed[m], Passed(m, u)', u <= v
                 PROVE  handled[m][u] > 0
      BY <1>1
    <3>1. CASE Passed(m, u)
      BY <2>1, <3>1 DEF OwnInv
    <3>2. CASE \A w \in modified : w < u
      <4>1. v < u /\ v \in Int /\ u \in Int
        BY <2>2, <3>2, RowsAreNumbers
      <4> QED
        BY <4>1
    <3> QED
      BY <1>5, <3>1, <3>2
  <2> QED
    BY <1>1, <2>1, <2>3, <2>4 DEF OwnInv
<1> QED
  BY <1>2, <1>3, <1>4, <1>6

LEMMA SetModifiedInv ==
  ASSUME NEW m \in Managers, IInv, SetModifiedCallback(m)
  PROVE  IInv'
<1> USE DEF IInv, SetModifiedCallback, Goto, table
<1>1. TypeOK'
  BY DEF TypeOK, None
<1>2. ProcessedMeansHandled' /\ \A n \in Managers : RowKnown(n)'
  BY DEF ProcessedMeansHandled, RowKnown, TypeOK
<1>3. ASSUME ~mixed', NEW n \in Managers PROVE OwnInv(n)'
  BY <1>3 DEF OwnInv, Passed, TypeOK
<1> QED
  BY <1>1, <1>2, <1>3

LEMMA SelectProcessedInv ==
  ASSUME NEW m \in Managers, IInv, SelectProcessed(m)
  PROVE  IInv'
<1> USE DEF IInv, SelectProcessed, Goto, table
<1>1. processed[m] \subseteq Rows /\ old \in 0..MaxRows
  <2>1. processed[m] \subseteq modified /\ modified \subseteq Rows
    BY DEF TypeOK
  <2>2. uid \in 0..MaxRows /\ old \in 0..uid
    BY DEF TypeOK
  <2> QED
    BY <2>1, <2>2
<1>2. \/ processed[m] = {} /\ Cursor(m) = old
      \/ Cursor(m) \in processed[m] /\ \A v \in processed[m] : v <= Cursor(m)
  BY <1>1, MaxIsGreatest DEF Cursor
<1>3. TypeOK'
  <2>1. Cursor(m) \in 0..MaxRows
    BY <1>1, <1>2 DEF Rows
  <2>2. row' \in [Managers -> 0..MaxRows] /\ start' \in [Managers -> 0..MaxRows]
    BY <1>1, <2>1 DEF TypeOK
  <2> QED
    BY <2>2 DEF TypeOK
<1>4. ProcessedMeansHandled' /\ \A n \in Managers : RowKnown(n)'
  BY DEF ProcessedMeansHandled, RowKnown, TypeOK
<1>5. ASSUME ~mixed', NEW n \in Managers PROVE OwnInv(n)'
  <2>1. CASE n # m
    BY <1>5, <2>1 DEF OwnInv, Passed, TypeOK
  <2>2. CASE n = m
    <3>1. OwnInv(m) /\ pc[m] = "processed" /\ pc'[m] = "answer" /\ row'[m] = Cursor(m)
      BY <1>5 DEF TypeOK
    <3>2. processed[m] = {} => start'[m] = old
      BY DEF TypeOK
    <3>3. processed[m] # {} => start' = start
      OBVIOUS
    <3> QED
      BY <1>2, <2>2, <3>1, <3>2, <3>3 DEF OwnInv, Passed
  <2> QED
    BY <2>1, <2>2
<1> QED
  BY <1>3, <1>4, <1>5

(* The next row is the first one after the cursor, so what it passes over  *)
(* had been passed over before.                                            *)
LEMMA ProcessedTapInv ==
  ASSUME NEW m \in Managers, IInv, rowToCaResourceProcessedTapFunc(m)
  PROVE  IInv'
<1> USE DEF IInv, rowToCaResourceProcessedTapFunc, Goto, table, callbacks, Become
<1>1. modified \subseteq Rows /\ row[m] \in 0..MaxRows
  BY DEF TypeOK
<1>2. \/ After(row[m]) = {} /\ row'[m] = None
      \/ /\ row'[m] \in modified /\ row'[m] > row[m] /\ row'[m] # None
         /\ \A v \in modified : v > row[m] => row'[m] <= v
  <2>1. row'[m] = IF After(row[m]) = {} THEN None ELSE Min(After(row[m]))
    BY DEF TypeOK, NextRow
  <2>2. After(row[m]) \subseteq Nat
    <3>1. Rows \subseteq Nat
      BY DEF Rows
    <3> QED
      BY <1>1, <3>1 DEF After
  <2>3. CASE After(row[m]) # {}
    <3>1. Min(After(row[m])) \in After(row[m])
          /\ \A y \in After(row[m]) : Min(After(row[m])) <= y
      BY <2>2, <2>3, MinIsLeast
    <3> QED
      BY <1>1, <2>1, <2>3, <3>1 DEF After, None, Rows
  <2> QED
    BY <2>1, <2>3
<1>3. TypeOK'
  <2>1. row'[m] \in 0..MaxRows
    BY <1>1, <1>2, RowsAreNumbers DEF None
  <2>2. row' \in [Managers -> 0..MaxRows]
    BY <2>1 DEF TypeOK
  <2> QED
    BY <2>2 DEF TypeOK
<1>4. ProcessedMeansHandled' /\ \A n \in Managers : RowKnown(n)'
  BY <1>2 DEF ProcessedMeansHandled, RowKnown, TypeOK
<1>5. ASSUME ~mixed', NEW n \in Managers PROVE OwnInv(n)'
  <2>1. CASE n # m
    BY <1>5, <2>1 DEF OwnInv, Passed, TypeOK
  <2>2. CASE n = m
    <3>1. OwnInv(m) /\ pc[m] = "answer" /\ pc'[m] = "modified" /\ inside'[m] = m
      BY <1>5 DEF TypeOK
    <3>2. processed[m] \subseteq modified /\ start[m] \in 0..MaxRows
      BY DEF TypeOK
    <3>3. row'[m] # None => \A v \in processed[m] : v < row'[m]
      <4>1. row[m] \in Int /\ \A v \in processed[m] : v \in Int
        BY <1>1, <3>2, RowsAreNumbers, CursorsAreNumbers
      <4>2. row'[m] # None => row'[m] \in Int /\ row[m] < row'[m]
        BY <1>1, <1>2, <4>1, RowsAreNumbers
      <4>3. \A v \in processed[m] : v <= row[m]
        BY <3>1 DEF OwnInv
      <4> QED
        BY <4>1, <4>2, <4>3
    <3>4. ASSUME row'[m] # None, NEW u \in Rows, Passed(m, u), u < row'[m]
          PROVE  handled[m][u] > 0
      <4>1. u <= row[m]
        <5>1. u \in Int /\ row[m] \in Int /\ row'[m] \in Int
          BY <1>1, <1>2, <3>4, RowsAreNumbers, CursorsAreNumbers
        <5>2. ~(u > row[m])
          BY <1>2, <3>4, <5>1 DEF Passed
        <5> QED
          BY <5>1, <5>2
      <4>2. row[m] \in processed[m]
        BY <1>1, <3>1, <3>2, <3>4, <4>1 DEF OwnInv, Passed, Rows
      <4> QED
        BY <3>1, <3>4, <4>1, <4>2 DEF OwnInv
    <3> QED
      BY <2>2, <3>1, <3>3, <3>4 DEF OwnInv, Passed
  <2> QED
    BY <2>1, <2>2
<1> QED
  BY <1>3, <1>4, <1>5

(* The handler gets a row its purpose has not processed.                   *)
LEMMA ModifiedTapInv ==
  ASSUME NEW m \in Managers, IInv, rowToCaResourceModifiedTapFunc(m)
  PROVE  IInv'
<1> USE DEF IInv, rowToCaResourceModifiedTapFunc, Goto, table, callbacks, Become
<1>1. modified \subseteq Rows /\ row[m] \in 0..MaxRows /\ inside'[m] \in Managers /\ row' = row
  BY DEF TypeOK
<1>2. row[m] = None \/ row[m] \in modified
  BY DEF RowKnown
<1>3. \A n \in Managers : \A u \in Rows :
         /\ handled'[n][u] \in 0..MaxCount
         /\ handled'[n][u] >= handled[n][u]
         /\ handled'[n][u] <= handled[n][u] + 1
         /\ n # inside'[m] \/ u # row[m] => handled'[n][u] = handled[n][u]
         /\ n = inside'[m] /\ u = row[m] /\ row[m] # None => handled'[n][u] > 0
  <2>1. \A n \in Managers : \A u \in Rows : handled[n][u] \in 0..MaxCount
    BY DEF TypeOK
  <2>2. CASE row[m] = None
    BY <2>1, <2>2 DEF None, Rows
  <2>3. CASE row[m] # None
    <3>1. row[m] \in Rows
      BY <1>1, <1>2, <2>3
    <3>2. handled' = [handled EXCEPT ![inside'[m]][row[m]] = IF @ < MaxCount THEN @ + 1 ELSE @]
      BY <2>3
    <3>3. \A n \in Managers : \A u \in Rows :
             handled'[n][u] = IF n = inside'[m] /\ u = row[m]
                                THEN IF handled[n][u] < MaxCount THEN handled[n][u] + 1
                                                                 ELSE handled[n][u]
                                ELSE handled[n][u]
      BY <1>1, <3>1, <3>2 DEF TypeOK
    <3> SUFFICES ASSUME NEW n \in Managers, NEW u \in Rows
                 PROVE  /\ handled'[n][u] \in 0..MaxCount
                        /\ handled'[n][u] >= handled[n][u]
                        /\ handled'[n][u] <= handled[n][u] + 1
                        /\ n # inside'[m] \/ u # row[m] => handled'[n][u] = handled[n][u]
                        /\ n = inside'[m] /\ u = row[m] => handled'[n][u] > 0
      OBVIOUS
    <3>4. handled[n][u] \in 0..MaxCount /\ handled[n][u] \in Int
      BY <2>1
    <3> HIDE DEF rowToCaResourceModifiedTapFunc, IInv
    <3>5. CASE n = inside'[m] /\ u = row[m]
      BY <3>3, <3>4, <3>5
    <3>6. CASE ~(n = inside'[m] /\ u = row[m])
      BY <3>3, <3>4, <3>6
    <3> QED
      BY <3>5, <3>6
  <2> QED
    BY <2>2, <2>3
<1>4. handled' \in [Managers -> [Rows -> 0..MaxCount]]
  BY <1>1, <1>2 DEF TypeOK
<1>5. TypeOK'
  BY <1>1, <1>4 DEF TypeOK
<1>6. ProcessedMeansHandled'
  <2>1. \A n \in Managers : processed[n] \subseteq Rows
    BY <1>1 DEF TypeOK
  <2>2. \A n \in Managers : \A u \in Rows : handled[n][u] \in 0..MaxCount
    BY DEF TypeOK
  <2> QED
    BY <1>3, <2>1, <2>2 DEF ProcessedMeansHandled
<1>7. ASSUME NEW n \in Managers PROVE RowKnown(n)'
  <2>2. CASE n # m
    <3>1. RowKnown(n) /\ pc'[n] = pc[n] /\ inside'[n] = inside[n] /\ inside[n] \in Managers
      BY <2>2 DEF TypeOK
    <3>2. row[n] \in Rows => /\ handled'[inside[n]][row[n]] >= handled[inside[n]][row[n]]
                             /\ handled[inside[n]][row[n]] \in Int /\ handled'[inside[n]][row[n]] \in Int
      <4>1. \A k \in Managers : \A u \in Rows :
               handled[k][u] \in Int /\ handled'[k][u] \in Int /\ handled'[k][u] >= handled[k][u]
        <5>0. handled \in [Managers -> [Rows -> 0..MaxCount]]
          BY DEF TypeOK
        <5> HIDE DEF IInv, rowToCaResourceModifiedTapFunc
        <5>1. \A k \in Managers : \A u \in Rows :
                 handled[k][u] \in 0..MaxCount /\ handled'[k][u] \in 0..MaxCount
          BY <5>0, <1>4
        <5>2. \A c \in 0..MaxCount : c \in Int
          OBVIOUS
        <5> QED
          BY <1>3, <5>1, <5>2
      <4> QED
        BY <3>1, <4>1
    <3> QED
      BY <1>1, <3>1, <3>2 DEF RowKnown
  <2>3. CASE n = m
    BY <1>1, <1>2, <1>3, <2>3 DEF RowKnown, TypeOK
  <2> QED
    BY <2>2, <2>3
<1>8. ASSUME ~mixed', NEW n \in Managers PROVE OwnInv(n)'
  <2>1. OwnInv(n) /\ OwnInv(m) /\ inside'[m] = m
    BY <1>1, <1>8 DEF TypeOK
  <2>2. \A u \in Rows : handled[n][u] \in Nat /\ handled'[n][u] \in Nat
    BY <1>4 DEF TypeOK
  <2>3. processed[n] \subseteq Rows /\ crashes \in Nat
    BY <1>1 DEF TypeOK
  <2>4. CASE n # m
    <3>1. \A u \in Rows : handled'[n][u] = handled[n][u]
      BY <1>3, <2>1, <2>4
    <3>2. pc'[n] = pc[n] /\ inside'[n] = inside[n]
      BY <2>4 DEF TypeOK
    <3> QED
      BY <2>1, <3>1, <3>2 DEF OwnInv, Passed
  <2>5. CASE n = m
    <3>1. pc[m] = "modified" /\ pc'[m] = IF row[m] = None THEN "sleep" ELSE "insert"
      BY DEF TypeOK
    <3>2. (\A u \in Rows : \A v \in processed[m] :
             Passed(m, u) /\ u <= v => handled[m][u] > 0)'
      BY <1>3, <2>1, <2>2, <2>5 DEF OwnInv, Passed
    <3>3. row[m] # None =>
             /\ \A v \in processed[m] : v < row[m]
             /\ \A u \in Rows : Passed(m, u)' /\ u < row[m] => handled'[m][u] > 0
      BY <1>3, <2>1, <2>2, <2>5, <3>1 DEF OwnInv, Passed
    <3>4. (\A u \in Rows :
             \/ handled[m][u] <= crashes
             \/ /\ handled[m][u] = crashes + 1
                /\ (u \in processed[m] \/ (pc[m] = "insert" /\ row[m] = u)))'
      <4> SUFFICES ASSUME NEW u \in Rows
                   PROVE  \/ handled'[m][u] <= crashes
                          \/ /\ handled'[m][u] = crashes + 1
                             /\ (u \in processed[m] \/ (pc'[m] = "insert" /\ row[m] = u))
        BY <1>1
      <4>1. CASE row[m] # u \/ row[m] = None
        <5>1. handled'[m][u] = handled[m][u]
          BY <1>3, <4>1 DEF Rows, None
        <5> QED
          BY <2>1, <3>1, <5>1 DEF OwnInv
      <4>2. CASE row[m] = u /\ row[m] # None
        <5>1. u \notin processed[m]
          BY <3>3, <4>2, <2>3 DEF Rows
        <5>2. handled[m][u] <= crashes
          BY <2>1, <3>1, <5>1 DEF OwnInv
        <5>3. handled'[m][u] <= handled[m][u] + 1 /\ pc'[m] = "insert"
          BY <1>3, <3>1, <4>2
        <5>4. handled[m][u] \in Nat /\ handled'[m][u] \in Nat
          BY <2>2, <2>5
        <5> QED
          BY <2>3, <4>2, <5>2, <5>3, <5>4
      <4> QED
        BY <4>1, <4>2
    <3>5. UNCHANGED <<processed, start, crashes>> /\ row' = row
      BY <1>1
    <3> HIDE DEF rowToCaResourceModifiedTapFunc, IInv
    <3> QED
      BY <2>1, <2>5, <3>1, <3>2, <3>3, <3>4, <3>5 DEF OwnInv
  <2> QED
    BY <2>4, <2>5
<1> QED
  BY <1>5, <1>6, <1>7, <1>8

(* The batch logs what the handler has had: used for insertSync, and for a *)
(* crash after the batch was executed.                                     *)
LEMMA BatchFacts ==
  ASSUME NEW m \in Managers, IInv, pc[m] = "insert", processed' = Batch(m),
         UNCHANGED <<table, handled, start>>
  PROVE  /\ (processed \in [Managers -> SUBSET modified])'
         /\ ProcessedMeansHandled'
         /\ ~mixed => \A n \in Managers : \A u \in Rows : \A v \in processed'[n] :
               Passed(n, u) /\ u <= v => handled[n][u] > 0
         /\ ~mixed => /\ row[m] \in processed'[m]
                      /\ \A n \in Managers \ {m} : processed'[n] = processed[n]
         /\ \A n \in Managers : processed[n] \subseteq processed'[n]
<1> USE DEF IInv, table, Batch
<1>1. row[m] \in modified /\ inside[m] \in Managers /\ modified \subseteq Rows
      /\ handled[inside[m]][row[m]] > 0
  BY DEF TypeOK, RowKnown
<1>2. \A n \in Managers :
         processed'[n] = IF n = inside[m] THEN processed[n] \cup {row[m]} ELSE processed[n]
  BY <1>1 DEF TypeOK
<1>3. (processed \in [Managers -> SUBSET modified])'
  BY <1>1 DEF TypeOK
<1>4. ProcessedMeansHandled'
  BY <1>1, <1>2 DEF ProcessedMeansHandled
<1>5. ASSUME ~mixed, NEW n \in Managers, NEW u \in Rows, NEW v \in processed'[n],
             Passed(n, u), u <= v
      PROVE  handled[n][u] > 0
  <2>1. OwnInv(n) /\ OwnInv(m) /\ row[m] # None
    BY <1>1, <1>5 DEF Rows, None
  <2>2. CASE v \in processed[n]
    BY <1>5, <2>1, <2>2 DEF OwnInv
  <2>3. CASE v \notin processed[n]
    <3>1. n = inside[m] /\ v = row[m] /\ n = m
      BY <1>2, <1>5, <2>1, <2>3 DEF OwnInv
    <3>2. u < row[m] \/ u = row[m]
      <4>1. u \in Int /\ row[m] \in Int /\ u <= row[m]
        BY <1>1, <1>5, <3>1, RowsAreNumbers
      <4> QED
        BY <4>1
    <3> QED
      BY <1>1, <1>5, <2>1, <3>1, <3>2 DEF OwnInv
  <2> QED
    BY <2>2, <2>3
<1>6. ~mixed => inside[m] = m
  BY DEF OwnInv
<1> QED
  BY <1>2, <1>3, <1>4, <1>5, <1>6

LEMMA InsertInv ==
  ASSUME NEW m \in Managers, IInv, insertSync(m)
  PROVE  IInv'
<1> USE DEF insertSync, Goto
<1>1. pc[m] = "insert" /\ processed' = Batch(m)
      /\ UNCHANGED <<table, callbacks, inside, row, crashes, handled, start, mixed>>
  OBVIOUS
<1>2. TypeOK /\ \A n \in Managers : RowKnown(n)
  BY DEF IInv
<1>3. TypeOK'
  BY <1>1, <1>2, BatchFacts DEF TypeOK, table, callbacks
<1>4. ProcessedMeansHandled'
  BY <1>1, BatchFacts
<1>5. \A n \in Managers : RowKnown(n)'
  BY <1>1, <1>2 DEF RowKnown, TypeOK, table
<1>6. ASSUME ~mixed', NEW n \in Managers PROVE OwnInv(n)'
  <2>1. OwnInv(n) /\ ~mixed
    BY <1>1, <1>6 DEF IInv
  <2>2. \A u \in Rows : \A v \in processed'[n] : Passed(n, u)' /\ u <= v => handled'[n][u] > 0
    BY <1>1, <2>1, BatchFacts DEF Passed, table
  <2>3. CASE n = m
    <3>1. pc'[m] = "sleep" /\ row[m] \in processed'[m] /\ processed[m] \subseteq processed'[m]
      BY <1>1, <1>2, <2>1, BatchFacts DEF TypeOK
    <3> QED
      BY <1>1, <2>1, <2>2, <2>3, <3>1 DEF OwnInv
  <2>4. CASE n # m
    <3>1. pc'[n] = pc[n] /\ processed'[n] = processed[n]
      BY <1>1, <1>2, <2>1, <2>4, BatchFacts DEF TypeOK
    <3> QED
      BY <1>1, <2>1, <2>2, <3>1 DEF OwnInv, Passed, table
  <2> QED
    BY <2>3, <2>4
<1> QED
  BY <1>3, <1>4, <1>5, <1>6 DEF IInv

(* The process may end at any point.                                       *)
LEMMA RestartInv ==
  ASSUME IInv, Restart, crashes' \in 0..MaxCrashes, mixed' \in BOOLEAN,
         mixed' \/ (~mixed /\ crashes' = crashes + 1)
  PROVE  IInv'
<1> USE DEF Restart
<1>1. UNCHANGED <<table, callbacks, handled, start>> /\ crashes \in Nat
      /\ (~mixed' => ~mixed /\ crashes' = crashes + 1)
  BY DEF IInv, TypeOK
<1>2. /\ (processed \in [Managers -> SUBSET modified])'
      /\ ProcessedMeansHandled'
      /\ ~mixed => \A n \in Managers : \A u \in Rows : \A v \in processed'[n] :
               Passed(n, u) /\ u <= v => handled[n][u] > 0
  <2>1. CASE UNCHANGED processed
    BY <1>1, <2>1 DEF IInv, TypeOK, ProcessedMeansHandled, OwnInv, table
  <2>2. CASE \E m \in Managers : pc[m] = "insert" /\ processed' = Batch(m)
    BY <1>1, <2>2, BatchFacts
  <2> QED
    BY <2>1, <2>2
<1>3. TypeOK'
  BY <1>1, <1>2 DEF IInv, TypeOK, table, callbacks, None
<1>4. \A m \in Managers : pc'[m] = "sleep" /\ RowKnown(m)'
  BY DEF RowKnown
<1>5. ASSUME ~mixed', NEW m \in Managers PROVE OwnInv(m)'
  <2>1. \A u \in Rows : \A v \in processed'[m] : Passed(m, u)' /\ u <= v => handled'[m][u] > 0
    BY <1>1, <1>2, <1>5 DEF Passed, table
  <2>2. \A u \in Rows : handled'[m][u] <= crashes'
    <3>0. OwnInv(m) /\ handled' = handled /\ crashes' = crashes + 1
          /\ \A u \in Rows : handled[m][u] \in 0..MaxCount
      BY <1>1, <1>5 DEF IInv, TypeOK
    <3> HIDE DEF Restart
    <3>1. ASSUME NEW u \in Rows PROVE handled[m][u] <= crashes + 1
      <4>1. handled[m][u] <= crashes \/ handled[m][u] = crashes + 1
        BY <3>0 DEF OwnInv
      <4>2. handled[m][u] \in Nat /\ crashes \in Nat
        BY <1>1, <3>0
      <4> QED
        BY <4>1, <4>2
    <3> QED
      BY <3>0, <3>1
  <2> QED
    BY <1>4, <2>1, <2>2 DEF OwnInv
<1> QED
  BY <1>2, <1>3, <1>4, <1>5 DEF IInv

LEMMA CrashInv ==
  ASSUME IInv, Crash \/ \E m \in Managers : Undefined(m)
  PROVE  IInv'
<1>1. crashes \in 0..MaxCrashes /\ mixed \in BOOLEAN
  BY DEF IInv, TypeOK
<1>2. CASE Crash
  <2>1. Restart /\ crashes' \in 0..MaxCrashes /\ crashes' = crashes + 1 /\ mixed' = mixed
    BY <1>1, <1>2 DEF Crash
  <2> QED
    BY <1>1, <2>1, RestartInv
<1>3. CASE \E m \in Managers : Undefined(m)
  <2>1. Restart /\ crashes' = crashes /\ mixed' = TRUE
    BY <1>3 DEF Undefined
  <2> QED
    BY <1>1, <2>1, RestartInv
<1> QED
  BY <1>2, <1>3

LEMMA NextInv ==
  ASSUME IInv, [Next]_vars
  PROVE  IInv'
<1>1. CASE UNCHANGED vars
  BY <1>1 DEF vars, table, callbacks, IInv, TypeOK, ProcessedMeansHandled, RowKnown,
              OwnInv, Passed
<1>2. CASE Crash \/ \E m \in Managers : Undefined(m)
  BY <1>2, CrashInv
<1>3. CASE insertAsync \/ Arrive \/ TwoDaysPass
  BY <1>3, WritersInv, ArriveInv
<1>4. ASSUME NEW m \in Managers, Poll(m) PROVE IInv'
  BY <1>4, SetModifiedInv, SelectProcessedInv, ProcessedTapInv, ModifiedTapInv, InsertInv
  DEF Poll
<1> QED
  BY <1>1, <1>2, <1>3, <1>4 DEF Next

-----------------------------------------------------------------------------
(* The type invariant.                                                     *)
THEOREM TypeCorrect == Spec => []TypeOK
<1>1. IInv => TypeOK
  BY DEF IInv
<1> QED
  BY <1>1, InitInv, NextInv, PTL DEF Spec

(* A modification is logged as processed only under a purpose whose        *)
(* handler has had it, even when managers overwrite each other's callbacks *)
(* and the process ends at any point.                                      *)
THEOREM ProcessedWereHandled == Spec => []ProcessedMeansHandled
<1>1. IInv => ProcessedMeansHandled
  BY DEF IInv
<1> QED
  BY <1>1, InitInv, NextInv, PTL DEF Spec

(* As long as no callback was swapped, the cursor passes over nothing but  *)
(* what was too old at the start or became visible too late.               *)
THEOREM NothingIsPassedOver == Spec => []NothingPassedOver
<1>1. IInv => NothingPassedOver
  <2> SUFFICES ASSUME IInv, ~mixed, NEW m \in Managers, NEW u \in modified \ late,
                      start[m] < u, NEW v \in processed[m], u <= v
               PROVE  handled[m][u] > 0
    BY DEF NothingPassedOver
  <2> QED
    BY DEF IInv, TypeOK, OwnInv, Passed
<1> QED
  BY <1>1, InitInv, NextInv, PTL DEF Spec

(* As long as no callback was swapped, a handler sees a modification once, *)
(* and once more for every end of the process at most.                     *)
THEOREM HandledOncePerLife == Spec => []HandledAgainOnlyAfterCrash
<1>1. IInv => HandledAgainOnlyAfterCrash
  <2> SUFFICES ASSUME IInv, ~mixed, NEW m \in Managers, NEW u \in Rows
               PROVE  handled[m][u] <= 1 + crashes
    BY DEF HandledAgainOnlyAfterCrash
  <2>1. handled[m][u] \in 0..MaxCount /\ crashes \in 0..MaxCrashes
    BY DEF IInv, TypeOK
  <2> QED
    BY <2>1 DEF IInv, OwnInv
<1> QED
  BY <1>1, InitInv, NextInv, PTL DEF Spec
=============================================================================
