------------------------- MODULE MssqlNotifierProofs -------------------------
(* The messages of any number of notifiers, and what stop() promises.      *)
EXTENDS MssqlNotifier, FiniteSetTheorems, TLAPS

-----------------------------------------------------------------------------
(* Scripts.                                                                *)

Batch == Seq(Statement) \ {<< >>}

LEMMA BodyType == \A p : Body(p) \in Batch
<1> SUFFICES ASSUME NEW p PROVE Body(p) \in Batch
  OBVIOUS
<1>1. \A o \in Objects : Create(o) \in Statement /\ Drop(o) \in Statement
  BY DEF Statement, Create, Drop
<1>2. /\ Create("queue") \in Statement /\ Create("service") \in Statement
      /\ Create("trigger") \in Statement /\ Drop("trigger") \in Statement
      /\ Drop("service") \in Statement /\ Drop("queue") \in Statement
      /\ Drop("install") \in Statement /\ Drop("uninstall") \in Statement
  BY <1>1 DEF Objects
<1> QED
  BY <1>2 DEF Body, Batch

LEMMA ScriptTypes ==
  /\ installNotification \in Seq(Batch)
  /\ unstallListenerScript \in Seq(Batch)
  /\ sqlFormatForcedDatabaseCleaning \in Seq(Batch)
  /\ << >> \in Seq(Batch)
<1>1. \A o \in Objects : /\ Create(o) \in Statement /\ Drop(o) \in Statement
                         /\ Exec(o) \in Statement
  BY DEF Statement, Create, Drop, Exec
<1>2. /\ <<Create("install")>> \in Batch /\ <<Create("uninstall")>> \in Batch
      /\ <<Exec("install")>> \in Batch /\ <<Exec("uninstall")>> \in Batch
      /\ <<Exec("uninstall"), Drop("uninstall"), Drop("install")>> \in Batch
  BY <1>1 DEF Objects, Batch
<1> HIDE DEF Batch
<1> QED
  BY <1>2 DEF installNotification, unstallListenerScript, sqlFormatForcedDatabaseCleaning

LEMMA ScriptSteps ==
  ASSUME TypeOK, NEW n \in Notifiers, script[n] # << >>
  PROVE  /\ First(n) \in Statement
         /\ Rest(n) \in Seq(Batch)
         /\ AfterBatch(n) \in Seq(Batch)
         /\ \A p : <<Body(p) \o Tail(Head(script[n]))>> \o Tail(script[n]) \in Seq(Batch)
<1> DEFINE b == Head(script[n])
<1>1. script[n] \in Seq(Batch)
  BY DEF TypeOK, Batch
<1>2. b \in Batch /\ Tail(script[n]) \in Seq(Batch)
  BY <1>1
<1>3. b \in Seq(Statement) /\ b # << >>
  BY <1>2 DEF Batch
<1>4. Head(b) \in Statement /\ Tail(b) \in Seq(Statement)
  BY <1>3
<1>5. ASSUME Len(b) # 1 PROVE Tail(b) \in Batch
  <2>1. Len(b) \in Nat /\ Len(b) # 0
    BY <1>3
  <2>2. Len(Tail(b)) = Len(b) - 1
    BY <1>3
  <2>3. Len(Tail(b)) # 0
    BY <1>5, <2>1, <2>2
  <2>4. Tail(b) # << >>
    <3>1. Len(<< >>) = 0
      OBVIOUS
    <3> QED
      BY <2>3, <3>1, Zenon
  <2> HIDE DEF b
  <2> QED
    BY <1>4, <2>4 DEF Batch
<1>6. \A p : Body(p) \o Tail(b) \in Batch
  <2> SUFFICES ASSUME NEW p PROVE Body(p) \o Tail(b) \in Batch
    OBVIOUS
  <2>1. Body(p) \in Seq(Statement) /\ Body(p) # << >>
    BY BodyType DEF Batch
  <2>2. Body(p) \o Tail(b) \in Seq(Statement)
    BY <1>4, <2>1
  <2>3. Len(Body(p) \o Tail(b)) # 0
    <3>1. Len(Body(p)) \in Nat /\ Len(Body(p)) # 0 /\ Len(Tail(b)) \in Nat
      BY <1>4, <2>1
    <3>2. Len(Body(p) \o Tail(b)) = Len(Body(p)) + Len(Tail(b))
      BY <1>4, <2>1
    <3> QED
      BY <3>1, <3>2
  <2>4. Body(p) \o Tail(b) # << >>
    <3>1. Len(<< >>) = 0
      OBVIOUS
    <3> QED
      BY <2>3, <3>1, Zenon
  <2> HIDE DEF b
  <2> QED
    BY <2>2, <2>4 DEF Batch
<1>7. \A x \in Batch : <<x>> \o Tail(script[n]) \in Seq(Batch)
  BY <1>2
<1> QED
  BY <1>2, <1>4, <1>5, <1>6, <1>7 DEF First, Rest, AfterBatch

-----------------------------------------------------------------------------
(* Type correctness.                                                       *)

LEMMA InitType == Init => TypeOK
BY ScriptTypes, BoundsAssumption DEF Init, TypeOK, Changes, Batch

LEMMA NextType == TypeOK /\ [Next]_vars => TypeOK'
<1> SUFFICES ASSUME TypeOK, [Next]_vars PROVE TypeOK'
  OBVIOUS
<1> USE BoundsAssumption
<1>1. script \in [Notifiers -> Seq(Batch)]
  BY DEF TypeOK, Batch
<1>2. CASE Change
  <2>1. made + 1 \in Changes /\ made' \in 0..MaxChanges
    BY <1>2 DEF Change, Changes, TypeOK
  <2>2. queue' \in SUBSET Changes /\ sent' \in SUBSET Changes
    BY <1>2, <2>1 DEF Change, TypeOK
  <2>3. UNCHANGED <<objects, lost, appVars, loopVars, cancel, faults>>
    BY <1>2 DEF Change
  <2> QED
    BY <2>1, <2>2, <2>3 DEF TypeOK, appVars, loopVars
<1>3. ASSUME NEW n \in Notifiers, Start(n) \/ uninstall(n) \/ cleanDatabase(n) PROVE TypeOK'
  <2>1. script' \in [Notifiers -> Seq(Batch)]
    <3>1. CASE Start(n)
      <4>1. (IF identity \in serviceNames THEN << >> ELSE installNotification) \in Seq(Batch)
        BY ScriptTypes
      <4> QED
        BY <3>1, <4>1, <1>1 DEF Start
    <3>2. CASE uninstall(n)
      BY <3>2, <1>1, ScriptTypes DEF uninstall
    <3>3. CASE cleanDatabase(n)
      BY <3>3, <1>1, ScriptTypes DEF cleanDatabase
    <3> QED
      BY <1>3, <3>1, <3>2, <3>3
  <2>2. UNCHANGED <<dbVars, loopVars, cancel, faults>>
    BY <1>3 DEF Start, uninstall, cleanDatabase
  <2>3. \/ Call(n, "starting")
        \/ Call(n, "uninstalling")
        \/ Call(n, "cleaning")
    BY <1>3 DEF Start, uninstall, cleanDatabase
  <2>4. /\ app' \in [Notifiers -> {"idle", "starting", "uninstalling", "cleaning", "stopping"}]
        /\ calls' \in [Notifiers -> 0..MaxCalls]
    <3>1. \A what \in {"starting", "uninstalling", "cleaning"} : Call(n, what) =>
             /\ app' \in [Notifiers -> {"idle", "starting", "uninstalling", "cleaning", "stopping"}]
             /\ calls[n] + 1 \in 0..MaxCalls
             /\ calls' = [calls EXCEPT ![n] = calls[n] + 1]
      BY DEF Call, TypeOK
    <3>2. /\ app' \in [Notifiers -> {"idle", "starting", "uninstalling", "cleaning", "stopping"}]
          /\ calls[n] + 1 \in 0..MaxCalls
          /\ calls' = [calls EXCEPT ![n] = calls[n] + 1]
      BY <2>3, <3>1
    <3> QED
      BY <3>2 DEF TypeOK
  <2> QED
    BY <2>1, <2>2, <2>4 DEF TypeOK, Batch, dbVars, loopVars
<1>4. ASSUME NEW n \in Notifiers, Stop(n) \/ notificationLoop(n) \/ Return(n) \/ Join(n)
      PROVE  TypeOK'
  BY <1>4 DEF Stop, notificationLoop, Return, Join, TypeOK, dbVars, loopVars
<1>5. ASSUME NEW n \in Notifiers, Script(n) \/ BatchFails(n) PROVE TypeOK'
  <2>1. script[n] # << >>
    BY <1>5 DEF Script, BatchFails, ExecProcedure, CreateObject, DropObject, StatementRefused,
                Refused, Runs
  <2>2. /\ First(n).object \in Objects
        /\ Rest(n) \in Seq(Batch) /\ AfterBatch(n) \in Seq(Batch)
        /\ <<Body(First(n).object) \o Tail(Head(script[n]))>> \o Tail(script[n]) \in Seq(Batch)
    BY <2>1, ScriptSteps DEF Statement
  <2>3. /\ script' \in [Notifiers -> Seq(Batch)]
        /\ app' \in [Notifiers -> {"idle", "starting", "uninstalling", "cleaning", "stopping"}]
        /\ objects' \in SUBSET Objects /\ queue' \in SUBSET Changes /\ lost' \in SUBSET Changes
        /\ faults' \in 0..MaxFaults
    <3>1. << >> \in Seq(Batch)
      BY ScriptTypes
    <3>2. CASE ExecProcedure(n)
      BY <1>1, <2>2, <3>2 DEF ExecProcedure, TypeOK
    <3>3. CASE CreateObject(n)
      BY <1>1, <2>2, <3>3 DEF CreateObject, TypeOK
    <3>4. CASE DropObject(n)
      BY <1>1, <2>2, <3>4 DEF DropObject, TypeOK
    <3>5. ASSUME AbortBatch(n)
          PROVE  /\ script' \in [Notifiers -> Seq(Batch)]
                 /\ app' \in [Notifiers -> {"idle", "starting", "uninstalling", "cleaning", "stopping"}]
                 /\ UNCHANGED <<objects, queue, lost>>
      <4>1. script' = [script EXCEPT ![n] = AfterBatch(n)] \/ script' = [script EXCEPT ![n] = << >>]
        BY <3>5 DEF AbortBatch
      <4>2. UNCHANGED app \/ app' = [app EXCEPT ![n] = "idle"]
        BY <3>5 DEF AbortBatch
      <4>3. UNCHANGED <<objects, queue, lost>>
        BY <3>5 DEF AbortBatch
      <4>4. script' \in [Notifiers -> Seq(Batch)]
        BY <1>1, <2>2, <3>1, <4>1
      <4>5. app' \in [Notifiers -> {"idle", "starting", "uninstalling", "cleaning", "stopping"}]
        BY <4>2 DEF TypeOK
      <4> QED
        BY <4>3, <4>4, <4>5
    <3>6. CASE StatementRefused(n)
      <4>1. faults' \in 0..MaxFaults
        BY <3>6 DEF StatementRefused, TypeOK
      <4>2. CASE AbortBatch(n)
        BY <3>5, <4>1, <4>2 DEF TypeOK
      <4>3. CASE ~AbortBatch(n)
        <5>1. /\ script' = [script EXCEPT ![n] = Rest(n)]
              /\ UNCHANGED <<objects, queue, lost, app>>
          BY <3>6, <4>3 DEF StatementRefused
        <5> QED
          BY <1>1, <2>2, <4>1, <5>1 DEF TypeOK
      <4> QED
        BY <4>2, <4>3
    <3>7. CASE BatchFails(n)
      <4>1. faults' \in 0..MaxFaults
        BY <3>7 DEF BatchFails, Fault, TypeOK
      <4> QED
        BY <3>5, <3>7, <4>1 DEF BatchFails, TypeOK
    <3> QED
      BY <1>5, <3>2, <3>3, <3>4, <3>6, <3>7 DEF Script
  <2>5. UNCHANGED untouched
    BY <1>5 DEF Script, BatchFails, ExecProcedure, CreateObject, DropObject,
                StatementRefused, AbortBatch, untouched
  <2> QED
    BY <2>3, <2>5 DEF TypeOK, Batch, untouched, loopVars
<1>6. ASSUME NEW n \in Notifiers, Thread(n) \/ ReceiveFails(n) PROVE TypeOK'
  <2>1. CASE CheckCancel(n)
    BY <2>1 DEF CheckCancel, Goto, TypeOK, dbVars, appVars
  <2>2. CASE Receive(n)
    BY <2>2 DEF Receive, Take, Goto, TypeOK, appVars
  <2>3. CASE Timeout(n) \/ NoQueue(n)
    BY <2>3 DEF Timeout, NoQueue, Take, Goto, TypeOK, appVars
  <2>4. CASE ReceiveFails(n)
    BY <2>4 DEF ReceiveFails, Fault, Take, Goto, TypeOK, appVars
  <2>5. CASE Callback(n)
    <3>1. received' \in SUBSET Changes
      BY <2>5 DEF Callback, TypeOK
    <3>2. loop' \in [Notifiers -> {"none", "check", "receive", "callback", "done"}]
      BY <2>5 DEF Callback, Goto, TypeOK
    <3>3. message' \in [Notifiers -> Changes \cup {Empty}]
      BY <2>5 DEF Callback, TypeOK
    <3>4. faults' \in 0..MaxFaults
      BY <2>5 DEF Callback, Fault, TypeOK
    <3> QED
      BY <2>5, <3>1, <3>2, <3>3, <3>4 DEF Callback, TypeOK, dbVars, appVars
  <2> QED
    BY <1>6, <2>1, <2>2, <2>3, <2>4, <2>5 DEF Thread
<1>7. CASE UNCHANGED vars
  BY <1>7 DEF vars, dbVars, appVars, loopVars, TypeOK
<1> QED
  BY <1>2, <1>3, <1>4, <1>5, <1>6, <1>7 DEF Next, Owner

(* Every variable keeps its type.                                          *)
THEOREM TypeCorrect == Spec => []TypeOK
BY InitType, NextType, PTL DEF Spec

-----------------------------------------------------------------------------
(* A stopped notifier is silent.                                           *)

LEMMA NextSilent == TypeOK /\ SilentInv /\ [Next]_vars => SilentInv'
<1> SUFFICES ASSUME TypeOK, SilentInv, [Next]_vars, NEW n \in Notifiers
             PROVE  /\ script'[n] # << >> => app'[n] \in {"starting", "uninstalling", "cleaning"}
                    /\ cancel'[n] /\ app'[n] # "stopping" => loop'[n] \in {"none", "check", "done"}
                    /\ app'[n] = "starting" => loop'[n] = "none"
  BY DEF SilentInv
<1> DEFINE Goal == /\ script'[n] # << >> => app'[n] \in {"starting", "uninstalling", "cleaning"}
                   /\ cancel'[n] /\ app'[n] # "stopping" => loop'[n] \in {"none", "check", "done"}
                   /\ app'[n] = "starting" => loop'[n] = "none"
<1>0. /\ script[n] # << >> => app[n] \in {"starting", "uninstalling", "cleaning"}
      /\ cancel[n] /\ app[n] # "stopping" => loop[n] \in {"none", "check", "done"}
      /\ app[n] = "starting" => loop[n] = "none"
  BY DEF SilentInv
<1>1. CASE /\ script'[n] = script[n] /\ app'[n] = app[n]
           /\ cancel'[n] = cancel[n] /\ loop'[n] = loop[n]
  BY <1>0, <1>1
<1>2. CASE Change
  BY <1>1, <1>2 DEF Change, appVars, loopVars
<1>3. ASSUME NEW k \in Notifiers, Start(k) PROVE Goal
  BY <1>0, <1>3 DEF Start, Call, loopVars, TypeOK
<1>4. ASSUME NEW k \in Notifiers, uninstall(k) \/ cleanDatabase(k) PROVE Goal
  BY <1>0, <1>4 DEF uninstall, cleanDatabase, Call, loopVars, TypeOK
<1>5. ASSUME NEW k \in Notifiers, notificationLoop(k) PROVE Goal
  BY <1>0, <1>5 DEF notificationLoop, TypeOK
<1>6. ASSUME NEW k \in Notifiers, Return(k) PROVE Goal
  BY <1>0, <1>6 DEF Return, loopVars, TypeOK
<1>7. ASSUME NEW k \in Notifiers, Stop(k) PROVE Goal
  BY <1>0, <1>7 DEF Stop, loopVars, TypeOK
<1>8. ASSUME NEW k \in Notifiers, Join(k) PROVE Goal
  BY <1>0, <1>8 DEF Join, TypeOK
<1>9. ASSUME NEW k \in Notifiers, Script(k) \/ BatchFails(k) PROVE Goal
  <2>1. /\ script[k] # << >>
        /\ UNCHANGED <<loop, cancel>>
        /\ \A j \in Notifiers \ {k} : script'[j] = script[j] /\ app'[j] = app[j]
    BY <1>9 DEF Script, BatchFails, ExecProcedure, CreateObject, DropObject, StatementRefused,
                Refused, Runs, AbortBatch, untouched, loopVars, TypeOK
  <2>2. \/ app'[k] = app[k]
        \/ /\ app'[k] = "idle" /\ app[k] # "starting"
           /\ script'[k] = << >>
    BY <1>9 DEF Script, BatchFails, ExecProcedure, CreateObject, DropObject, StatementRefused,
                AbortBatch, TypeOK
  <2>3. /\ app[k] \in {"starting", "uninstalling", "cleaning"}
        /\ cancel[k] /\ app[k] # "stopping" => loop[k] \in {"none", "check", "done"}
        /\ app[k] = "starting" => loop[k] = "none"
    BY <2>1 DEF SilentInv
  <2> QED
    BY <1>0, <2>1, <2>2, <2>3
<1>10. ASSUME NEW k \in Notifiers, Thread(k) \/ ReceiveFails(k) PROVE Goal
  <2>1. UNCHANGED <<script, app, cancel>>
    BY <1>10 DEF Thread, ReceiveFails, CheckCancel, Receive, Timeout, NoQueue, Callback, Take, appVars
  <2>2. loop[k] # "none" /\ loop' = [loop EXCEPT ![k] = loop'[k]]
    BY <1>10 DEF Thread, ReceiveFails, CheckCancel, Receive, Timeout, NoQueue, Callback, Take, Goto,
                 TypeOK
  <2>3. cancel[k] /\ app[k] # "stopping" => loop'[k] = "done"
    BY <1>10 DEF SilentInv, Thread, ReceiveFails, CheckCancel, Receive, Timeout, NoQueue, Callback,
                 Goto, TypeOK
  <2> QED
    BY <1>0, <2>1, <2>2, <2>3 DEF SilentInv, TypeOK
<1>11. CASE UNCHANGED vars
  BY <1>1, <1>11 DEF vars, appVars, loopVars
<1> QED
  BY <1>2, <1>3, <1>4, <1>5, <1>6, <1>7, <1>8, <1>9, <1>10, <1>11 DEF Next, Owner

(* When stop() has returned, no callback of the notifier runs any more.    *)
THEOREM StaysSilent == Spec => []StoppedMeansSilent
<1>1. Init => SilentInv
  BY DEF Init, SilentInv
<1>2. SilentInv => StoppedMeansSilent
  BY DEF SilentInv, StoppedMeansSilent
<1> QED
  BY <1>1, <1>2, NextSilent, TypeCorrect, PTL DEF Spec

-----------------------------------------------------------------------------
(* No message is counted twice or forgotten.                               *)

AccountedInv == /\ Accounted
                /\ sent \subseteq 1..made
                /\ \A n \in Notifiers : message[n] # Empty => loop[n] = "callback"

Balance == Accounted /\ sent \subseteq 1..made

LEMMA NextBalance ==
  TypeOK /\ AccountedInv /\ [Next]_vars => Balance'
<1> SUFFICES ASSUME TypeOK, AccountedInv, [Next]_vars PROVE Balance'
  OBVIOUS
<1> USE DEF AccountedInv, Balance, Accounted, InHand
<1>0. made \in Nat
  BY BoundsAssumption DEF TypeOK
<1>1. CASE Change
  <2>1. UNCHANGED <<message, received, lost>>
    BY <1>1 DEF Change, loopVars
  <2>2. made' = made + 1 /\ 1..made \subseteq 1..made' /\ made + 1 \in 1..made'
    BY <1>0, <1>1 DEF Change
  <2>3. CASE UNCHANGED <<queue, sent>>
    BY <2>1, <2>2, <2>3
  <2>4. CASE queue' = queue \cup {made + 1} /\ sent' = sent \cup {made + 1}
    <3>1. made + 1 \notin sent
      BY <1>0
    <3>2. sent' \subseteq 1..made'
      BY <2>2, <2>4
    <3>3. Accounted'
      BY <2>1, <2>4, <3>1
    <3> QED
      BY <3>2, <3>3
  <2> QED
    BY <1>1, <2>3, <2>4 DEF Change
<1>2. CASE UNCHANGED <<message, sent, received, made, queue, lost>>
  BY <1>2
<1>3. CASE UNCHANGED <<message, sent, received, made>> /\ queue' = {} /\ lost' = lost \cup queue
  BY <1>3
<1>4. ASSUME NEW n \in Notifiers, Script(n) \/ BatchFails(n)
      PROVE  /\ UNCHANGED <<message, sent, received, made>>
             /\ \/ UNCHANGED <<queue, lost>>
                \/ queue' = {} /\ lost' = lost \cup queue
  BY <1>4 DEF Script, BatchFails, ExecProcedure, CreateObject, DropObject, StatementRefused,
              AbortBatch, untouched, loopVars
<1>5. ASSUME NEW n \in Notifiers,
             \/ Start(n) \/ uninstall(n) \/ cleanDatabase(n) \/ Stop(n)
             \/ notificationLoop(n) \/ Return(n) \/ Join(n) \/ CheckCancel(n)
      PROVE  UNCHANGED <<message, sent, received, made, queue, lost>>
  BY <1>5 DEF Start, uninstall, cleanDatabase, Stop, notificationLoop, Return, Join, CheckCancel,
              dbVars, loopVars
<1>6. ASSUME NEW n \in Notifiers,
             \/ Receive(n) \/ Timeout(n) \/ NoQueue(n) \/ ReceiveFails(n)
      PROVE  Balance'
  <2>0. message[n] = Empty
    BY <1>6 DEF Receive, Timeout, NoQueue, ReceiveFails
  <2>1. UNCHANGED <<sent, made, received>>
    BY <1>6 DEF Receive, Timeout, NoQueue, ReceiveFails, Take
  <2>2. CASE UNCHANGED <<message, queue, lost>>
    BY <2>1, <2>2
  <2>3. ASSUME NEW m \in queue, queue' = queue \ {m}, message' = [message EXCEPT ![n] = m],
               lost' = lost
        PROVE  Balance'
    <3>1. m # Empty /\ m \notin InHand
      <4>1. m \in Changes
        BY <2>3 DEF TypeOK
      <4>2. m # Empty
        BY <4>1 DEF Changes, Empty
      <4> HIDE DEF InHand
      <4> QED
        BY <2>3, <4>2
    <3>2. InHand' = InHand \cup {m}
      BY <2>0, <2>3, <3>1 DEF TypeOK
    <3>3. \A k, l \in Notifiers : message'[k] = message'[l] /\ message'[k] # Empty => k = l
      BY <2>0, <2>3, <3>1 DEF TypeOK
    <3> HIDE DEF InHand
    <3> QED
      BY <2>1, <2>3, <3>1, <3>2, <3>3
  <2>4. ASSUME NEW m \in queue, queue' = queue \ {m}, UNCHANGED message, lost' = lost \cup {m}
        PROVE  Balance'
    BY <2>1, <2>4
  <2>5. message' = [message EXCEPT ![n] = Empty] => message' = message
    BY <2>0 DEF TypeOK
  <2>6. CASE Receive(n)
    BY <2>3, <2>6 DEF Receive, Take
  <2>7. CASE Timeout(n) \/ NoQueue(n)
    BY <2>2, <2>5, <2>7 DEF Timeout, NoQueue, Take
  <2>8. CASE ReceiveFails(n)
    BY <2>2, <2>4, <2>5, <2>8 DEF ReceiveFails, Take
  <2> QED
    BY <1>6, <2>6, <2>7, <2>8
<1>7. ASSUME NEW n \in Notifiers, Callback(n) PROVE Balance'
  <2>1. /\ UNCHANGED <<sent, made, queue, lost>>
        /\ received' = received \cup ({message[n]} \ {Empty})
        /\ message' = [message EXCEPT ![n] = Empty]
    BY <1>7 DEF Callback, dbVars
  <2>2. InHand' = InHand \ {message[n]}
    BY <2>1 DEF TypeOK
  <2>3. \A k, l \in Notifiers : message'[k] = message'[l] /\ message'[k] # Empty => k = l
    BY <2>1 DEF TypeOK
  <2>4. message[n] = Empty \/ message[n] \in InHand
    OBVIOUS
  <2>5. Empty \notin InHand /\ Empty \notin sent
    BY DEF TypeOK, Changes, Empty
  <2> HIDE DEF InHand
  <2> QED
    BY <2>1, <2>2, <2>3, <2>4, <2>5
<1>8. CASE UNCHANGED vars
  BY <1>2, <1>8 DEF vars, dbVars, loopVars
<1>9. ASSUME NEW n \in Notifiers, Script(n) \/ BatchFails(n) PROVE Balance'
  BY <1>2, <1>3, <1>4, <1>9
<1>10. ASSUME NEW n \in Notifiers,
              \/ Start(n) \/ uninstall(n) \/ cleanDatabase(n) \/ Stop(n)
              \/ notificationLoop(n) \/ Return(n) \/ Join(n) \/ CheckCancel(n)
       PROVE  Balance'
  BY <1>2, <1>5, <1>10
<1> HIDE DEF AccountedInv, Balance, Accounted, InHand
<1> QED
  BY <1>1, <1>6, <1>7, <1>8, <1>9, <1>10 DEF Next, Owner, Thread

(* A thread holds a message only while it has a callback to call.          *)
LEMMA NextHand ==
  ASSUME TypeOK, SilentInv, AccountedInv, [Next]_vars, NEW n \in Notifiers
  PROVE  message'[n] # Empty => loop'[n] = "callback"
<1> USE DEF AccountedInv
<1>1. CASE UNCHANGED <<message, loop>>
  BY <1>1
<1>2. ASSUME NEW k \in Notifiers, NEW m \in Changes \cup {Empty}, Take(k, m)
      PROVE  message'[n] # Empty => loop'[n] = "callback"
  BY <1>2 DEF Take, Goto, TypeOK
<1>3. ASSUME NEW k \in Notifiers, notificationLoop(k) \/ Join(k) \/ CheckCancel(k)
      PROVE  message'[n] # Empty => loop'[n] = "callback"
  <2>1. loop[k] # "callback" /\ UNCHANGED message
    BY <1>3 DEF notificationLoop, Join, CheckCancel, SilentInv
  <2>2. \A j \in Notifiers \ {k} : loop'[j] = loop[j]
    BY <1>3 DEF notificationLoop, Join, CheckCancel, Goto, TypeOK
  <2> QED
    BY <2>1, <2>2
<1>4. ASSUME NEW k \in Notifiers, Callback(k)
      PROVE  message'[n] # Empty => loop'[n] = "callback"
  <2>1. message' = [message EXCEPT ![k] = Empty]
    BY <1>4 DEF Callback
  <2>2. \A j \in Notifiers \ {k} : loop'[j] = loop[j]
    BY <1>4 DEF Callback, Goto, TypeOK
  <2> QED
    BY <2>1, <2>2 DEF TypeOK
<1>5. ASSUME NEW k \in Notifiers, Receive(k) \/ Timeout(k) \/ NoQueue(k) \/ ReceiveFails(k)
      PROVE  \E m \in Changes \cup {Empty} : Take(k, m)
  BY <1>5 DEF Receive, Timeout, NoQueue, ReceiveFails, TypeOK
<1>6. ASSUME NEW k \in Notifiers,
             \/ Start(k) \/ uninstall(k) \/ cleanDatabase(k) \/ Stop(k) \/ Return(k)
             \/ Script(k) \/ BatchFails(k)
      PROVE  UNCHANGED <<message, loop>>
  BY <1>6 DEF Start, uninstall, cleanDatabase, Stop, Return, Script, BatchFails, ExecProcedure,
              CreateObject, DropObject, StatementRefused, AbortBatch, untouched, loopVars
<1>7. CASE Change \/ UNCHANGED vars
  BY <1>1, <1>7 DEF Change, vars, loopVars
<1> HIDE DEF AccountedInv
<1> QED
  BY <1>1, <1>2, <1>3, <1>4, <1>5, <1>6, <1>7 DEF Next, Owner, Thread

(* The messages of a listener are neither duplicated nor forgotten, for    *)
(* any number of notifiers that share its queue.                           *)
THEOREM MessagesAreAccounted == Spec => []Accounted
<1>1. Init => SilentInv /\ AccountedInv
  BY BoundsAssumption DEF Init, SilentInv, AccountedInv, Accounted, InHand
<1>2. TypeOK /\ SilentInv /\ AccountedInv /\ [Next]_vars => AccountedInv'
  BY NextBalance, NextHand DEF AccountedInv, Balance
<1>3. AccountedInv => Accounted
  BY DEF AccountedInv
<1> QED
  BY <1>1, <1>2, <1>3, NextSilent, TypeCorrect, PTL DEF Spec

-----------------------------------------------------------------------------
(* Batches whose statements find the objects as they need them.            *)

LEMMA Statements ==
  /\ \A s \in Statement : /\ s.op = "create" => s = Create(s.object)
                          /\ s.op = "drop" => s = Drop(s.object)
                          /\ s.op = "exec" => s = Exec(s.object)
                          /\ s.op \in {"create", "drop", "exec"} /\ s.object \in Objects
  /\ \A o : /\ Create(o).op = "create" /\ Create(o).object = o
            /\ Drop(o).op = "drop" /\ Drop(o).object = o
            /\ Exec(o).op = "exec" /\ Exec(o).object = o
BY DEF Statement, Create, Drop, Exec

LEMMA Distinct ==
  \A o, p : /\ Create(o) = Create(p) => o = p
            /\ Drop(o) = Drop(p) => o = p
            /\ Create(o) # Drop(p) /\ Create(o) # Exec(p) /\ Drop(o) # Exec(p)
  BY Statements

LEMMA BatchTail ==
  ASSUME NEW b \in Seq(Statement), Len(b) > 1
  PROVE  /\ Len(b) \in Nat /\ Len(Tail(b)) = Len(b) - 1 /\ Tail(b) \in Seq(Statement)
         /\ \A i \in 1..Len(Tail(b)) : Tail(b)[i] = b[i + 1] /\ i + 1 \in 2..Len(b)
         /\ \A i \in 1..Len(b) : b[i] \in Statement
         /\ Head(b) = b[1]
OBVIOUS

LEMMA PlainOrdered ==
  ASSUME NEW have, NEW b, Len(b) = 1, b[1].object \in {"install", "uninstall"}
  PROVE  Ordered(have, b)
BY Statements DEF Ordered

(* The first statement has been executed.                                  *)
LEMMA Advance ==
  ASSUME NEW have, NEW now, NEW b \in Seq(Statement), Len(b) > 1, Ordered(have, b),
         \/ b[1].op = "create" /\ now = have \cup {b[1].object}
         \/ b[1].op = "drop" /\ now = have \ {b[1].object}
         \/ b[1].op = "exec" /\ now = have
  PROVE  Ordered(now, Tail(b))
<1>1. PICK c : c = Tail(b)
  OBVIOUS
<1>2. /\ Len(b) \in Nat /\ Len(c) = Len(b) - 1
      /\ \A i \in 1..Len(c) : c[i] = b[i + 1] /\ i + 1 \in 2..Len(b)
      /\ \A i \in 1..Len(b) : b[i] \in Statement
      /\ 1 \in 1..Len(b)
  BY <1>1, BatchTail
<1>3. ASSUME NEW i \in 1..Len(c), NEW s, Before(b, i + 1, s)
      PROVE  b[1] = s \/ Before(c, i, s)
  <2>1. PICK j \in 1..i : b[j] = s
    BY <1>2, <1>3 DEF Before
  <2>2. CASE j # 1
    <3>1. j - 1 \in 1..(i - 1) /\ j - 1 \in 1..Len(c) /\ (j - 1) + 1 = j
      BY <1>2, <2>2
    <3>2. c[j - 1] = s
      BY <1>2, <2>1, <3>1
    <3> QED
      BY <3>1, <3>2 DEF Before
  <2> QED
    BY <2>1, <2>2
<1>4. ASSUME NEW i \in 1..Len(c), b[i + 1].op = "create", NEW o, Present(have, b, i + 1, o)
      PROVE  Present(now, c, i, o)
  <2>1. b[1].op = "create" /\ now = have \cup {b[1].object}
    BY <1>2, <1>4 DEF Ordered
  <2> QED
    BY <1>3, <1>4, <2>1, Statements DEF Present
<1>5. ASSUME NEW i \in 1..Len(c), b[i + 1].op = "drop", b[1].op # "exec", NEW o,
             Absent(have, b, i + 1, o)
      PROVE  Absent(now, c, i, o)
  <2>1. b[1].op # "create"
    BY <1>2, <1>5 DEF Ordered
  <2>2. now = have \ {b[1].object}
    BY <1>5, <2>1
  <2> QED
    BY <1>3, <1>5, <2>2, Statements DEF Absent
<1>6. ASSUME NEW i \in 1..Len(c)
      PROVE  /\ c[i] = Create("service") => Present(now, c, i, "queue")
             /\ c[i] = Create("trigger") => Present(now, c, i, "queue") /\ Present(now, c, i, "service")
             /\ c[i] = Drop("service") => Absent(now, c, i, "trigger")
             /\ c[i] = Drop("queue") => Absent(now, c, i, "trigger") /\ Absent(now, c, i, "service")
  <2>0. i + 1 \in 1..Len(b) /\ i + 1 \in 2..Len(b) /\ c[i] = b[i + 1]
    BY <1>2
  <2>1. CASE b[1].op = "exec"
    <3>1. b[i + 1].object \in {"install", "uninstall"}
      BY <2>0, <2>1 DEF Ordered
    <3> QED
      BY <2>0, <3>1, Statements
  <2>2. CASE b[1].op # "exec"
    <3>0. /\ b[i + 1] = Create("service") => Present(have, b, i + 1, "queue")
          /\ b[i + 1] = Create("trigger")
                => Present(have, b, i + 1, "queue") /\ Present(have, b, i + 1, "service")
          /\ b[i + 1] = Drop("service") => Absent(have, b, i + 1, "trigger")
          /\ b[i + 1] = Drop("queue")
                => Absent(have, b, i + 1, "trigger") /\ Absent(have, b, i + 1, "service")
      BY <2>0 DEF Ordered
    <3>1. ASSUME c[i] = Create("service") \/ c[i] = Create("trigger")
          PROVE  b[i + 1].op = "create"
      BY <2>0, <3>1, Statements
    <3>2. ASSUME c[i] = Drop("service") \/ c[i] = Drop("queue")
          PROVE  b[i + 1].op = "drop"
      BY <2>0, <3>2, Statements
    <3>3. \A o : b[i + 1].op = "create" /\ Present(have, b, i + 1, o) => Present(now, c, i, o)
      BY <1>4
    <3>4. \A o : b[i + 1].op = "drop" /\ Absent(have, b, i + 1, o) => Absent(now, c, i, o)
      BY <1>5, <2>2
    <3> HIDE DEF Ordered
    <3> QED
      BY <2>0, <3>0, <3>1, <3>2, <3>3, <3>4
  <2> QED
    BY <2>1, <2>2
<1>7. \A i, j \in 1..Len(c) : c[i].op = "create" => c[j].op = "create"
  BY <1>2 DEF Ordered
<1>8. \A i \in 1..Len(c) : c[i].op # "exec"
  BY <1>2 DEF Ordered
<1>9. \A i \in 2..Len(c) : i \in 1..Len(c) /\ 1 \in 1..Len(c)
  BY <1>2
<1> QED
  BY <1>1, <1>6, <1>7, <1>8, <1>9 DEF Ordered

LEMMA BodyOrdered ==
  \A p, have :
     /\ Ordered(have, Body(p)) /\ Len(Body(p)) \in {3, 5}
     /\ p = "uninstall" => /\ Len(Body(p)) = 5 /\ Body(p)[1] = Drop("trigger") /\ Body(p)[2] = Drop("service")
                           /\ Body(p)[3] = Drop("queue") /\ Body(p)[4] = Drop("install")
                           /\ Body(p)[5] = Drop("uninstall")
     /\ p = "install" => /\ Len(Body(p)) = 3 /\ Body(p)[1] = Create("queue")
                         /\ Body(p)[2] = Create("service") /\ Body(p)[3] = Create("trigger")
<1> SUFFICES ASSUME NEW p, NEW have, NEW b, b = Body(p)
             PROVE  /\ Ordered(have, b) /\ Len(b) \in {3, 5}
                    /\ p = "uninstall" => /\ Len(b) = 5 /\ b[1] = Drop("trigger") /\ b[2] = Drop("service")
                                          /\ b[3] = Drop("queue") /\ b[4] = Drop("install")
                                          /\ b[5] = Drop("uninstall")
                    /\ p = "install" => /\ Len(b) = 3 /\ b[1] = Create("queue")
                                        /\ b[2] = Create("service") /\ b[3] = Create("trigger")
  OBVIOUS
<1>1. CASE p = "install"
  <2>1. Len(b) = 3 /\ b[1] = Create("queue") /\ b[2] = Create("service") /\ b[3] = Create("trigger")
    BY <1>1 DEF Body
  <2>2. /\ Before(b, 2, Create("queue")) /\ Before(b, 3, Create("queue"))
        /\ Before(b, 3, Create("service"))
    BY <2>1 DEF Before
  <2>3. 1..3 = {1, 2, 3} /\ 2..3 = {2, 3}
    OBVIOUS
  <2>4. Ordered(have, b)
    BY <2>1, <2>2, <2>3, Statements DEF Ordered, Present
  <2> QED
    BY <1>1, <2>1, <2>4
<1>2. CASE p # "install"
  <2>1. /\ Len(b) = 5 /\ b[1] = Drop("trigger") /\ b[2] = Drop("service") /\ b[3] = Drop("queue")
        /\ b[4] = Drop("install") /\ b[5] = Drop("uninstall")
    BY <1>2 DEF Body
  <2>2. /\ Before(b, 2, Drop("trigger")) /\ Before(b, 3, Drop("trigger"))
        /\ Before(b, 3, Drop("service"))
    BY <2>1 DEF Before
  <2>3. 1..5 = {1, 2, 3, 4, 5} /\ 2..5 = {2, 3, 4, 5}
    OBVIOUS
  <2>4. Ordered(have, b)
    BY <2>1, <2>2, <2>3, Statements DEF Ordered, Absent
  <2> QED
    BY <1>2, <2>1, <2>4
<1> QED
  BY <1>1, <1>2

(* A procedure has been replaced by its body.                              *)
LEMMA Splice ==
  ASSUME NEW have, NEW b \in Seq(Statement), b # << >>, Ordered(have, b), b[1].op = "exec"
  PROVE  /\ Ordered(have, Body(b[1].object) \o Tail(b))
         /\ Len(Body(b[1].object) \o Tail(b)) >= Len(Body(b[1].object))
         /\ \A i \in 1..Len(Body(b[1].object)) :
               (Body(b[1].object) \o Tail(b))[i] = Body(b[1].object)[i]
<1>1. PICK a : a = Body(b[1].object)
  OBVIOUS
<1>2. PICK d : d = a \o Tail(b)
  OBVIOUS
<1>3. /\ a \in Seq(Statement) /\ Tail(b) \in Seq(Statement) /\ Len(b) \in Nat /\ Len(b) >= 1
      /\ Len(Tail(b)) = Len(b) - 1
  BY <1>1, BodyType DEF Batch
<1>4. /\ Len(d) = Len(a) + (Len(b) - 1) /\ Len(a) \in Nat
      /\ \A i \in 1..Len(a) : d[i] = a[i]
      /\ \A i \in 1..Len(d) : i > Len(a) => d[i] = Tail(b)[i - Len(a)]
  BY <1>2, <1>3
<1>5. Ordered(have, a) /\ Len(a) \in {3, 5} /\ 1 \in 1..Len(a)
  BY <1>1, BodyOrdered
<1>6. ASSUME NEW i \in 1..Len(d), i > Len(a)
      PROVE  d[i].op = "drop" /\ d[i].object \in {"install", "uninstall"} /\ b[1] = Exec("uninstall")
  <2>1. PICK k \in 2..Len(b) : d[i] = b[k]
    <3>1. i - Len(a) \in 1..Len(Tail(b)) /\ (i - Len(a)) + 1 \in 2..Len(b)
      BY <1>3, <1>4, <1>6
    <3>2. Tail(b)[i - Len(a)] = b[(i - Len(a)) + 1]
      BY <1>3, <3>1
    <3> QED
      BY <1>4, <1>6, <3>1, <3>2
  <2>2. b[k] \in Statement /\ k \in 1..Len(b) /\ 1 \in 1..Len(b)
    BY <1>3
  <2>3. b[k].op # "exec" /\ b[k].op # "create" /\ b[k].object \in {"install", "uninstall"}
    BY <2>2 DEF Ordered
  <2> QED
    BY <2>1, <2>2, <2>3, Statements DEF Ordered
<1>7. \A i \in 1..Len(a) : \A s : Before(a, i, s) => Before(d, i, s)
  <2> SUFFICES ASSUME NEW i \in 1..Len(a), NEW s, Before(a, i, s) PROVE Before(d, i, s)
    OBVIOUS
  <2>1. PICK j \in 1..(i - 1) : a[j] = s
    BY DEF Before
  <2>2. j \in 1..Len(a)
    BY <1>4
  <2> QED
    BY <1>4, <2>1, <2>2 DEF Before
<1>8. ASSUME NEW i \in 1..Len(d)
      PROVE  /\ d[i] = Create("service") => Present(have, d, i, "queue")
             /\ d[i] = Create("trigger") => Present(have, d, i, "queue") /\ Present(have, d, i, "service")
             /\ d[i] = Drop("service") => Absent(have, d, i, "trigger")
             /\ d[i] = Drop("queue") => Absent(have, d, i, "trigger") /\ Absent(have, d, i, "service")
  <2>1. CASE i > Len(a)
    BY <1>6, <2>1, Statements
  <2>2. CASE ~(i > Len(a))
    <3>1. i \in 1..Len(a) /\ d[i] = a[i]
      BY <1>4, <2>2
    <3> QED
      BY <1>5, <1>7, <3>1 DEF Ordered, Present, Absent
  <2> QED
    BY <2>1, <2>2
<1>9. \A i, j \in 1..Len(d) : d[i].op = "create" => d[j].op = "create"
  <2>1. CASE b[1] = Exec("uninstall")
    <3>1. \A i \in 1..Len(a) : a[i].op = "drop"
      <4>1. /\ Len(a) = 5 /\ a[1] = Drop("trigger") /\ a[2] = Drop("service") /\ a[3] = Drop("queue")
            /\ a[4] = Drop("install") /\ a[5] = Drop("uninstall")
        BY <1>1, <2>1, BodyOrdered, Statements
      <4>2. 1..5 = {1, 2, 3, 4, 5}
        OBVIOUS
      <4> QED
        BY <4>1, <4>2, Statements
    <3>2. \A i \in 1..Len(d) : d[i].op = "drop"
      BY <1>4, <1>6, <3>1
    <3> QED
      BY <3>2
  <2>2. CASE b[1] # Exec("uninstall")
    <3>1. \A i \in 1..Len(d) : i \in 1..Len(a) /\ d[i] = a[i]
      BY <1>4, <1>6, <2>2
    <3> QED
      BY <1>5, <3>1 DEF Ordered
  <2> QED
    BY <2>1, <2>2
<1>10. \A i \in 1..Len(a) : a[i].op # "exec"
  <2>1. CASE b[1].object = "install"
    <3>1. Len(a) = 3 /\ a[1] = Create("queue") /\ a[2] = Create("service") /\ a[3] = Create("trigger")
      BY <1>1, <2>1, BodyOrdered
    <3>2. 1..3 = {1, 2, 3}
      OBVIOUS
    <3> QED
      BY <3>1, <3>2, Statements
  <2>2. CASE b[1].object # "install"
    <3>1. /\ Len(a) = 5 /\ a[1] = Drop("trigger") /\ a[2] = Drop("service") /\ a[3] = Drop("queue")
          /\ a[4] = Drop("install") /\ a[5] = Drop("uninstall")
      BY <1>1, <2>2 DEF Body
    <3>2. 1..5 = {1, 2, 3, 4, 5}
      OBVIOUS
    <3> QED
      BY <3>1, <3>2, Statements
  <2> QED
    BY <2>1, <2>2
<1>11. \A i \in 1..Len(d) : d[i].op # "exec"
  BY <1>4, <1>6, <1>10
<1>12. \A i \in 2..Len(d) : i \in 1..Len(d) /\ 1 \in 1..Len(d)
  BY <1>4
<1>13. Ordered(have, d)
  BY <1>8, <1>9, <1>11, <1>12 DEF Ordered
<1> QED
  BY <1>1, <1>2, <1>3, <1>4, <1>13

-----------------------------------------------------------------------------
(* What is left of a script.                                               *)

LEMMA NewHead ==
  ASSUME NEW s, s \in Seq(Batch), s # << >>, NEW x \in Batch
  PROVE  /\ <<x>> \o Tail(s) # << >> /\ Len(<<x>> \o Tail(s)) = Len(s) /\ (<<x>> \o Tail(s))[1] = x
         /\ \A i \in 2..Len(s) : (<<x>> \o Tail(s))[i] = s[i]
<1>1. PICK t : t = Tail(s)
  OBVIOUS
<1>2. /\ t \in Seq(Batch) /\ Len(t) = Len(s) - 1 /\ Len(s) \in Nat /\ Len(s) >= 1
      /\ \A i \in 1..Len(t) : t[i] = s[i + 1]
  BY <1>1
<1>3. PICK u : u = <<x>> \o t
  OBVIOUS
<1>4. /\ u \in Seq(Batch) /\ Len(u) = 1 + Len(t) /\ u[1] = x
      /\ \A i \in 1..Len(u) : i > 1 => u[i] = t[i - 1]
  BY <1>2, <1>3
<1>5. ASSUME NEW i \in 2..Len(s) PROVE u[i] = s[i]
  <2>1. i \in 1..Len(u) /\ i > 1 /\ i - 1 \in 1..Len(t) /\ (i - 1) + 1 = i
    BY <1>2, <1>4
  <2> QED
    BY <1>2, <1>4, <2>1
<1>6. u # << >>
  BY <1>2, <1>4
<1> QED
  BY <1>1, <1>2, <1>3, <1>4, <1>5, <1>6

LEMMA Script1 ==
  ASSUME TypeOK, NEW n \in Notifiers, script[n] # << >>
  PROVE  /\ script[n] \in Seq(Batch)
         /\ script[n][1] \in Seq(Statement) /\ script[n][1] # << >>
         /\ Len(script[n][1]) \in Nat /\ Len(script[n][1]) >= 1
         /\ Head(script[n]) = script[n][1] /\ First(n) = script[n][1][1] /\ First(n) \in Statement
         /\ Len(script[n]) \in Nat /\ Len(script[n]) >= 1
         /\ Len(Tail(script[n])) = Len(script[n]) - 1
         /\ \A i \in 1..Len(Tail(script[n])) : Tail(script[n])[i] = script[n][i + 1]
         /\ Len(script[n]) = 1 => Tail(script[n]) = << >>
<1>1. PICK s : s = script[n]
  OBVIOUS
<1>2. s \in Seq(Batch) /\ s # << >>
  BY <1>1 DEF TypeOK, Batch
<1>3. /\ Head(s) = s[1] /\ s[1] \in Batch /\ Len(s) \in Nat /\ Len(s) >= 1
      /\ Len(Tail(s)) = Len(s) - 1 /\ Tail(s) \in Seq(Batch)
      /\ \A i \in 1..Len(Tail(s)) : Tail(s)[i] = s[i + 1]
  BY <1>2
<1>4. s[1] \in Seq(Statement) /\ s[1] # << >>
  BY <1>3 DEF Batch
<1>5. /\ Len(s[1]) \in Nat /\ Len(s[1]) >= 1 /\ Head(s[1]) = s[1][1] /\ s[1][1] \in Statement
  BY <1>4
<1>6. Len(s) = 1 => Tail(s) = << >>
  <2>1. PICK t : t = Tail(s)
    OBVIOUS
  <2>2. t \in Seq(Batch) /\ (Len(s) = 1 => Len(t) = 0)
    BY <1>3, <2>1
  <2>3. Len(t) = 0 => t = << >>
    BY <2>2
  <2> QED
    BY <2>1, <2>2, <2>3
<1> QED
  BY <1>1, <1>2, <1>3, <1>4, <1>5, <1>6 DEF First

LEMMA OneOrMore == \A k \in Nat : k >= 1 /\ k # 1 => k > 1
OBVIOUS

LEMMA ExactlyOne == \A k \in Nat : k >= 1 /\ k <= 1 => k = 1
OBVIOUS

LEMMA Spliced ==
  ASSUME TypeOK, NEW n \in Notifiers, script[n] # << >>, NEW p
  PROVE  Body(p) \o Tail(script[n][1]) \in Batch
<1>1. PICK a : a = Body(p)
  OBVIOUS
<1>2. PICK t : t = Tail(script[n][1])
  OBVIOUS
<1>3. a \in Seq(Statement) /\ a # << >> /\ t \in Seq(Statement)
  BY <1>1, <1>2, BodyType, Script1 DEF Batch
<1>4. a \o t \in Seq(Statement) /\ a \o t # << >>
  BY <1>3
<1> QED
  BY <1>1, <1>2, <1>4 DEF Batch

LEMMA RestShape ==
  ASSUME TypeOK, NEW n \in Notifiers, script[n] # << >>
  PROVE  /\ Len(script[n][1]) = 1 => Rest(n) = Tail(script[n])
         /\ Len(script[n][1]) # 1 =>
               /\ Rest(n) # << >> /\ Len(Rest(n)) = Len(script[n])
               /\ Rest(n)[1] = Tail(script[n][1])
               /\ \A i \in 2..Len(script[n]) : Rest(n)[i] = script[n][i]
<1>1. Len(script[n][1]) = 1 => Rest(n) = Tail(script[n])
  BY Script1 DEF Rest
<1>2. CASE Len(script[n][1]) # 1
  <2>1. Len(script[n][1]) > 1
    <3>1. PICK k : k = Len(script[n][1])
      OBVIOUS
    <3>2. k \in Nat /\ k >= 1
      BY <3>1, Script1
    <3>3. k > 1
      BY <1>2, <3>1, <3>2, OneOrMore
    <3> QED
      BY <3>1, <3>3
  <2>2. Tail(script[n][1]) \in Seq(Statement) /\ Len(Tail(script[n][1])) # 0
    BY <2>1, Script1, BatchTail
  <2>3. Tail(script[n][1]) \in Batch
    <3>1. PICK t : t = Tail(script[n][1])
      OBVIOUS
    <3>2. Len(<< >>) = 0
      OBVIOUS
    <3>3. t # << >>
      BY <2>2, <3>1, <3>2, Zenon
    <3> QED
      BY <2>2, <3>1, <3>3 DEF Batch
  <2>4. Rest(n) = <<Tail(script[n][1])>> \o Tail(script[n])
    BY <1>2, Script1 DEF Rest
  <2> QED
    BY <1>2, <2>3, <2>4, Script1, NewHead
<1> QED
  BY <1>1, <1>2

LEMMA TailOrdered ==
  ASSUME TypeOK, NEW n \in Notifiers, script[n] # << >>, NEW now,
         \A i \in 2..Len(script[n]) : Plain(script[n][i])
  PROVE  /\ Tail(script[n]) # << >> => Ordered(now, Tail(script[n])[1])
         /\ \A i \in 2..Len(Tail(script[n])) : Plain(Tail(script[n])[i])
<1>1. PICK s : s = script[n]
  OBVIOUS
<1>2. PICK t : t = Tail(s)
  OBVIOUS
<1>3. /\ Len(t) = Len(s) - 1 /\ Len(s) \in Nat /\ Len(s) >= 1
      /\ \A i \in 1..Len(t) : t[i] = s[i + 1]
      /\ t \in Seq(Batch)
  BY <1>1, <1>2, Script1
<1>4. ASSUME t # << >> PROVE Ordered(now, t[1])
  <2>1. 1 \in 1..Len(t) /\ 2 \in 2..Len(s)
    BY <1>3, <1>4
  <2>2. Plain(t[1])
    BY <1>1, <1>3, <2>1
  <2> QED
    BY <2>2, PlainOrdered DEF Plain
<1>5. ASSUME NEW i \in 2..Len(t) PROVE Plain(t[i])
  <2>1. i \in 1..Len(t) /\ i + 1 \in 2..Len(s)
    BY <1>3
  <2> QED
    BY <1>1, <1>3, <2>1
<1> QED
  BY <1>1, <1>2, <1>4, <1>5

LEMMA RestOrdered ==
  ASSUME TypeOK, NEW n \in Notifiers, script[n] # << >>, NEW now,
         Ordered(objects, script[n][1]), \A i \in 2..Len(script[n]) : Plain(script[n][i]),
         \/ First(n).op = "create" /\ now = objects \cup {First(n).object}
         \/ First(n).op = "drop" /\ now = objects \ {First(n).object}
         \/ First(n).op = "exec" /\ now = objects
  PROVE  /\ Rest(n) # << >> => Ordered(now, Rest(n)[1])
         /\ \A i \in 2..Len(Rest(n)) : Plain(Rest(n)[i])
<1>1. CASE Len(script[n][1]) = 1
  BY <1>1, RestShape, TailOrdered
<1>2. CASE Len(script[n][1]) # 1
  <2>1. Ordered(now, Tail(script[n][1]))
    <3>1. PICK b : b = script[n][1]
      OBVIOUS
    <3>2. b \in Seq(Statement) /\ Len(b) \in Nat /\ Len(b) >= 1 /\ First(n) = b[1]
      BY <3>1, Script1
    <3>3. Len(b) # 1 /\ Ordered(objects, b)
      BY <1>2, <3>1
    <3>4. Len(b) > 1
      BY <3>2, <3>3, OneOrMore
    <3> QED
      BY <3>1, <3>2, <3>3, <3>4, Advance
  <2> QED
    BY <1>2, <2>1, RestShape
<1> QED
  BY <1>1, <1>2

-----------------------------------------------------------------------------
(* A notifier that is alone: one lemma per kind of step.                   *)

(* A step that leaves the objects and the script alone.                    *)
LEMMA LeftAlone ==
  ASSUME NEW n \in Notifiers, Undisturbed(n), objects' = objects, script'[n] = script[n],
         faults' = 0 => faults = 0,
         app'[n] = app[n] \/ {app[n], app'[n]} \subseteq {"idle", "stopping"}
  PROVE  Undisturbed(n)'
<1>1. ASSUME Whole(n) PROVE Whole(n)'
  <2>1. Installs(n)' <=> Installs(n)
    BY DEF Installs
  <2>2. Removes(n)' <=> Removes(n)
    BY DEF Removes
  <2> QED
    BY <1>1, <2>1, <2>2 DEF Whole
<1> QED
  BY <1>1 DEF Undisturbed

(* A statement of a script, before what is left is looked at.              *)
LEMMA NotRefused ==
  ASSUME TypeOK, NEW n \in Notifiers, Undisturbed(n), script[n] # << >>
  PROVE  ~Refused(n)
<1>1. PICK b : b = script[n][1]
  OBVIOUS
<1>2. b \in Seq(Statement) /\ Len(b) >= 1 /\ First(n) = b[1] /\ First(n) \in Statement
      /\ 1 \in 1..Len(b) /\ Ordered(objects, b)
  BY <1>1, Script1 DEF Undisturbed
<1>3. \A s : ~Before(b, 1, s)
  BY DEF Before
<1>4. First(n) = Create("service") => "queue" \in objects
  BY <1>2, <1>3 DEF Ordered, Present
<1>5. First(n) = Drop("queue") => "service" \notin objects
  BY <1>2, <1>3 DEF Ordered, Absent
<1> QED
  BY <1>2, <1>4, <1>5, Statements DEF Refused, Runs

LEMMA TriggerKept ==
  ASSUME TypeOK, NEW n \in Notifiers, Undisturbed(n), CreateObject(n) \/ DropObject(n)
  PROVE  "trigger" \in objects' => {"queue", "service"} \subseteq objects'
<1>0. script[n] # << >>
  BY DEF CreateObject, DropObject, Runs
<1>1. PICK b : b = script[n][1]
  OBVIOUS
<1>2. b \in Seq(Statement) /\ Len(b) >= 1 /\ First(n) = b[1] /\ First(n) \in Statement
      /\ 1 \in 1..Len(b) /\ Ordered(objects, b)
  BY <1>0, <1>1, Script1 DEF Undisturbed
<1>3. \A s : ~Before(b, 1, s)
  BY DEF Before
<1>4. /\ First(n) = Create("trigger") => {"queue", "service"} \subseteq objects
      /\ First(n) \in {Drop("service"), Drop("queue")} => "trigger" \notin objects
  BY <1>2, <1>3 DEF Ordered, Present, Absent
<1>5. "trigger" \in objects => {"queue", "service"} \subseteq objects
  BY DEF Undisturbed
<1>6. PICK o : o = First(n).object
  OBVIOUS
<1>7. CASE CreateObject(n)
  <2>1. First(n) = Create(o) /\ objects' = objects \cup {o}
    BY <1>2, <1>6, <1>7, Statements DEF CreateObject, Runs
  <2> QED
    BY <1>4, <1>5, <2>1
<1>8. CASE DropObject(n)
  <2>1. First(n) = Drop(o) /\ objects' = objects \ {o}
    BY <1>2, <1>6, <1>8, Statements DEF DropObject, Runs
  <2> QED
    BY <1>4, <1>5, <2>1
<1> QED
  BY <1>7, <1>8

LEMMA OrderKept ==
  ASSUME TypeOK, NEW n \in Notifiers, Undisturbed(n),
         CreateObject(n) \/ DropObject(n) \/ ExecProcedure(n) \/ AbortBatch(n), script[n] # << >>
  PROVE  /\ script'[n] # << >> => Ordered(objects', script'[n][1])
         /\ \A i \in 2..Len(script'[n]) : Plain(script'[n][i])
<1>1. Ordered(objects, script[n][1]) /\ \A i \in 2..Len(script[n]) : Plain(script[n][i])
  BY DEF Undisturbed
<1>2. CASE script'[n] = Rest(n)
            /\ (\/ First(n).op = "create" /\ objects' = objects \cup {First(n).object}
                \/ First(n).op = "drop" /\ objects' = objects \ {First(n).object}
                \/ First(n).op = "exec" /\ objects' = objects)
  BY <1>1, <1>2, RestOrdered
<1>3. CASE CreateObject(n)
  BY <1>2, <1>3 DEF CreateObject, Runs, TypeOK
<1>4. CASE DropObject(n)
  BY <1>2, <1>4 DEF DropObject, Runs, TypeOK
<1>5. CASE ExecProcedure(n)
  <2>1. First(n).op = "exec" /\ objects' = objects
    BY <1>5 DEF ExecProcedure, Runs
  <2>2. CASE First(n).object \notin objects
    <3>1. script'[n] = Rest(n)
      BY <1>5, <2>2 DEF ExecProcedure, TypeOK
    <3> QED
      BY <1>2, <2>1, <3>1
  <2>3. CASE First(n).object \in objects
    <3>1. PICK x : x = Body(First(n).object) \o Tail(script[n][1])
      OBVIOUS
    <3>2. x \in Batch
      BY <3>1, Spliced
    <3>3. script'[n] = <<x>> \o Tail(script[n])
      BY <1>5, <2>3, <3>1, Script1 DEF ExecProcedure, TypeOK
    <3>4. Ordered(objects, x)
      BY <1>1, <2>1, <3>1, Script1, Splice
    <3> QED
      BY <1>1, <2>1, <3>2, <3>3, <3>4, Script1, NewHead
  <2> QED
    BY <2>2, <2>3
<1>6. CASE AbortBatch(n)
  <2>1. script'[n] = Tail(script[n]) \/ script'[n] = << >>
    BY <1>6 DEF AbortBatch, AfterBatch, TypeOK
  <2>2. CASE script'[n] = Tail(script[n])
    BY <1>1, <2>2, TailOrdered
  <2>3. CASE script'[n] = << >>
    <3>1. Len(script'[n]) = 0
      BY <2>3
    <3> QED
      BY <2>3, <3>1
  <2> QED
    BY <2>1, <2>2, <2>3
<1> QED
  BY <1>3, <1>4, <1>5, <1>6

LEMMA InstallScript ==
  /\ installNotification # << >> /\ Len(installNotification) = 3
  /\ installNotification[1] = <<Create("install")>>
  /\ Tail(installNotification) # << >> /\ Len(Tail(installNotification)) = 2
  /\ Tail(installNotification)[1] = <<Create("uninstall")>>
  /\ Tail(Tail(installNotification)) # << >> /\ Len(Tail(Tail(installNotification))) = 1
  /\ Tail(Tail(installNotification))[1] = <<Exec("install")>>
<1>1. PICK x, y, z : x = <<Create("install")>> /\ y = <<Create("uninstall")>> /\ z = <<Exec("install")>>
  OBVIOUS
<1>2. installNotification = <<x, y, z>>
  BY <1>1 DEF installNotification
<1>3. Tail(<<x, y, z>>) = <<y, z>> /\ Tail(<<y, z>>) = <<z>>
  OBVIOUS
<1> QED
  BY <1>1, <1>2, <1>3

(* Without failures: what an install or a removal still has to do.         *)
LEMMA CreateWhole ==
  ASSUME TypeOK, NEW n \in Notifiers, SilentInv, Undisturbed(n), Whole(n), CreateObject(n)
  PROVE  Whole(n)'
<1>0. script[n] # << >> /\ First(n).op = "create"
  BY DEF CreateObject, Runs
<1>1. PICK b, o : b = script[n][1] /\ o = b[1].object
  OBVIOUS
<1>2. /\ b \in Seq(Statement) /\ Len(b) \in Nat /\ Len(b) >= 1 /\ First(n) = b[1]
      /\ First(n) = Create(o) /\ o \in Objects
  BY <1>0, <1>1, Script1, Statements
<1>3. /\ objects' = objects \cup {o} /\ script'[n] = Rest(n) /\ app' = app
  BY <1>1, <1>2 DEF CreateObject, TypeOK
<1>4. app[n] = "starting" /\ Installs(n)
  <2>1. app[n] \in {"starting", "uninstalling", "cleaning"}
    BY <1>0 DEF SilentInv
  <2>2. b[1].op = "create" /\ b[1] # Exec("uninstall")
    BY <1>0, <1>2, Statements
  <2>3. ~Removes(n)
    BY <1>0, <1>1, <2>2 DEF Removes
  <2> QED
    BY <2>1, <2>3 DEF Whole
<1>5. Len(b) = 1 => script'[n] = Tail(script[n])
  BY <1>0, <1>1, <1>3, RestShape
<1>6. Installs(n)'
  <2>1. CASE script[n] = installNotification /\ objects \in {{}, Objects}
    <3>1. b = <<Create("install")>>
      BY <1>1, <2>1, InstallScript
    <3>2. Len(b) = 1 /\ o = "install"
      BY <1>1, <3>1, Statements
    <3>3. script'[n] = Tail(installNotification) /\ objects' \in {{"install"}, Objects}
      BY <1>2, <1>3, <1>5, <2>1, <3>2
    <3> QED
      BY <3>3 DEF Installs
  <2>2. CASE script[n] = Tail(installNotification) /\ objects \in {{"install"}, Objects}
    <3>1. b = <<Create("uninstall")>>
      BY <1>1, <2>2, InstallScript
    <3>2. Len(b) = 1 /\ o = "uninstall"
      BY <1>1, <3>1, Statements
    <3>3. script'[n] = Tail(Tail(installNotification))
          /\ objects' \in {{"install", "uninstall"}, Objects}
      BY <1>2, <1>3, <1>5, <2>2, <3>2
    <3> QED
      BY <3>3 DEF Installs
  <2>3. ~(script[n] = Tail(Tail(installNotification)))
    <3>1. <<Exec("install")>>[1] = Exec("install")
      OBVIOUS
    <3> QED
      <4> SUFFICES ASSUME script[n] = Tail(Tail(installNotification)) PROVE FALSE
        OBVIOUS
      <4>1. b[1] = Exec("install")
        BY <1>1, <3>1, InstallScript
      <4>2. b[1] = Create(o)
        BY <1>2
      <4> QED
        BY <4>1, <4>2, Distinct
  <2>4. CASE /\ Len(script[n]) = 1
             /\ \A p \in Objects \ objects : \E i \in 1..Len(b) : b[i] = Create(p)
    <3>1. CASE Len(b) = 1
      <4>1. \A p \in Objects \ objects : p = o
        <5> SUFFICES ASSUME NEW p \in Objects \ objects PROVE p = o
          OBVIOUS
        <5>1. PICK i \in 1..1 : b[i] = Create(p)
          BY <2>4, <3>1
        <5>2. b[1] = Create(p)
          BY <5>1
        <5> QED
          BY <1>2, <5>2, Distinct
      <4>2. objects' = Objects
        BY <1>2, <1>3, <4>1 DEF TypeOK
      <4>3. script'[n] = << >>
        BY <1>0, <1>5, <2>4, <3>1, Script1
      <4> QED
        BY <4>2, <4>3 DEF Installs
    <3>2. CASE Len(b) # 1
      <4>0. Len(b) > 1
        BY <1>2, <3>2, OneOrMore
      <4>1. PICK c : c = Tail(b)
        OBVIOUS
      <4>2. Len(c) = Len(b) - 1 /\ \A i \in 1..Len(c) : c[i] = b[i + 1] /\ i + 1 \in 1..Len(b)
        BY <1>2, <4>0, <4>1
      <4>3. c[1].op = "create"
        <5>1. 1 \in 1..Len(c) /\ c[1] = b[2] /\ 2 \in 1..Len(b) /\ 1 \in 1..Len(b)
          BY <1>2, <4>0, <4>2
        <5>2. Ordered(objects, b)
          BY <1>0, <1>1 DEF Undisturbed
        <5> QED
          BY <1>0, <1>2, <5>1, <5>2 DEF Ordered
      <4>4. \A p \in Objects \ objects' : \E i \in 1..Len(c) : c[i] = Create(p)
        <5> SUFFICES ASSUME NEW p \in Objects \ objects' PROVE \E i \in 1..Len(c) : c[i] = Create(p)
          OBVIOUS
        <5>1. PICK i \in 1..Len(b) : b[i] = Create(p)
          BY <1>3, <2>4
        <5>2. i # 1
          BY <1>2, <1>3, <5>1, Distinct
        <5>3. i - 1 \in 1..Len(c) /\ c[i - 1] = b[i]
          BY <1>2, <4>2, <5>2
        <5> QED
          BY <5>1, <5>3
      <4>5. Len(script'[n]) = 1 /\ script'[n][1] = c
        BY <1>0, <1>1, <1>3, <2>4, <3>2, <4>1, RestShape
      <4> QED
        BY <4>3, <4>4, <4>5 DEF Installs
    <3> QED
      BY <3>1, <3>2
  <2> QED
    BY <1>0, <1>1, <1>4, <2>1, <2>2, <2>3, <2>4 DEF Installs
<1> QED
  BY <1>3, <1>4, <1>6 DEF Whole

LEMMA DropWhole ==
  ASSUME TypeOK, NEW n \in Notifiers, SilentInv, Undisturbed(n), Whole(n), DropObject(n)
  PROVE  Whole(n)'
<1>0. script[n] # << >> /\ First(n).op = "drop"
  BY DEF DropObject, Runs
<1>1. PICK b, o : b = script[n][1] /\ o = b[1].object
  OBVIOUS
<1>2. /\ b \in Seq(Statement) /\ Len(b) \in Nat /\ Len(b) >= 1 /\ First(n) = b[1]
      /\ First(n) = Drop(o) /\ o \in Objects
  BY <1>0, <1>1, Script1, Statements
<1>3. /\ objects' = objects \ {o} /\ script'[n] = Rest(n) /\ app' = app
  BY <1>1, <1>2 DEF DropObject, TypeOK
<1>4. app[n] \in {"uninstalling", "cleaning"} /\ Removes(n)
  <2>1. app[n] \in {"starting", "uninstalling", "cleaning"}
    BY <1>0 DEF SilentInv
  <2>2. /\ <<Create("install")>>[1] = Create("install")
        /\ <<Create("uninstall")>>[1] = Create("uninstall")
        /\ <<Exec("install")>>[1] = Exec("install")
    OBVIOUS
  <2>3. b[1] # Create("install") /\ b[1] # Create("uninstall") /\ b[1] # Exec("install")
    BY <1>2, Distinct
  <2>4. /\ script[n] # installNotification /\ script[n] # Tail(installNotification)
        /\ script[n] # Tail(Tail(installNotification))
    BY <1>1, <2>2, <2>3, InstallScript
  <2>5. b[1].op # "create"
    BY <1>0, <1>2
  <2>6. ~Installs(n)
    BY <1>0, <1>1, <2>4, <2>5 DEF Installs
  <2> QED
    BY <2>1, <2>6 DEF Whole
<1>5. /\ Len(script[n]) = 1
      /\ \A p \in objects : \E i \in 1..Len(b) : b[i] = Drop(p)
  <2>1. Len(script[n]) \in Nat /\ Len(script[n]) >= 1 /\ Len(script[n]) <= 1
    BY <1>0, <1>4, Script1 DEF Removes
  <2>2. Len(script[n]) = 1
    BY <2>1, ExactlyOne
  <2>3. b[1] # Exec("uninstall")
    BY <1>2, Distinct
  <2> QED
    BY <1>0, <1>1, <1>4, <2>2, <2>3 DEF Removes
<1>6. Removes(n)'
  <2>1. CASE Len(b) = 1
    <3>1. objects' = {}
      <4> SUFFICES ASSUME NEW p \in objects PROVE p = o
        BY <1>3
      <4>1. PICK i \in 1..1 : b[i] = Drop(p)
        BY <1>5, <2>1
      <4>2. b[1] = Drop(p)
        BY <4>1
      <4> QED
        BY <1>2, <4>2, Distinct
    <3>2. script'[n] = << >>
      BY <1>0, <1>1, <1>3, <1>5, <2>1, RestShape, Script1
    <3>3. Len(script'[n]) = 0
      BY <3>2
    <3> QED
      BY <3>1, <3>2, <3>3 DEF Removes
  <2>2. CASE Len(b) # 1
    <3>0. Len(b) > 1
      BY <1>2, <2>2, OneOrMore
    <3>1. PICK c : c = Tail(b)
      OBVIOUS
    <3>2. Len(c) = Len(b) - 1 /\ \A i \in 1..Len(c) : c[i] = b[i + 1] /\ i + 1 \in 1..Len(b)
      BY <1>2, <3>0, <3>1
    <3>3. c[1].op = "drop"
      <4>1. c[1] = b[2] /\ 2 \in 1..Len(b) /\ 2 \in 2..Len(b) /\ 1 \in 1..Len(b) /\ b[2] \in Statement
        BY <1>2, <3>0, <3>2
      <4>2. Ordered(objects, b)
        BY <1>0, <1>1 DEF Undisturbed
      <4>3. b[1].op = "drop"
        BY <1>0, <1>2
      <4>4. b[2].op # "exec" /\ b[2].op # "create"
        BY <4>1, <4>2, <4>3 DEF Ordered
      <4> QED
        BY <4>1, <4>4, Statements
    <3>4. \A p \in objects' : \E i \in 1..Len(c) : c[i] = Drop(p)
      <4> SUFFICES ASSUME NEW p \in objects' PROVE \E i \in 1..Len(c) : c[i] = Drop(p)
        OBVIOUS
      <4>1. PICK i \in 1..Len(b) : b[i] = Drop(p)
        BY <1>3, <1>5
      <4>2. i # 1
        BY <1>2, <1>3, <4>1, Distinct
      <4>3. i - 1 \in 1..Len(c) /\ c[i - 1] = b[i]
        BY <1>2, <3>2, <4>2
      <4> QED
        BY <4>1, <4>3
    <3>5. Len(script'[n]) = 1 /\ script'[n][1] = c /\ script'[n] # << >>
      BY <1>0, <1>1, <1>3, <1>5, <2>2, <3>1, RestShape
    <3> QED
      BY <3>3, <3>4, <3>5 DEF Removes
  <2> QED
    BY <2>1, <2>2
<1> QED
  BY <1>3, <1>4, <1>6 DEF Whole

LEMMA ExecWhole ==
  ASSUME TypeOK, NEW n \in Notifiers, SilentInv, Undisturbed(n), Whole(n), ExecProcedure(n)
  PROVE  Whole(n)'
<1>0. script[n] # << >> /\ First(n).op = "exec"
  BY DEF ExecProcedure, Runs
<1>1. PICK b, o : b = script[n][1] /\ o = b[1].object
  OBVIOUS
<1>2. /\ b \in Seq(Statement) /\ b # << >> /\ Len(b) \in Nat /\ Len(b) >= 1 /\ First(n) = b[1]
      /\ First(n) = Exec(o) /\ o \in Objects /\ Ordered(objects, b)
  BY <1>0, <1>1, Script1, Statements DEF Undisturbed
<1>3. /\ objects' = objects /\ app' = app
      /\ o \notin objects => script'[n] = Rest(n)
      /\ o \in objects => script'[n] = <<Body(o) \o Tail(b)>> \o Tail(script[n])
  BY <1>0, <1>1, <1>2, Script1 DEF ExecProcedure, TypeOK
<1>4. PICK x : x = Body(o) \o Tail(b)
  OBVIOUS
<1>a. x \in Batch
  BY <1>0, <1>1, <1>4, Spliced
<1>b. script[n] \in Seq(Batch)
  BY <1>0, Script1
<1>5. o \in objects => /\ Len(script'[n]) = Len(script[n])
                       /\ script'[n][1] = x /\ script'[n] # << >>
  BY <1>0, <1>3, <1>4, <1>a, <1>b, NewHead
<1>6. Len(x) >= Len(Body(o)) /\ \A i \in 1..Len(Body(o)) : x[i] = Body(o)[i]
  <2>1. b[1].op = "exec" /\ b[1].object = o
    BY <1>0, <1>1, <1>2
  <2> QED
    BY <1>2, <1>4, <2>1, Splice
<1>7. Len(x) \in Nat
  BY <1>a DEF Batch
<1>8. CASE app[n] = "starting"
  <2>1. Installs(n)
    BY <1>8 DEF Whole
  <2>2. /\ <<Create("install")>>[1] = Create("install")
        /\ <<Create("uninstall")>>[1] = Create("uninstall")
        /\ <<Exec("install")>>[1] = Exec("install")
    OBVIOUS
  <2>3. /\ script[n] = Tail(Tail(installNotification))
        /\ objects \in {{"install", "uninstall"}, Objects}
    <3>1. b[1] # Create("install") /\ b[1] # Create("uninstall") /\ b[1].op # "create"
      BY <1>0, <1>2, Distinct
    <3>2. script[n] # installNotification /\ script[n] # Tail(installNotification)
      BY <1>1, <2>2, <3>1, InstallScript
    <3> QED
      BY <1>0, <1>1, <2>1, <3>1, <3>2 DEF Installs
  <2>4. o = "install" /\ o \in objects /\ Len(script[n]) = 1
    BY <1>1, <1>2, <2>2, <2>3, InstallScript, Statements DEF Objects
  <2>5. Len(x) >= 3 /\ x[1] = Create("queue") /\ x[2] = Create("service") /\ x[3] = Create("trigger")
    <3>1. /\ Len(Body(o)) = 3 /\ Body(o)[1] = Create("queue")
          /\ Body(o)[2] = Create("service") /\ Body(o)[3] = Create("trigger")
      BY <2>4, BodyOrdered
    <3> QED
      BY <1>6, <3>1
  <2>6. 1 \in 1..Len(x) /\ 2 \in 1..Len(x) /\ 3 \in 1..Len(x)
    BY <1>7, <2>5
  <2>7. \A p \in Objects \ objects : p \in {"queue", "service", "trigger"}
    BY <2>3 DEF Objects
  <2>8. \A p \in Objects \ objects' : \E i \in 1..Len(x) : x[i] = Create(p)
    BY <1>3, <2>5, <2>6, <2>7
  <2>9. x[1].op = "create" /\ Len(script'[n]) = 1 /\ script'[n][1] = x
    BY <1>5, <2>4, <2>5, Statements
  <2> QED
    BY <1>3, <1>8, <2>8, <2>9 DEF Whole, Installs
<1>9. CASE app[n] \in {"uninstalling", "cleaning"}
  <2>1. Removes(n)
    BY <1>9 DEF Whole
  <2>2. Len(script[n]) = 1
    <3>1. Len(script[n]) \in Nat /\ Len(script[n]) >= 1 /\ Len(script[n]) <= 1
      BY <1>0, <2>1, Script1 DEF Removes
    <3> QED
      BY <3>1, ExactlyOne
  <2>3. o = "uninstall" /\ objects \in {{}, Objects}
    BY <1>0, <1>1, <1>2, <2>1, Statements DEF Removes
  <2>4. CASE objects = {}
    <3>1. script'[n] = Rest(n)
      BY <1>3, <2>4
    <3>2. CASE Len(b) = 1
      <4>1. script'[n] = << >>
        BY <1>0, <1>1, <2>2, <3>1, <3>2, RestShape, Script1
      <4>2. Len(script'[n]) = 0
        BY <4>1
      <4> QED
        BY <1>3, <1>9, <2>4, <4>1, <4>2 DEF Whole, Removes
    <3>3. CASE Len(b) # 1
      <4>0. Len(b) > 1
        BY <1>2, <3>3, OneOrMore
      <4>1. PICK c : c = Tail(b)
        OBVIOUS
      <4>2. c[1] = b[2] /\ 2 \in 1..Len(b) /\ 2 \in 2..Len(b) /\ 1 \in 1..Len(b) /\ b[2] \in Statement
        BY <1>2, <4>0, <4>1
      <4>3. b[2].op # "exec" /\ b[2].op # "create"
        <5>1. b[1].op = "exec"
          BY <1>0, <1>2
        <5> QED
          BY <1>2, <4>2, <5>1 DEF Ordered
      <4>4. c[1].op = "drop"
        BY <4>2, <4>3, Statements
      <4>5. Len(script'[n]) = 1 /\ script'[n][1] = c /\ script'[n] # << >>
        BY <1>0, <1>1, <2>2, <3>1, <3>3, <4>1, RestShape
      <4> QED
        BY <1>3, <1>9, <2>4, <4>4, <4>5 DEF Whole, Removes
    <3> QED
      BY <3>2, <3>3
  <2>5. CASE objects = Objects
    <3>1. Len(script'[n]) = 1 /\ script'[n][1] = x /\ script'[n] # << >>
      BY <1>2, <1>5, <2>2, <2>5
    <3>2. /\ Len(Body(o)) = 5 /\ Body(o)[1] = Drop("trigger") /\ Body(o)[2] = Drop("service")
          /\ Body(o)[3] = Drop("queue") /\ Body(o)[4] = Drop("install")
          /\ Body(o)[5] = Drop("uninstall")
      BY <2>3, BodyOrdered
    <3>3. /\ Len(x) >= 5 /\ x[1] = Drop("trigger") /\ x[2] = Drop("service") /\ x[3] = Drop("queue")
          /\ x[4] = Drop("install") /\ x[5] = Drop("uninstall")
      BY <1>6, <3>2
    <3>4. 1 \in 1..Len(x) /\ 2 \in 1..Len(x) /\ 3 \in 1..Len(x) /\ 4 \in 1..Len(x) /\ 5 \in 1..Len(x)
      BY <1>7, <3>3
    <3>5. \A p \in objects' : \E i \in 1..Len(x) : x[i] = Drop(p)
      BY <1>3, <2>5, <3>3, <3>4 DEF Objects
    <3>6. x[1].op = "drop"
      BY <3>3, Statements
    <3> QED
      BY <1>3, <1>9, <3>1, <3>5, <3>6 DEF Whole, Removes
  <2> QED
    BY <2>3, <2>4, <2>5
<1> QED
  BY <1>0, <1>8, <1>9 DEF SilentInv

LEMMA ScriptUndisturbed ==
  ASSUME TypeOK, SilentInv, NEW n \in Notifiers, Undisturbed(n), Script(n) \/ BatchFails(n)
  PROVE  Undisturbed(n)'
<1>0. script[n] # << >>
  BY DEF Script, BatchFails, ExecProcedure, CreateObject, DropObject, StatementRefused, Refused, Runs
<1>1. "trigger" \in objects => {"queue", "service"} \subseteq objects
  BY DEF Undisturbed
<1>2. ~StatementRefused(n)
  BY <1>0, NotRefused DEF StatementRefused
<1>3. CASE CreateObject(n) \/ DropObject(n)
  <2>1. faults' = faults
    BY <1>3 DEF CreateObject, DropObject
  <2>2. faults = 0 => Whole(n)
    BY DEF Undisturbed
  <2>3. faults' = 0 => Whole(n)'
    BY <1>3, <2>1, <2>2, CreateWhole, DropWhole
  <2> QED
    BY <1>0, <1>3, <2>3, TriggerKept, OrderKept DEF Undisturbed
<1>4. CASE ExecProcedure(n)
  <2>1. faults' = faults /\ objects' = objects
    BY <1>4 DEF ExecProcedure
  <2>2. faults = 0 => Whole(n)
    BY DEF Undisturbed
  <2>3. faults' = 0 => Whole(n)'
    BY <1>4, <2>1, <2>2, ExecWhole
  <2> QED
    BY <1>0, <1>1, <1>4, <2>1, <2>3, OrderKept DEF Undisturbed
<1>5. CASE BatchFails(n)
  <2>1. AbortBatch(n) /\ faults' # 0
    BY <1>5 DEF BatchFails, Fault, TypeOK
  <2>2. objects' = objects
    BY <2>1 DEF AbortBatch
  <2> QED
    BY <1>0, <1>1, <2>1, <2>2, OrderKept DEF Undisturbed
<1> QED
  BY <1>2, <1>3, <1>4, <1>5 DEF Script

LEMMA CleaningOrdered == \A have : Ordered(have, sqlFormatForcedDatabaseCleaning[1])
<1> SUFFICES ASSUME NEW have, NEW b, b = sqlFormatForcedDatabaseCleaning[1] PROVE Ordered(have, b)
  OBVIOUS
<1>1. b = <<Exec("uninstall"), Drop("uninstall"), Drop("install")>>
  BY DEF sqlFormatForcedDatabaseCleaning
<1>2. Len(b) = 3 /\ b[1] = Exec("uninstall") /\ b[2] = Drop("uninstall") /\ b[3] = Drop("install")
  BY <1>1
<1>3. 1..3 = {1, 2, 3} /\ 2..3 = {2, 3}
  OBVIOUS
<1> QED
  BY <1>2, <1>3, Statements DEF Ordered

LEMMA CallUndisturbed ==
  ASSUME TypeOK, NEW n \in Notifiers, Undisturbed(n), Start(n) \/ uninstall(n) \/ cleanDatabase(n)
  PROVE  Undisturbed(n)'
<1>1. objects' = objects /\ faults' = faults /\ app[n] = "idle"
  BY DEF Start, uninstall, cleanDatabase, Call, dbVars
<1>2. ("trigger" \in objects => {"queue", "service"} \subseteq objects)'
  BY <1>1 DEF Undisturbed
<1>3. faults = 0 => objects \in {{}, Objects}
  BY <1>1 DEF Undisturbed, Whole
<1>4. CASE Start(n)
  <2>1. script'[n] = installNotification /\ app'[n] = "starting"
    BY <1>4 DEF Start, Call, TypeOK, serviceNames, identity, conversationServiceName
  <2>2. /\ installNotification[1] = <<Create("install")>>
        /\ installNotification[2] = <<Create("uninstall")>>
        /\ installNotification[3] = <<Exec("install")>>
        /\ Len(installNotification) = 3
    <3>1. PICK x, y, z : x = <<Create("install")>> /\ y = <<Create("uninstall")>> /\ z = <<Exec("install")>>
      OBVIOUS
    <3> QED
      BY <3>1 DEF installNotification
  <2>3. /\ <<Create("install")>>[1] = Create("install") /\ Len(<<Create("install")>>) = 1
        /\ <<Create("uninstall")>>[1] = Create("uninstall") /\ Len(<<Create("uninstall")>>) = 1
        /\ <<Exec("install")>>[1] = Exec("install") /\ Len(<<Exec("install")>>) = 1
    OBVIOUS
  <2>4. \A i \in 1..3 : Plain(installNotification[i])
    <3>1. 1..3 = {1, 2, 3}
      OBVIOUS
    <3>2. Plain(<<Create("install")>>) /\ Plain(<<Create("uninstall")>>) /\ Plain(<<Exec("install")>>)
      BY <2>3, Statements DEF Plain
    <3> QED
      BY <2>2, <3>1, <3>2
  <2>5. Ordered(objects', script'[n][1])
    BY <2>1, <2>4, PlainOrdered DEF Plain
  <2>6. \A i \in 2..Len(script'[n]) : Plain(script'[n][i])
    BY <2>1, <2>2, <2>4
  <2>7. faults' = 0 => Whole(n)'
    BY <1>1, <1>3, <2>1 DEF Whole, Installs
  <2> QED
    BY <1>2, <2>5, <2>6, <2>7 DEF Undisturbed
<1>5. CASE uninstall(n)
  <2>1. script'[n] = unstallListenerScript /\ app'[n] = "uninstalling"
    BY <1>5 DEF uninstall, Call, TypeOK
  <2>2. PICK x : x = <<Exec("uninstall")>>
    OBVIOUS
  <2>3. x[1] = Exec("uninstall") /\ Len(x) = 1
    BY <2>2
  <2>4. Len(script'[n]) = 1 /\ script'[n][1] = x /\ script'[n] # << >>
    BY <2>1, <2>2 DEF unstallListenerScript
  <2>5. Ordered(objects', x)
    BY <2>3, PlainOrdered, Statements
  <2>6. faults' = 0 => Whole(n)'
    BY <1>1, <1>3, <2>1, <2>3, <2>4 DEF Whole, Removes
  <2> QED
    BY <1>2, <2>4, <2>5, <2>6 DEF Undisturbed
<1>6. CASE cleanDatabase(n)
  <2>1. script'[n] = sqlFormatForcedDatabaseCleaning /\ app'[n] = "cleaning"
    BY <1>6 DEF cleanDatabase, Call, TypeOK
  <2>2. PICK x : x = <<Exec("uninstall"), Drop("uninstall"), Drop("install")>>
    OBVIOUS
  <2>3. x[1] = Exec("uninstall")
    BY <2>2
  <2>4. Len(script'[n]) = 1 /\ script'[n][1] = x /\ script'[n] # << >>
    BY <2>1, <2>2 DEF sqlFormatForcedDatabaseCleaning
  <2>5. Ordered(objects', script'[n][1])
    BY <2>1, CleaningOrdered
  <2>6. faults' = 0 => Whole(n)'
    BY <1>1, <1>3, <2>1, <2>3, <2>4 DEF Whole, Removes
  <2> QED
    BY <1>2, <2>4, <2>5, <2>6 DEF Undisturbed
<1> QED
  BY <1>4, <1>5, <1>6

LEMMA ReturnUndisturbed ==
  ASSUME TypeOK, NEW n \in Notifiers, Undisturbed(n), notificationLoop(n) \/ Return(n)
  PROVE  Undisturbed(n)'
<1>1. /\ objects' = objects /\ faults' = faults /\ script' = script /\ script[n] = << >>
      /\ app'[n] = "idle"
      /\ app[n] \in {"starting", "uninstalling", "cleaning"}
  BY DEF notificationLoop, Return, dbVars, TypeOK
<1>2. ASSUME Whole(n) PROVE objects \in {{}, Objects}
  <2>1. CASE Installs(n)
    <3>1. Len(<< >>) = 0
      OBVIOUS
    <3> QED
      BY <1>1, <2>1, <3>1, InstallScript DEF Installs
  <2>2. CASE Removes(n)
    BY <1>1, <2>2 DEF Removes
  <2> QED
    BY <1>1, <1>2, <2>1, <2>2 DEF Whole
<1>3. faults' = 0 => Whole(n)'
  BY <1>1, <1>2 DEF Undisturbed, Whole
<1> QED
  BY <1>1, <1>3 DEF Undisturbed

-----------------------------------------------------------------------------
(* Every step.                                                             *)

LEMMA UsedStep ==
  ASSUME TypeOK, [Next]_vars
  PROVE  /\ Used \subseteq Used'
         /\ Used' = Used \/ \E n \in Notifiers : Used' = Used \cup {n}
         /\ \A n \in Notifiers : Start(n) \/ uninstall(n) \/ cleanDatabase(n) => n \in Used'
<1>1. ASSUME NEW n \in Notifiers, Start(n) \/ uninstall(n) \/ cleanDatabase(n)
      PROVE  n \in Used' /\ Used' = Used \cup {n}
  <2>1. calls' = [calls EXCEPT ![n] = @ + 1] /\ calls[n] \in Nat
    BY <1>1 DEF Start, uninstall, cleanDatabase, Call, TypeOK
  <2> QED
    BY <2>1 DEF Used, TypeOK
<1>2. ASSUME UNCHANGED calls PROVE Used' = Used
  BY <1>2 DEF Used
<1>3. ASSUME NEW n \in Notifiers, \/ Stop(n) \/ Owner(n) \/ BatchFails(n) \/ Thread(n) \/ ReceiveFails(n)
      PROVE  UNCHANGED calls
  BY <1>3 DEF Stop, Owner, Script, ExecProcedure, CreateObject, DropObject, StatementRefused,
              AbortBatch, untouched, notificationLoop, Return, Join, BatchFails, Thread, CheckCancel,
              Receive, Timeout, NoQueue, Callback, ReceiveFails, Take, appVars
<1>4. CASE Change \/ UNCHANGED vars
  BY <1>1, <1>2, <1>4 DEF Change, vars, appVars
<1> QED
  BY <1>1, <1>2, <1>3, <1>4 DEF Next

LEMMA UnusedStep ==
  ASSUME TypeOK, LoneInv, [Next]_vars, NEW n \in Notifiers \ Used'
  PROVE  script'[n] = << >> /\ app'[n] \in {"idle", "stopping"}
<1>1. n \notin Used /\ script[n] = << >> /\ app[n] \in {"idle", "stopping"}
  BY UsedStep DEF LoneInv
<1>2. CASE script' = script /\ (app' = app \/ \E k \in Notifiers, a \in {"idle", "stopping"} :
                                                   app' = [app EXCEPT ![k] = a])
  BY <1>1, <1>2 DEF TypeOK
<1>3. ASSUME NEW k \in Notifiers, Start(k) \/ uninstall(k) \/ cleanDatabase(k)
      PROVE  script'[n] = script[n] /\ app'[n] = app[n]
  <2>1. k # n
    BY <1>3, UsedStep
  <2> QED
    BY <1>3, <2>1 DEF Start, uninstall, cleanDatabase, Call, TypeOK
<1>4. ASSUME NEW k \in Notifiers, Script(k) \/ BatchFails(k)
      PROVE  script'[n] = script[n] /\ app'[n] = app[n]
  <2>1. k # n
    BY <1>1, <1>4 DEF Script, BatchFails, ExecProcedure, CreateObject, DropObject, StatementRefused,
                      Refused, Runs
  <2> QED
    BY <1>4, <2>1 DEF Script, BatchFails, ExecProcedure, CreateObject, DropObject, StatementRefused,
                      AbortBatch, TypeOK
<1>5. ASSUME NEW k \in Notifiers, Stop(k) \/ Join(k) \/ notificationLoop(k) \/ Return(k)
      PROVE  script' = script /\ \E a \in {"idle", "stopping"} : app' = [app EXCEPT ![k] = a]
  BY <1>5 DEF Stop, Join, notificationLoop, Return
<1>6. ASSUME NEW k \in Notifiers, Thread(k) \/ ReceiveFails(k)
      PROVE  script' = script /\ app' = app
  BY <1>6 DEF Thread, CheckCancel, Receive, Timeout, NoQueue, Callback, ReceiveFails, Take, appVars
<1>7. CASE Change \/ UNCHANGED vars
  BY <1>2, <1>7 DEF Change, vars, appVars
<1> QED
  BY <1>1, <1>2, <1>3, <1>4, <1>5, <1>6, <1>7 DEF Next, Owner

LEMMA UndisturbedStep ==
  ASSUME TypeOK, SilentInv, LoneInv, [Next]_vars, NEW n \in Notifiers, Used' \subseteq {n}
  PROVE  Undisturbed(n)'
<1>1. Used \subseteq {n} /\ Undisturbed(n)
  BY UsedStep DEF LoneInv
<1>2. ASSUME NEW k \in Notifiers, script[k] # << >> \/ app[k] \in {"starting", "uninstalling", "cleaning"}
      PROVE  k = n
  BY <1>1, <1>2 DEF LoneInv
<1>3. ASSUME NEW k \in Notifiers, Start(k) \/ uninstall(k) \/ cleanDatabase(k)
      PROVE  k = n
  BY <1>3, UsedStep
<1>4. ASSUME NEW k \in Notifiers, Script(k) \/ BatchFails(k)
      PROVE  Undisturbed(n)'
  <2>1. script[k] # << >>
    BY <1>4 DEF Script, BatchFails, ExecProcedure, CreateObject, DropObject, StatementRefused,
                Refused, Runs
  <2>2. k = n
    BY <1>2, <2>1
  <2> QED
    BY <1>1, <1>4, <2>2, ScriptUndisturbed
<1>5. ASSUME NEW k \in Notifiers, notificationLoop(k) \/ Return(k)
      PROVE  Undisturbed(n)'
  <2>1. app[k] \in {"starting", "uninstalling", "cleaning"}
    BY <1>5 DEF notificationLoop, Return
  <2>2. k = n
    BY <1>2, <2>1
  <2> QED
    BY <1>1, <1>5, <2>2, ReturnUndisturbed
<1>6. ASSUME NEW k \in Notifiers, Stop(k) \/ Join(k)
      PROVE  Undisturbed(n)'
  <2>1. /\ objects' = objects /\ script' = script /\ faults' = faults
        /\ app'[n] = app[n] \/ {app[n], app'[n]} \subseteq {"idle", "stopping"}
    BY <1>6 DEF Stop, Join, dbVars, TypeOK
  <2> QED
    BY <1>1, <2>1, LeftAlone
<1>7. ASSUME NEW k \in Notifiers, Thread(k) \/ ReceiveFails(k)
      PROVE  Undisturbed(n)'
  <2>1. objects' = objects /\ script' = script /\ app' = app
    BY <1>7 DEF Thread, CheckCancel, Receive, Timeout, NoQueue, Callback, ReceiveFails, Take, dbVars,
                appVars
  <2>2. faults' = faults \/ Fault
    BY <1>7 DEF Thread, CheckCancel, Receive, Timeout, NoQueue, Callback, ReceiveFails
  <2>3. faults' = 0 => faults = 0
    BY <2>2 DEF Fault, TypeOK
  <2> QED
    BY <1>1, <2>1, <2>3, LeftAlone
<1>8. CASE Change \/ UNCHANGED vars
  <2>1. objects' = objects /\ script' = script /\ app' = app /\ faults' = faults
    BY <1>8 DEF Change, vars, dbVars, appVars
  <2> QED
    BY <1>1, <2>1, LeftAlone
<1> QED
  BY <1>1, <1>3, <1>4, <1>5, <1>6, <1>7, <1>8, CallUndisturbed DEF Next, Owner

LEMMA InitLone == Init => LoneInv
<1> SUFFICES ASSUME Init PROVE LoneInv
  OBVIOUS
<1>1. Used = {}
  BY DEF Init, Used
<1>2. IsFiniteSet(Used)
  BY <1>1, FS_EmptySet
<1>3. \A n \in Notifiers : script[n] = << >> /\ app[n] = "idle" /\ objects = {} /\ Len(script[n]) = 0
  BY DEF Init
<1>4. \A n \in Notifiers : Undisturbed(n)
  BY <1>3 DEF Undisturbed, Whole
<1> QED
  BY <1>2, <1>3, <1>4 DEF LoneInv

LEMMA NextLone == TypeOK /\ SilentInv /\ LoneInv /\ [Next]_vars => LoneInv'
<1> SUFFICES ASSUME TypeOK, SilentInv, LoneInv, [Next]_vars PROVE LoneInv'
  OBVIOUS
<1>1. IsFiniteSet(Used')
  <2>1. IsFiniteSet(Used)
    BY DEF LoneInv
  <2> QED
    BY <2>1, UsedStep, FS_AddElement
<1>2. \A n \in Notifiers \ Used' : script'[n] = << >> /\ app'[n] \in {"idle", "stopping"}
  BY UnusedStep
<1>3. ASSUME NEW n \in Notifiers, Used' \subseteq {n} PROVE Undisturbed(n)'
  BY <1>3, UndisturbedStep
<1> QED
  BY <1>1, <1>2, <1>3 DEF LoneInv

LEMMA LoneIsOne ==
  ASSUME LoneInv, Lone
  PROVE  \E n \in Notifiers : Used = {n} /\ Undisturbed(n)
<1>1. IsFiniteSet(Used) /\ Cardinality(Used) = 1
  BY DEF LoneInv, Lone
<1>2. PICK n : Used = {n}
  BY <1>1, FS_Singleton
<1>3. n \in Notifiers
  BY <1>2 DEF Used
<1> QED
  BY <1>2, <1>3 DEF LoneInv

(* A notifier that has the table for itself leaves no trigger that has     *)
(* nowhere to send, whatever statement of whatever call fails.             *)
THEOREM TriggersHaveTargets == Spec => []TriggerHasTarget
<1>1. Init => SilentInv
  BY DEF Init, SilentInv
<1>2. LoneInv => TriggerHasTarget
  BY LoneIsOne DEF TriggerHasTarget, Undisturbed
<1> QED
  BY <1>1, <1>2, InitLone, NextLone, NextSilent, TypeCorrect, PTL DEF Spec

(* When its uninstall() or cleanDatabase() returns, and nothing has ever   *)
(* failed, nothing is left in the database.                                *)
THEOREM RemovalIsComplete == Spec => RemovalComplete
<1>1. Init => SilentInv
  BY DEF Init, SilentInv
<1>2. TypeOK /\ SilentInv /\ LoneInv /\ [Next]_vars =>
        [\A n \in Notifiers :
           Lone /\ app[n] \in {"uninstalling", "cleaning"} /\ app'[n] = "idle" /\ faults' = 0
              => objects' = {}]_vars
  <2> SUFFICES ASSUME TypeOK, SilentInv, LoneInv, Next, NEW n \in Notifiers, Lone,
                      app[n] \in {"uninstalling", "cleaning"}, app'[n] = "idle", faults' = 0
               PROVE  objects' = {}
    OBVIOUS
  <2>1. Undisturbed(n)
    BY LoneIsOne DEF LoneInv
  <2>2. ASSUME NEW k \in Notifiers,
               \/ Start(k) \/ uninstall(k) \/ cleanDatabase(k) \/ Stop(k) \/ Join(k)
               \/ notificationLoop(k) \/ Thread(k) \/ ReceiveFails(k)
        PROVE  FALSE
    <3>1. CASE Start(k) \/ uninstall(k) \/ cleanDatabase(k)
      BY <3>1 DEF Start, uninstall, cleanDatabase, Call, TypeOK
    <3>2. CASE Stop(k) \/ Join(k) \/ notificationLoop(k)
      BY <3>2 DEF Stop, Join, notificationLoop, TypeOK
    <3>3. CASE Thread(k) \/ ReceiveFails(k)
      BY <3>3 DEF Thread, CheckCancel, Receive, Timeout, NoQueue, Callback, ReceiveFails, Take, appVars
    <3> QED
      BY <2>2, <3>1, <3>2, <3>3
  <2>3. ASSUME NEW k \in Notifiers, Script(k) \/ BatchFails(k) PROVE FALSE
    <3>1. CASE ExecProcedure(k) \/ CreateObject(k) \/ DropObject(k)
      BY <3>1 DEF ExecProcedure, CreateObject, DropObject
    <3>2. CASE StatementRefused(k)
      <4>1. k = n
        BY <3>2 DEF StatementRefused, AbortBatch, TypeOK
      <4>2. script[n] # << >>
        BY <3>2, <4>1 DEF StatementRefused, Refused, Runs
      <4> QED
        BY <2>1, <3>2, <4>1, <4>2, NotRefused DEF StatementRefused
    <3>3. CASE BatchFails(k)
      BY <3>3 DEF BatchFails, Fault, TypeOK
    <3> QED
      BY <2>3, <3>1, <3>2, <3>3 DEF Script
  <2>4. ~Change
    BY DEF Change, appVars
  <2>5. PICK k \in Notifiers : Return(k)
    BY <2>2, <2>3, <2>4 DEF Next, Owner
  <2>6. k = n
    BY <2>5 DEF Return, TypeOK
  <2>7. script[n] = << >> /\ objects' = objects /\ faults = 0
    BY <2>5, <2>6 DEF Return, dbVars
  <2> QED
    BY <2>1, <2>7 DEF Undisturbed, Whole, Removes
<1> QED
  BY <1>1, <1>2, InitLone, NextLone, NextSilent, TypeCorrect, PTL DEF Spec, RemovalComplete
=============================================================================
