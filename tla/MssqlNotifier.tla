---------------------------- MODULE MssqlNotifier ----------------------------
(***************************************************************************)
(* store::storage::mssql::Notifier: SQL Server query notifications through *)
(* a trigger, a Service Broker queue and a thread that waits for messages. *)
(* Several notifiers, of one or of several processes, watch one table and  *)
(* share its database objects.                                             *)
(*                                                                         *)
(* A call runs scripts statement by statement, and each statement commits  *)
(* on its own: other notifiers act in between, and a connection that fails *)
(* leaves the objects as they are.  "IF NOT EXISTS ... CREATE" is one      *)
(* step: the loser of a race gets an error and the same objects.           *)
(***************************************************************************)
EXTENDS Naturals, Sequences, FiniteSets

CONSTANTS
    Notifiers,
    MaxChanges,   \* bound: changes of the table
    MaxCalls,     \* bound: calls of start, uninstall and cleanDatabase, times the
                  \* notifiers that make them
    MaxFaults     \* bound: failures of connections and of the callback

ASSUME BoundsAssumption == MaxChanges \in Nat /\ MaxCalls \in Nat /\ MaxFaults \in Nat

VARIABLES
    objects,      \* what is installed in the database
    queue,        \* messages in the listener's queue
    made,         \* number of changes committed so far
    sent,         \* history: changes the trigger has sent a message for
    received,     \* history: changes given to a callback
    lost,         \* history: messages dropped by the server, or with an answer
    app,          \* what the notifier's owner is doing
    script,       \* batches its call has still to execute
    loop,         \* what notificationLoopThread is doing
    cancel,       \* the flag
    message,      \* the loop's local variable
    calls, faults

dbVars == <<objects, queue, made, sent, lost>>
appVars == <<app, script, calls>>
loopVars == <<loop, message, received>>
vars == <<dbVars, appVars, loopVars, cancel, faults>>

Changes == 1..MaxChanges
Empty == 0                          \* the empty string
Objects == {"queue", "service", "trigger", "install", "uninstall"}

(* Names in sys.services.                                                  *)
identity == "id"
conversationServiceName == "ListenerService_id"

-----------------------------------------------------------------------------
(* The scripts.  "install" and "uninstall" are stored procedures.          *)

Statement == [op : {"create", "drop", "exec"}, object : Objects]
Create(o) == [op |-> "create", object |-> o]
Drop(o)   == [op |-> "drop", object |-> o]
Exec(p)   == [op |-> "exec", object |-> p]

(* Variant that drops the trigger last.                                    *)
BodyTriggerLast(p) ==
    IF p = "install"
      THEN <<Create("queue"), Create("service"), Create("trigger")>>
      ELSE <<Drop("service"), Drop("queue"), Drop("trigger"), Drop("install"), Drop("uninstall")>>

Body(p) ==
    IF p = "install"
      THEN <<Create("queue"), Create("service"), Create("trigger")>>
      ELSE <<Drop("trigger"), Drop("service"), Drop("queue"), Drop("install"), Drop("uninstall")>>

installNotification == << <<Create("install")>>, <<Create("uninstall")>>, <<Exec("install")>> >>
unstallListenerScript == << <<Exec("uninstall")>> >>

(* Variant that drops the procedures without running them.                 *)
CleaningDropsOnly == << <<Drop("uninstall"), Drop("install")>> >>
sqlFormatForcedDatabaseCleaning == << <<Exec("uninstall"), Drop("uninstall"), Drop("install")>> >>

Init == /\ objects = {}
        /\ queue = {} /\ made = 0 /\ sent = {} /\ received = {} /\ lost = {}
        /\ app = [n \in Notifiers |-> "idle"]
        /\ script = [n \in Notifiers |-> << >>]
        /\ loop = [n \in Notifiers |-> "none"]
        /\ cancel = [n \in Notifiers |-> FALSE]
        /\ message = [n \in Notifiers |-> Empty]
        /\ calls = [n \in Notifiers |-> 0]
        /\ faults = 0

Fault == faults < MaxFaults /\ faults' = faults + 1

-----------------------------------------------------------------------------
(* The database.                                                           *)

(* A change of the table fires the trigger, which sends only if it finds   *)
(* the service.                                                            *)
Change ==
    /\ made < MaxChanges
    /\ made' = made + 1
    /\ IF {"trigger", "service"} \subseteq objects
         THEN queue' = queue \cup {made + 1} /\ sent' = sent \cup {made + 1}
         ELSE UNCHANGED <<queue, sent>>
    /\ UNCHANGED <<objects, lost, appVars, loopVars, cancel, faults>>

(* The first statement of n's script, the script after it, and after the   *)
(* whole batch it is in.                                                   *)
First(n) == Head(Head(script[n]))
Rest(n) == IF Len(Head(script[n])) = 1 THEN Tail(script[n])
                                       ELSE <<Tail(Head(script[n]))>> \o Tail(script[n])
AfterBatch(n) == Tail(script[n])

Runs(n, op) == script[n] # << >> /\ First(n).op = op

untouched == <<made, sent, calls, loopVars, cancel>>

(* IF OBJECT_ID(...) IS NOT NULL EXEC ...                                  *)
ExecProcedure(n) ==
    /\ Runs(n, "exec")
    /\ script' = [script EXCEPT ![n] =
                    IF First(n).object \in objects
                      THEN <<Body(First(n).object) \o Tail(Head(@))>> \o Tail(@)
                      ELSE Rest(n)]
    /\ UNCHANGED <<objects, queue, lost, app, faults, untouched>>

(* A service is created on its queue, and a queue that has a service is    *)
(* not dropped.                                                            *)
Refused(n) == \/ Runs(n, "create") /\ First(n).object = "service" /\ "queue" \notin objects
              \/ Runs(n, "drop") /\ First(n).object = "queue" /\ "service" \in objects

CreateObject(n) ==
    /\ Runs(n, "create") /\ ~Refused(n)
    /\ objects' = objects \cup {First(n).object}
    /\ script' = [script EXCEPT ![n] = Rest(n)]
    /\ UNCHANGED <<queue, lost, app, faults, untouched>>

(* Dropping the service ends its conversations WITH CLEANUP.               *)
DropObject(n) ==
    /\ Runs(n, "drop") /\ ~Refused(n)
    /\ objects' = objects \ {First(n).object}
    /\ IF First(n).object = "service"
         THEN queue' = {} /\ lost' = lost \cup queue
         ELSE UNCHANGED <<queue, lost>>
    /\ script' = [script EXCEPT ![n] = Rest(n)]
    /\ UNCHANGED <<app, faults, untouched>>

(* executeNonQuery ends with an error: start ignores it and goes on with   *)
(* its next script, the other calls return.                                *)
AbortBatch(n) ==
    /\ \/ /\ app[n] = "starting"
          /\ script' = [script EXCEPT ![n] = AfterBatch(n)]
          /\ UNCHANGED app
       \/ /\ app[n] # "starting"
          /\ script' = [script EXCEPT ![n] = << >>]
          /\ app' = [app EXCEPT ![n] = "idle"]
    /\ UNCHANGED <<objects, queue, lost, untouched>>

(* An error ends the statement or the batch.                               *)
StatementRefused(n) ==
    /\ Refused(n)
    /\ \/ AbortBatch(n)
       \/ /\ script' = [script EXCEPT ![n] = Rest(n)]
          /\ UNCHANGED <<objects, queue, lost, app, untouched>>
    /\ UNCHANGED faults

(* No connection in the pool, or the connection breaks.                    *)
BatchFails(n) == script[n] # << >> /\ Fault /\ AbortBatch(n)

-----------------------------------------------------------------------------
(* The owner's calls.                                                      *)

serviceNames == IF "service" \in objects THEN {conversationServiceName} ELSE {}

(* The notifiers that have made a call, and their calls.                   *)
Used == {n \in Notifiers : calls[n] > 0}
Made == UNION {{n} \X (1..calls[n]) : n \in Used}

Call(n, what) == /\ app[n] = "idle"
                 /\ calls[n] < MaxCalls
                 /\ (Cardinality(Made) + 1) * Cardinality(Used \cup {n}) <= MaxCalls
                 /\ calls' = [calls EXCEPT ![n] = @ + 1]
                 /\ app' = [app EXCEPT ![n] = what]

(* start(), with checkServiceExists().  It is called when no thread is     *)
(* running: moving a thread into a joinable one ends the program.          *)
Start(n) ==
    /\ loop[n] = "none"
    /\ Call(n, "starting")
    /\ script' = [script EXCEPT ![n] =
                    IF identity \in serviceNames THEN << >> ELSE installNotification]
    /\ UNCHANGED <<dbVars, loopVars, cancel, faults>>

notificationLoop(n) ==
    /\ app[n] = "starting" /\ script[n] = << >>
    /\ loop' = [loop EXCEPT ![n] = "check"]
    /\ app' = [app EXCEPT ![n] = "idle"]
    /\ UNCHANGED <<dbVars, script, calls, message, received, cancel, faults>>

uninstall(n) ==
    /\ Call(n, "uninstalling")
    /\ script' = [script EXCEPT ![n] = unstallListenerScript]
    /\ UNCHANGED <<dbVars, loopVars, cancel, faults>>

cleanDatabase(n) ==
    /\ Call(n, "cleaning")
    /\ script' = [script EXCEPT ![n] = sqlFormatForcedDatabaseCleaning]
    /\ UNCHANGED <<dbVars, loopVars, cancel, faults>>

Return(n) ==
    /\ app[n] \in {"uninstalling", "cleaning"} /\ script[n] = << >>
    /\ app' = [app EXCEPT ![n] = "idle"]
    /\ UNCHANGED <<dbVars, script, calls, loopVars, cancel, faults>>

(* stop(): set the flag, then join.                                        *)
Stop(n) ==
    /\ app[n] = "idle" /\ loop[n] # "none"
    /\ cancel' = [cancel EXCEPT ![n] = TRUE]
    /\ app' = [app EXCEPT ![n] = "stopping"]
    /\ UNCHANGED <<dbVars, script, calls, loopVars, faults>>

(* Variant that detaches the thread instead.                               *)
Detach(n) ==
    /\ app[n] = "stopping"
    /\ app' = [app EXCEPT ![n] = "idle"]
    /\ UNCHANGED <<dbVars, script, calls, loopVars, cancel, faults>>

Join(n) ==
    /\ app[n] = "stopping" /\ loop[n] = "done"
    /\ loop' = [loop EXCEPT ![n] = "none"]
    /\ app' = [app EXCEPT ![n] = "idle"]
    /\ UNCHANGED <<dbVars, script, calls, message, received, cancel, faults>>

-----------------------------------------------------------------------------
(* The thread.                                                             *)

Goto(n, label) == loop' = [loop EXCEPT ![n] = label]

(* Variant with the test of the flag turned round.                         *)
CheckCancelInverted(n) ==
    /\ loop[n] = "check"
    /\ Goto(n, IF cancel[n] THEN "receive" ELSE "done")
    /\ UNCHANGED <<dbVars, appVars, message, received, cancel, faults>>

CheckCancel(n) ==
    /\ loop[n] = "check"
    /\ Goto(n, IF cancel[n] THEN "done" ELSE "receive")
    /\ UNCHANGED <<dbVars, appVars, message, received, cancel, faults>>

Take(n, m) == /\ message' = [message EXCEPT ![n] = m]
              /\ Goto(n, "callback")
              /\ UNCHANGED <<objects, made, sent, appVars, received, cancel>>

(* WAITFOR (RECEIVE TOP(1) ...): any message, of any notifier's making.    *)
Receive(n) ==
    /\ loop[n] = "receive"
    /\ \E m \in queue : queue' = queue \ {m} /\ Take(n, m)
    /\ UNCHANGED <<lost, faults>>

(* Variant that waits without a TIMEOUT.                                   *)
TimeoutNever(n) == FALSE /\ UNCHANGED vars

(* TIMEOUT: one row with a null in it.                                     *)
Timeout(n) ==
    /\ loop[n] = "receive"
    /\ "queue" \in objects /\ queue = {}
    /\ Take(n, Empty)
    /\ UNCHANGED <<queue, lost, faults>>

(* There is no queue: an error, and quick() leaves no rows.                *)
NoQueue(n) ==
    /\ loop[n] = "receive"
    /\ "queue" \notin objects
    /\ Take(n, Empty)
    /\ UNCHANGED <<queue, lost, faults>>

(* Variant with a message that outlives the round.                         *)
CallbackKeepsMessage(n) ==
    /\ loop[n] = "callback"
    /\ received' = received \cup ({message[n]} \ {Empty})
    /\ Goto(n, "check")
    /\ UNCHANGED <<dbVars, appVars, message, cancel, faults>>

(* quick() fails: no connection, or one that breaks before or after the    *)
(* server has taken a message from the queue.                              *)
ReceiveFails(n) ==
    /\ loop[n] = "receive"
    /\ Fault
    /\ Take(n, Empty)
    /\ \/ UNCHANGED <<queue, lost>>
       \/ \E m \in queue : queue' = queue \ {m} /\ lost' = lost \cup {m}

(* The callback; an exception in it silently ends the thread.              *)
Callback(n) ==
    /\ loop[n] = "callback"
    /\ received' = received \cup ({message[n]} \ {Empty})
    /\ message' = [message EXCEPT ![n] = Empty]
    /\ \/ Goto(n, "check") /\ UNCHANGED faults
       \/ Goto(n, "done") /\ Fault
    /\ UNCHANGED <<dbVars, appVars, cancel>>

-----------------------------------------------------------------------------
Script(n) == ExecProcedure(n) \/ CreateObject(n) \/ DropObject(n) \/ StatementRefused(n)

Owner(n) == Script(n) \/ notificationLoop(n) \/ Return(n) \/ Join(n)

Thread(n) == CheckCancel(n) \/ Receive(n) \/ Timeout(n) \/ NoQueue(n) \/ Callback(n)

Next == \/ Change
        \/ \E n \in Notifiers : \/ Start(n)
                                \/ uninstall(n)
                                \/ cleanDatabase(n)
                                \/ Stop(n)
                                \/ Owner(n)
                                \/ BatchFails(n)
                                \/ Thread(n)
                                \/ ReceiveFails(n)

Spec == Init /\ [][Next]_vars

(* A call that has begun goes on, the server answers, and the thread runs; *)
(* a callback returns.                                                     *)
FairSpec == Spec /\ \A n \in Notifiers : WF_vars(Owner(n)) /\ WF_vars(Thread(n))

-----------------------------------------------------------------------------
(* Properties.                                                             *)

TypeOK ==
    /\ objects \in SUBSET Objects
    /\ made \in 0..MaxChanges
    /\ queue \in SUBSET Changes /\ sent \in SUBSET Changes
    /\ received \in SUBSET Changes /\ lost \in SUBSET Changes
    /\ app \in [Notifiers -> {"idle", "starting", "uninstalling", "cleaning", "stopping"}]
    /\ script \in [Notifiers -> Seq(Seq(Statement) \ {<< >>})]
    /\ loop \in [Notifiers -> {"none", "check", "receive", "callback", "done"}]
    /\ cancel \in [Notifiers -> BOOLEAN]
    /\ message \in [Notifiers -> Changes \cup {Empty}]
    /\ calls \in [Notifiers -> 0..MaxCalls]
    /\ faults \in 0..MaxFaults

(* Every change the trigger has announced is in exactly one place: in the  *)
(* queue, in the hands of one thread, given to a callback, or lost with a  *)
(* connection or with the service.  In particular no callback gets a       *)
(* change twice, whatever notifiers share the queue.                       *)
InHand == {message[n] : n \in Notifiers} \ {Empty}
Accounted ==
    /\ sent = queue \cup InHand \cup received \cup lost
    /\ queue \cap InHand = {} /\ queue \cap received = {} /\ queue \cap lost = {}
    /\ InHand \cap received = {} /\ InHand \cap lost = {} /\ received \cap lost = {}
    /\ \A n, k \in Notifiers : message[n] = message[k] /\ message[n] # Empty => n = k

(* Once stop() has returned the callback is never called again, by the     *)
(* thread that was stopped or by one that a later start() launched.        *)
StoppedMeansSilent ==
    \A n \in Notifiers : cancel[n] /\ app[n] # "stopping" => loop[n] # "callback"

(* Its inductive form: a stopped thread is on its way out, and a script    *)
(* runs only inside a call that has one.                                   *)
SilentInv ==
    \A n \in Notifiers :
       /\ script[n] # << >> => app[n] \in {"starting", "uninstalling", "cleaning"}
       /\ cancel[n] /\ app[n] # "stopping" => loop[n] \in {"none", "check", "done"}
       /\ app[n] = "starting" => loop[n] = "none"

(* A notifier that has the table for itself leaves no trigger that has     *)
(* nowhere to send, whatever statement of whatever call fails.             *)
Lone == Cardinality(Used) = 1
TriggerHasTarget ==
    Lone /\ "trigger" \in objects => {"queue", "service"} \subseteq objects

(* Its uninstall() and cleanDatabase(), without failures, remove           *)
(* everything.                                                             *)
RemovalComplete ==
    [][\A n \in Notifiers :
          Lone /\ app[n] \in {"uninstalling", "cleaning"} /\ app'[n] = "idle" /\ faults' = 0
             => objects' = {}]_vars

(* stop() returns: the thread gets back to the flag in the end.            *)
StopReturns == \A n \in Notifiers : app[n] = "stopping" ~> app[n] = "idle"

(* A notifier that was started and not stopped takes the messages from the *)
(* queue, through failed receives too, unless its callback has thrown.     *)
Listening == \E n \in Notifiers : /\ loop[n] # "none" /\ ~cancel[n]
                                  /\ loop[n] = "done" => faults = 0
EventuallyReceived ==
    \A m \in Changes : m \in queue ~> (m \notin queue \/ ~Listening)

(* mssql_notifier.hpp: "Check if service is already installed."  start()   *)
(* does not install what is installed already.                             *)
InstalledOnce ==
    [][\A n \in Notifiers :
          app[n] = "idle" /\ app'[n] = "starting" /\ objects = Objects
             => script'[n] = << >>]_vars
-----------------------------------------------------------------------------
(* The inductive invariant behind TriggerHasTarget and RemovalComplete: in *)
(* what is left of a batch every statement finds the objects as it needs   *)
(* them, because of the ones before it.                                    *)

Before(b, i, statement) == \E j \in 1..(i - 1) : b[j] = statement
Present(have, b, i, o) == o \in have \/ Before(b, i, Create(o))
Absent(have, b, i, o)  == o \notin have \/ Before(b, i, Drop(o))

Ordered(have, b) ==
    /\ \A i \in 1..Len(b) :
       /\ b[i] = Create("service") => Present(have, b, i, "queue")
       /\ b[i] = Create("trigger") => Present(have, b, i, "queue") /\ Present(have, b, i, "service")
       /\ b[i] = Drop("service") => Absent(have, b, i, "trigger")
       /\ b[i] = Drop("queue") => Absent(have, b, i, "trigger") /\ Absent(have, b, i, "service")
    /\ \A i, j \in 1..Len(b) : b[i].op = "create" => b[j].op = "create"
    /\ \A i \in 2..Len(b) :
       /\ b[i].op # "exec"
       /\ b[1].op = "exec" => b[1] = Exec("uninstall") /\ b[i].object \in {"install", "uninstall"}

Plain(b) == Len(b) = 1 /\ b[1].object \in {"install", "uninstall"}

(* Without failures, what a call still has to do is what is missing.       *)
Removes(n) ==
    /\ Len(script[n]) <= 1
    /\ script[n] = << >> => objects = {}
    /\ script[n] # << >> =>
          LET b == script[n][1] IN
          \/ b[1] = Exec("uninstall") /\ objects \in {{}, Objects}
          \/ b[1].op = "drop" /\ \A o \in objects : \E i \in 1..Len(b) : b[i] = Drop(o)

Installs(n) ==
    \/ script[n] = << >> /\ objects = Objects
    \/ script[n] = installNotification /\ objects \in {{}, Objects}
    \/ script[n] = Tail(installNotification) /\ objects \in {{"install"}, Objects}
    \/ script[n] = Tail(Tail(installNotification)) /\ objects \in {{"install", "uninstall"}, Objects}
    \/ /\ Len(script[n]) = 1
       /\ LET b == script[n][1] IN
          b[1].op = "create" /\ \A o \in Objects \ objects : \E i \in 1..Len(b) : b[i] = Create(o)

Whole(n) ==
    /\ app[n] = "starting" => Installs(n)
    /\ app[n] \in {"uninstalling", "cleaning"} => Removes(n)
    /\ app[n] \in {"idle", "stopping"} => objects \in {{}, Objects}

Undisturbed(n) ==
    /\ "trigger" \in objects => {"queue", "service"} \subseteq objects
    /\ script[n] # << >> => Ordered(objects, script[n][1])
    /\ \A i \in 2..Len(script[n]) : Plain(script[n][i])
    /\ faults = 0 => Whole(n)

LoneInv ==
    /\ IsFiniteSet(Used)
    /\ \A n \in Notifiers \ Used : script[n] = << >> /\ app[n] \in {"idle", "stopping"}
    /\ \A n \in Notifiers : Used \subseteq {n} => Undisturbed(n)
=============================================================================
