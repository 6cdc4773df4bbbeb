------------------------------ MODULE EventLog ------------------------------
(***************************************************************************)
(* What an EventStore promises its users.  An appended event stays         *)
(* outstanding until a whole Save has gone through; until then the events  *)
(* outstanding for one stream may enter the log, together and in order,    *)
(* again and again.                                                        *)
(***************************************************************************)
EXTENDS Integers, Sequences

CONSTANTS
    Sessions,      \* the users' event stores
    Streams,       \* the streams of the log
    Events         \* the events, each with its stream

VARIABLES
    outstanding,   \* events each session still answers for, in order
    log            \* the stored events of each stream, in order

logVars == <<outstanding, log>>

Init == /\ outstanding = [s \in Sessions |-> << >>]
        /\ log = [st \in Streams |-> << >>]

(* order lists the positions of the events of st, rising.                  *)
Lists(order, events, st) ==
    /\ \A k, l \in DOMAIN order : k < l => order[k] < order[l]
    /\ {order[k] : k \in DOMAIN order} = {i \in DOMAIN events : events[i].stream = st}

Contains(events, e) == \E i \in DOMAIN events : events[i] = e

(* A user appends an event nobody has appended before.                     *)
Accept(s) ==
    /\ \E e \in Events :
          /\ \A t \in Sessions : ~Contains(outstanding[t], e)
          /\ ~Contains(log[e.stream], e)
          /\ outstanding' = [outstanding EXCEPT ![s] = Append(@, e)]
    /\ UNCHANGED log

(* Everything outstanding for one stream enters the log at once, in order. *)
Store(s, st) ==
    /\ \E n \in 1..Len(outstanding[s]) :
          \E order \in [1..n -> DOMAIN outstanding[s]] :
             /\ Lists(order, outstanding[s], st)
             /\ log' = [log EXCEPT ![st] = @ \o [k \in 1..n |-> outstanding[s][order[k]]]]
    /\ UNCHANGED outstanding

(* The session stops answering for its events: the log has all of them.    *)
Release(s) ==
    /\ \A i \in DOMAIN outstanding[s] :
          Contains(log[outstanding[s][i].stream], outstanding[s][i])
    /\ outstanding' = [outstanding EXCEPT ![s] = << >>]
    /\ UNCHANGED log

Next == \E s \in Sessions : \/ Accept(s)
                            \/ \E st \in Streams : Store(s, st)
                            \/ Release(s)

Spec == Init /\ [][Next]_logVars
=============================================================================
