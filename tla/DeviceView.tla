----------------------------- MODULE DeviceView -----------------------------
(***************************************************************************)
(* What the two device maps of a process promise, with no mutex and no     *)
(* rows.  Unlike the rules of SessionView their view of the table may move *)
(* backward; but only the handler of an edit moves it, once for each map,  *)
(* and never behind the edit it has made.  The map byId may be lost.  An   *)
(* edit is answered "ok" when its handler is through with both maps.       *)
(***************************************************************************)
EXTENDS Integers

CONSTANTS Instances, Workers, Home, Maps

VARIABLES
  version,  \* number of the table's states
  view,     \* per process and map: the state it shows, 0 = none
  owed,     \* per worker: the edit whose client waits for "ok", 0 = none
  due       \* per worker: maps that its handler has still to refresh

view_vars == <<version, view, owed, due>>

Nothing == [m \in Maps |-> 0]

Init ==
  /\ version = 1
  /\ view = [i \in Instances |-> Nothing]
  /\ owed = [w \in Workers |-> 0] /\ due = [w \in Workers |-> {}]

\* The client of an edit may also be told "error", and is then owed nothing.
Write(w) ==
  /\ owed[w] = 0
  /\ version' = version + 1
  /\ \/ /\ owed' = [owed EXCEPT ![w] = version + 1]
        /\ due' = [due EXCEPT ![w] = Maps]
     \/ UNCHANGED <<owed, due>>
  /\ UNCHANGED view

Through(w, m) == m \in due[w] /\ due' = [due EXCEPT ![w] = @ \ {m}] /\ UNCHANGED <<version, owed>>

Install(w, m) ==
  /\ Through(w, m)
  /\ \E v \in owed[w] .. version : view' = [view EXCEPT ![Home[w]][m] = v]

Miss(w, m) == Through(w, m) /\ UNCHANGED view

Lose(w) == Through(w, "byId") /\ view' = [view EXCEPT ![Home[w]]["byId"] = 0]

Answer(w) ==
  /\ owed[w] > 0 /\ due[w] = {}
  /\ owed' = [owed EXCEPT ![w] = 0]
  /\ UNCHANGED <<version, view, due>>

\* A process starts with the state of that moment in byIp, or with nothing.
Load(i) ==
  /\ view[i] = Nothing
  /\ view' = [view EXCEPT ![i]["byIp"] = version]
  /\ UNCHANGED <<version, owed, due>>

Stop(i) ==
  /\ view' = [view EXCEPT ![i] = Nothing]
  /\ owed' = [w \in Workers |-> IF Home[w] = i THEN 0 ELSE owed[w]]
  /\ due' = [w \in Workers |-> IF Home[w] = i THEN {} ELSE due[w]]
  /\ UNCHANGED version

Next ==
  \/ \E i \in Instances : Load(i) \/ Stop(i)
  \/ \E w \in Workers :
       \/ Write(w) \/ Lose(w) \/ Answer(w)
       \/ \E m \in Maps : Install(w, m) \/ Miss(w, m)

Spec == Init /\ [][Next]_view_vars
=============================================================================
