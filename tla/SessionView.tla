---------------------------- MODULE SessionView ----------------------------
(***************************************************************************)
(* What the tag cache promises its clients, with no mutex, no map and no   *)
(* rows: each process judges by one state of the table, which only moves   *)
(* forward and never ahead of the table; but it may have a gap, in which   *)
(* some of its rules, or all, are missing.  A gap is opened and closed by  *)
(* the refreshes that the handlers of edits make, and by the process's     *)
(* start and end.  A client is told "ok" when its handler has no refresh   *)
(* left, and then the process judges by a state that has its write, when   *)
(* it has no gap, unless every refresh made for the write was missed.      *)
(***************************************************************************)
EXTENDS Integers

CONSTANTS Instances, Workers, Home, Refreshes

VARIABLES
  version,  \* number of the table's committed states
  up,       \* per process: it runs
  view,     \* per process: the state its rules come from when it has no gap
  gap,      \* per process: its rules are being replaced, or could not be read
  owed,     \* per worker: the write its client waits for "ok" on, 0 = none
  due,      \* per worker: refreshes that its handler has still to make
  misses    \* per worker: refreshes that its handler has missed

view_vars == <<version, up, view, gap, owed, due, misses>>

Init ==
  /\ version = 0
  /\ up = [i \in Instances |-> FALSE]
  /\ view = [i \in Instances |-> 0] /\ gap = [i \in Instances |-> TRUE]
  /\ owed = [w \in Workers |-> 0] /\ due = [w \in Workers |-> 0]
  /\ misses = [w \in Workers |-> 0]

\* A write commits and its client is owed it; or the client will be told
\* "error", whether the write has committed or not, and is owed nothing.
Write(w) ==
  /\ due[w] = 0 /\ owed[w] = 0
  /\ \/ /\ version' = version + 1
        /\ owed' = [owed EXCEPT ![w] = version + 1]
        /\ due' = [due EXCEPT ![w] = Refreshes]
     \/ /\ version' \in {version, version + 1}
        /\ due' \in {due, [due EXCEPT ![w] = 1]}
        /\ UNCHANGED owed
  /\ UNCHANGED <<up, view, gap, misses>>

\* A refresh of w's handler: it empties the rules, and installs newer ones that
\* have its own write, or is missed, with the rules emptied or not.
Empty(w) ==
  /\ due[w] > 0
  /\ gap' = [gap EXCEPT ![Home[w]] = TRUE]
  /\ UNCHANGED <<version, up, view, owed, due, misses>>

Install(w) ==
  /\ due[w] > 0 /\ due' = [due EXCEPT ![w] = @ - 1]
  /\ gap[Home[w]] /\ gap' = [gap EXCEPT ![Home[w]] = FALSE]
  /\ \E v \in view[Home[w]] .. version :
       owed[w] <= v /\ view' = [view EXCEPT ![Home[w]] = v]
  /\ UNCHANGED <<version, up, owed, misses>>

Miss(w) ==
  /\ due[w] > 0 /\ due' = [due EXCEPT ![w] = @ - 1]
  /\ misses' = [misses EXCEPT ![w] = @ + 1]
  /\ UNCHANGED <<version, up, view, gap, owed>>

Answer(w) ==
  /\ due[w] = 0
  /\ misses[w] < Refreshes => owed[w] <= view[Home[w]]
  /\ owed' = [owed EXCEPT ![w] = 0] /\ misses' = [misses EXCEPT ![w] = 0]
  /\ UNCHANGED <<version, up, view, gap, due>>

\* A process starts with the state of that moment, or with a gap.
Load(i) ==
  /\ ~ up[i] /\ up' = [up EXCEPT ![i] = TRUE]
  /\ \/ view' = [view EXCEPT ![i] = version] /\ gap' = [gap EXCEPT ![i] = FALSE]
     \/ UNCHANGED <<view, gap>>
  /\ UNCHANGED <<version, owed, due, misses>>

\* It stops: nobody is answered, the view is kept as the floor of the next one.
Stop(i) ==
  /\ up[i] /\ up' = [up EXCEPT ![i] = FALSE]
  /\ gap' = [gap EXCEPT ![i] = TRUE]
  /\ owed' = [w \in Workers |-> IF Home[w] = i THEN 0 ELSE owed[w]]
  /\ due' = [w \in Workers |-> IF Home[w] = i THEN 0 ELSE due[w]]
  /\ misses' = [w \in Workers |-> IF Home[w] = i THEN 0 ELSE misses[w]]
  /\ UNCHANGED <<version, view>>

Next ==
  \/ \E i \in Instances : Load(i) \/ Stop(i)
  \/ \E w \in Workers : Write(w) \/ Empty(w) \/ Install(w) \/ Miss(w) \/ Answer(w)

Spec == Init /\ [][Next]_view_vars
=============================================================================
