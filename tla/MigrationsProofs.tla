------------------------- MODULE MigrationsProofs -------------------------
(***************************************************************************)
(* Safety of Migrations for every number of processes, backends and files. *)
(*                                                                         *)
(* That a process serves only with the whole schema needs no lock: the     *)
(* files that a process has left behind it are applied (Covered).  That    *)
(* the recorded version is true needs the lock of a process with its own   *)
(* connection: the one backend that has it applies alone (Alone), so what  *)
(* it has read stays true until it is through (Tracked).                   *)
(***************************************************************************)
EXTENDS Migrations, TLAPS

Act(p) == Start(p) \/ Kill(p) \/ Lock(p) \/ LockTimeout(p) \/ Step(p)

\* Only Up has failures, and it unlocks before it ends the process.
Typed == TypeOK /\ \A p \in Processes : failed[p] => stage[p] = "unlock"

-----------------------------------------------------------------------------
(* Types.                                                                  *)

LEMMA Bounds ==
  /\ Files \in Nat \ {0} /\ MaxHeld \in Nat \ {0} /\ NoBackend \notin Backends
  /\ \A p \in Processes : Own[p] \in Backends /\ Backend(p) \subseteq Backends
BY MigrationsAssumption DEF Backend

LEMMA Types ==
  ASSUME TypeOK
  PROVE  /\ pooled \in BOOLEAN /\ dirty \in BOOLEAN
         /\ version \in 0 .. Files /\ version \in Nat /\ applied \subseteq 1 .. Files
         /\ owner \in Backends \cup {NoBackend} /\ held \in 0 .. MaxHeld /\ held \in Nat
         /\ held = 0 <=> owner = NoBackend
         /\ stage \in [Processes -> Stages] /\ target \in [Processes -> 1 .. Files]
         /\ failed \in [Processes -> BOOLEAN] /\ served \in BOOLEAN
         /\ \A p \in Processes : target[p] \in 1 .. Files /\ target[p] \in Nat
BY Bounds DEF TypeOK

\* Where a process may go.
LEMMA Gone ==
  ASSUME TypeOK, NEW p \in Processes, NEW s \in Stages, Goes(p, s)
  PROVE  /\ stage' \in [Processes -> Stages] /\ stage'[p] = s
         /\ \A q \in Processes \ {p} : stage'[q] = stage[q]
BY Types DEF Goes

LEMMA StageNames ==
  /\ Stages = {"off", "connect", "ensure", "ensured", "lock", "unlock", "reconnect",
               "serving", "read", "mark", "run", "clean"}
  /\ Applying = {"read", "mark", "run", "clean"}
BY DEF Stages, Applying

LEMMA ExitTypes ==
  ASSUME TypeOK, NEW p \in Processes, Exit(p)
  PROVE  TypeOK'
<1>1. /\ stage' \in [Processes -> Stages] /\ target' \in [Processes -> 1 .. Files]
      /\ failed' \in [Processes -> BOOLEAN]
  BY Types, Bounds, StageNames DEF Exit
<1>2. \/ owner' = owner /\ held' = held
      \/ owner' = NoBackend /\ held' = 0
  BY DEF Exit, lock
<1>3. owner' \in Backends \cup {NoBackend} /\ held' \in 0 .. MaxHeld
      /\ (held' = 0 <=> owner' = NoBackend)
  BY <1>2, Types, Bounds
<1>4. QED
  BY <1>1, <1>3 DEF Exit, TypeOK, schema

LEMMA LockTypes ==
  ASSUME TypeOK, NEW p \in Processes, (Take(p) /\ held < MaxHeld) \/ Release(p)
  PROVE  /\ owner' \in Backends \cup {NoBackend} /\ held' \in 0 .. MaxHeld
         /\ (held' = 0 <=> owner' = NoBackend)
<1>1. CASE Take(p) /\ held < MaxHeld
  BY <1>1, Types, Bounds DEF Take
<1>2. CASE Release(p)
  <2>1. PICK b \in Backends : IF b # owner THEN UNCHANGED lock
               ELSE held' = held - 1 /\ owner' = IF held = 1 THEN NoBackend ELSE owner
    BY <1>2, Bounds DEF Release
  <2>2. QED
    BY <2>1, Types, Bounds DEF lock
<1>3. QED
  BY <1>1, <1>2

LEMMA FailsTypes ==
  ASSUME Typed, NEW p \in Processes, Fails(p)
  PROVE  /\ stage' \in [Processes -> Stages] /\ target' = target
         /\ failed' \in [Processes -> BOOLEAN]
         /\ failed'[p] /\ stage'[p] = "unlock"
         /\ \A q \in Processes \ {p} : failed'[q] = failed[q] /\ stage'[q] = stage[q]
BY Types, StageNames DEF Fails, Goes, Typed

LEMMA ActTyped ==
  ASSUME Typed, NEW p \in Processes, Act(p)
  PROVE  /\ Typed' /\ pooled' = pooled
         /\ \A q \in Processes \ {p} :
              stage'[q] = stage[q] /\ target'[q] = target[q] /\ failed'[q] = failed[q]
<1> DEFINE Same == \A q \in Processes \ {p} :
                     /\ stage'[q] = stage[q] /\ target'[q] = target[q]
                     /\ failed'[q] = failed[q]
           Ok == Typed' /\ pooled' = pooled /\ Same
<1>1. TypeOK /\ \A q \in Processes : failed[q] => stage[q] = "unlock"
  BY DEF Typed
<1>2. ASSUME Exit(p) PROVE Ok
  <2>1. TypeOK'
    BY <1>1, <1>2, ExitTypes
  <2>2. Same /\ ~ failed'[p] /\ pooled' = pooled
    BY <1>1, <1>2, Types DEF Exit
  <2>3. QED
    BY <1>1, <2>1, <2>2 DEF Typed
<1>3. ASSUME NEW s \in Stages, Goes(p, s), UNCHANGED <<pooled, target, failed>>,
             ~ failed[p], TypeOK'
      PROVE  Ok
  <2>1. Same
    BY <1>1, <1>3, Gone
  <2>2. QED
    BY <1>1, <1>3, <2>1 DEF Typed
<1>4. CASE Start(p) \/ Connect(p)
  <2>1. PICK s \in Stages : Goes(p, s)
    BY <1>4, StageNames DEF Start, Connect
  <2>2. ~ failed[p] /\ served' \in BOOLEAN
    BY <1>1, <1>4, Types DEF Start, Connect
  <2>3. TypeOK'
    BY <1>1, <1>4, <2>1, <2>2, Gone DEF Start, Connect, TypeOK, schema, lock
  <2>4. QED
    BY <1>3, <1>4, <2>1, <2>2, <2>3 DEF Start, Connect
<1>5. CASE Lock(p) \/ Unlock(p)
  <2>1. PICK s \in Stages : Goes(p, s)
    BY <1>5, StageNames DEF Lock, Unlock
  <2>2. ~ failed[p] /\ UNCHANGED <<pooled, schema, target, failed, served>>
    BY <1>1, <1>5, Types DEF Lock, Unlock, Fatal
  <2>3. /\ owner' \in Backends \cup {NoBackend} /\ held' \in 0 .. MaxHeld
        /\ (held' = 0 <=> owner' = NoBackend)
    BY <1>1, <1>5, LockTypes DEF Lock, Unlock
  <2>4. TypeOK'
    BY <1>1, <2>1, <2>2, <2>3, Gone DEF TypeOK, schema
  <2>5. QED
    BY <1>3, <2>1, <2>2, <2>4
<1>6. CASE UnlockAndExit(p) /\ pooled
  <2>1. /\ Release(p) /\ Goes(p, "off")
        /\ target' = [target EXCEPT ![p] = 1] /\ failed' = [failed EXCEPT ![p] = FALSE]
        /\ UNCHANGED <<pooled, schema, served>>
    BY <1>6 DEF UnlockAndExit
  <2>2. /\ owner' \in Backends \cup {NoBackend} /\ held' \in 0 .. MaxHeld
        /\ (held' = 0 <=> owner' = NoBackend)
    BY <1>1, <2>1, LockTypes
  <2>3. /\ target' \in [Processes -> 1 .. Files] /\ failed' \in [Processes -> BOOLEAN]
        /\ ~ failed'[p]
        /\ \A q \in Processes \ {p} : target'[q] = target[q] /\ failed'[q] = failed[q]
    BY <1>1, <2>1, Types, Bounds
  <2>4. stage' \in [Processes -> Stages] /\ \A q \in Processes \ {p} : stage'[q] = stage[q]
    BY <1>1, <2>1, Gone, StageNames
  <2>5. TypeOK'
    BY <1>1, <2>1, <2>2, <2>3, <2>4 DEF TypeOK, schema
  <2>6. QED
    BY <1>1, <2>1, <2>3, <2>4, <2>5 DEF Typed
<1>7. CASE ReadVersion(p)
  <2>1. UNCHANGED <<pooled, schema, lock, served>> /\ ~ failed[p]
    BY <1>1, <1>7 DEF ReadVersion
  <2>2. CASE Fails(p)
    <3>1. TypeOK'
      BY <1>1, <2>1, <2>2, FailsTypes DEF TypeOK, schema, lock
    <3>2. QED
      BY <1>1, <2>1, <2>2, <3>1, FailsTypes DEF Typed
  <2>3. CASE Goes(p, "unlock") /\ UNCHANGED <<target, failed>>
    <3>1. TypeOK'
      BY <1>1, <2>1, <2>3, Gone, StageNames DEF TypeOK, schema, lock
    <3>2. QED
      BY <1>3, <2>1, <2>3, <3>1, StageNames
  <2>4. CASE /\ version # Files /\ Goes(p, "mark") /\ failed' = failed
             /\ target' = [target EXCEPT ![p] = version + 1]
    <3>1. version + 1 \in 1 .. Files
      BY <1>1, <2>4, Types, Bounds
    <3>2. target' \in [Processes -> 1 .. Files]
          /\ \A q \in Processes \ {p} : target'[q] = target[q]
      BY <1>1, <2>4, <3>1, Types
    <3>3. stage' \in [Processes -> Stages]
          /\ \A q \in Processes \ {p} : stage'[q] = stage[q]
      BY <1>1, <2>4, Gone, StageNames
    <3>4. TypeOK'
      BY <1>1, <2>1, <2>4, <3>2, <3>3 DEF TypeOK, schema, lock
    <3>5. QED
      BY <1>1, <2>1, <2>4, <3>2, <3>3, <3>4 DEF Typed
  <2>5. QED
    BY <1>7, <2>2, <2>3, <2>4 DEF ReadVersion
<1>8. CASE Mark(p) \/ Run(p)
  <2>1. PICK s \in Stages : Goes(p, s)
    BY <1>8, StageNames DEF Mark, Run
  <2>2. ~ failed[p] /\ UNCHANGED <<pooled, lock, target, failed, served>>
    BY <1>1, <1>8 DEF Mark, Run
  <2>3. version' \in 0 .. Files /\ dirty' \in BOOLEAN /\ applied' \subseteq 1 .. Files
    <3>1. target[p] \in 0 .. Files /\ target[p] \in 1 .. Files
      BY <1>1, Types, Bounds
    <3>2. CASE Mark(p)
      BY <1>1, <3>1, <3>2, Types DEF Mark, Marks
    <3>3. CASE Run(p)
      BY <1>1, <3>1, <3>3, Types DEF Run
    <3>4. QED
      BY <1>8, <3>2, <3>3
  <2>4. TypeOK'
    BY <1>1, <2>1, <2>2, <2>3, Gone DEF TypeOK, lock
  <2>5. QED
    BY <1>3, <2>1, <2>2, <2>4
<1>9. CASE Clean(p)
  <2>1. UNCHANGED <<pooled, applied, lock, failed, served>> /\ ~ failed[p]
    BY <1>1, <1>9 DEF Clean
  <2>2. version' \in 0 .. Files /\ dirty' \in BOOLEAN
    <3>1. target[p] \in 0 .. Files
      BY <1>1, Types, Bounds
    <3>2. QED
      BY <1>9, <3>1 DEF Clean
  <2>3. \/ target' = target
        \/ target[p] # Files /\ target' = [target EXCEPT ![p] = @ + 1]
    BY <1>9 DEF Clean
  <2>4. target' \in [Processes -> 1 .. Files]
        /\ \A q \in Processes \ {p} : target'[q] = target[q]
    BY <1>1, <2>3, Types, Bounds
  <2>5. stage' \in [Processes -> Stages]
        /\ \A q \in Processes \ {p} : stage'[q] = stage[q]
    BY <1>1, <1>9, Gone, StageNames DEF Clean
  <2>6. TypeOK'
    BY <1>1, <2>1, <2>2, <2>4, <2>5 DEF TypeOK, lock
  <2>7. QED
    BY <1>1, <2>1, <2>4, <2>5, <2>6 DEF Typed
<1>10. CASE StatementFails(p)
  <2>1. Fails(p) /\ UNCHANGED <<pooled, lock, served>>
    BY <1>10 DEF StatementFails
  <2>2. version' = version /\ dirty' = dirty /\ applied' \subseteq 1 .. Files
    BY <1>1, <1>10, Types DEF StatementFails, schema
  <2>3. TypeOK'
    BY <1>1, <2>1, <2>2, FailsTypes DEF TypeOK, lock
  <2>4. QED
    BY <1>1, <2>1, <2>3, FailsTypes DEF Typed
<1>11. CASE Kill(p) \/ LockTimeout(p) \/ ConnectFails(p) \/ (UnlockAndExit(p) /\ ~ pooled)
  BY <1>2, <1>11 DEF Kill, LockTimeout, ConnectFails, UnlockAndExit
<1>12. QED
  BY <1>4, <1>5, <1>6, <1>7, <1>8, <1>9, <1>10, <1>11 DEF Act, Step

LEMMA CloseTyped ==
  ASSUME Typed, CloseBackend
  PROVE  Typed'
BY Bounds DEF CloseBackend, Typed, TypeOK, schema

LEMMA TypedAlways == Spec => []Typed
<1>1. ASSUME Init PROVE Typed
  <2>1. TypeOK
    <3>1. /\ 0 \in 0 .. Files /\ 0 \in 0 .. MaxHeld /\ 1 \in 1 .. Files /\ {} \subseteq 1 .. Files
          /\ "off" \in Stages
      BY Bounds, StageNames
    <3>2. /\ stage \in [Processes -> Stages] /\ target \in [Processes -> 1 .. Files]
          /\ failed \in [Processes -> BOOLEAN]
      BY <1>1, <3>1 DEF Init
    <3>3. QED
      BY <1>1, <3>1, <3>2 DEF Init, TypeOK
  <2>2. QED
    BY <1>1, <2>1 DEF Init, Typed
<1>2. ASSUME Typed, [Next]_vars PROVE Typed'
  <2>1. CASE UNCHANGED vars
    BY <1>2, <2>1 DEF vars, schema, lock, Typed, TypeOK
  <2>2. QED
    BY <1>2, <2>1, ActTyped, CloseTyped DEF Next, Act
<1>3. QED
  BY <1>1, <1>2, PTL DEF Spec

\* Type correctness; above all, a target is a file that there is, and the lock
\* is counted for the backend that has it, also when a pooler lends backends to
\* every process.
THEOREM TypeCorrect == Spec => []TypeOK
<1>1. Typed => TypeOK
  BY DEF Typed
<1>2. QED
  BY <1>1, TypedAlways, PTL

-----------------------------------------------------------------------------
(* What the steps of a process do to the schema.                           *)

\* Up has returned without an error; failed is reset with the process.
Ready(p) == stage[p] \in {"reconnect", "serving"} \/ (stage[p] = "unlock" /\ ~ failed[p])

ToOutside(p) ==
  /\ stage'[p] \in {"off", "connect", "ensure", "ensured", "lock", "read"}
  /\ UNCHANGED <<schema, served>>

\* Up has nothing left to do, or had nothing before.
ToReady(p) ==
  /\ Ready(p) \/ (stage[p] = "read" /\ ~ dirty /\ version = Files)
  /\ Ready(p)' /\ UNCHANGED schema /\ (served' => served \/ Ready(p))

ToMark(p) ==
  /\ stage[p] = "read" /\ ~ dirty /\ version # Files
  /\ stage'[p] = "mark" /\ target'[p] = version + 1 /\ UNCHANGED <<schema, served>>

ToRun(p) ==
  /\ stage[p] = "mark" /\ stage'[p] = "run" /\ target'[p] = target[p]
  /\ version' = target[p] /\ dirty' /\ UNCHANGED <<applied, served>>

ToClean(p) ==
  /\ stage[p] = "run" /\ stage'[p] = "clean" /\ target'[p] = target[p]
  /\ applied' = applied \cup {target[p]} /\ UNCHANGED <<version, dirty, served>>

ToNext(p) ==
  /\ stage[p] = "clean" /\ version' = target[p] /\ ~ dirty' /\ UNCHANGED <<applied, served>>
  /\ IF target[p] = Files THEN Ready(p)' ELSE stage'[p] = "mark" /\ target'[p] = target[p] + 1

ToFailed(p) ==
  /\ stage[p] \in Applying /\ stage'[p] = "unlock" /\ failed'[p]
  /\ UNCHANGED <<version, dirty, served>>
  /\ applied' = applied \/ (stage[p] = "run" /\ applied' = applied \cup {target[p]})

LEMMA Effects ==
  ASSUME Typed, NEW p \in Processes, Act(p)
  PROVE  \/ ToOutside(p) \/ ToReady(p) \/ ToMark(p) \/ ToRun(p) \/ ToClean(p) \/ ToNext(p)
         \/ ToFailed(p)
<1>1. /\ stage \in [Processes -> Stages] /\ target \in [Processes -> 1 .. Files]
      /\ failed \in [Processes -> BOOLEAN]
      /\ failed[p] => stage[p] = "unlock"
  BY Types DEF Typed
<1>2. Exit(p) => ToOutside(p)
  BY <1>1 DEF Exit, ToOutside
<1>3. CASE Start(p)
  BY <1>1, <1>3 DEF Start, Goes, ToOutside
<1>4. CASE Connect(p)
  BY <1>1, <1>4 DEF Connect, Goes, ToOutside, ToReady, Ready
<1>5. CASE Lock(p)
  BY <1>1, <1>5 DEF Lock, Goes, ToOutside
<1>6. CASE Unlock(p)
  BY <1>1, <1>6 DEF Unlock, Fatal, Goes, ToOutside, ToReady, Ready
<1>7. CASE UnlockAndExit(p)
  BY <1>1, <1>2, <1>7 DEF UnlockAndExit, Goes, ToOutside
<1>8. Fails(p) => stage'[p] = "unlock" /\ failed'[p]
  BY <1>1 DEF Fails, Goes
<1>9. CASE ReadVersion(p)
  <2>1. stage[p] = "read" /\ UNCHANGED <<schema, served>> /\ ~ failed[p]
    BY <1>1, <1>9 DEF ReadVersion
  <2>2. CASE dirty
    BY <1>8, <1>9, <2>1, <2>2, StageNames DEF ReadVersion, ToFailed, schema
  <2>3. CASE ~ dirty /\ version = Files
    BY <1>1, <1>9, <2>1, <2>3 DEF ReadVersion, Goes, ToReady, Ready
  <2>4. CASE ~ dirty /\ version # Files
    BY <1>1, <1>9, <2>1, <2>4 DEF ReadVersion, Goes, ToMark
  <2>5. QED
    BY <2>2, <2>3, <2>4
<1>10. CASE Mark(p)
  BY <1>1, <1>10 DEF Mark, Marks, Goes, ToRun
<1>11. CASE Run(p)
  BY <1>1, <1>11 DEF Run, Goes, ToClean
<1>12. CASE Clean(p)
  BY <1>1, <1>12 DEF Clean, Goes, ToNext, Ready
<1>13. CASE StatementFails(p)
  BY <1>8, <1>13 DEF StatementFails, ToFailed, schema
<1>14. QED
  BY <1>2, <1>3, <1>4, <1>5, <1>6, <1>7, <1>9, <1>10, <1>11, <1>12, <1>13
     DEF Act, Step, Kill, LockTimeout, ConnectFails

-----------------------------------------------------------------------------
(* What a process has left behind it is applied.                           *)

Covers(p) ==
  /\ stage[p] \in {"mark", "run"} => 1 .. target[p] - 1 \subseteq applied
  /\ stage[p] = "clean" => 1 .. target[p] \subseteq applied
  /\ Ready(p) => 1 .. Files \subseteq applied

Covered == /\ ~ dirty => 1 .. version \subseteq applied
           /\ \A p \in Processes : Covers(p)

LEMMA ActCovered ==
  ASSUME Typed, Typed', Covered, NEW p \in Processes, Act(p)
  PROVE  Covered'
<1>1. /\ \A q \in Processes : Covers(q) /\ target[q] \in 1 .. Files /\ target[q] \in Nat
      /\ version \in 0 .. Files /\ version \in Nat /\ Files \in Nat
      /\ ~ dirty => 1 .. version \subseteq applied
      /\ stage'[p] \in Stages /\ failed[p] => stage[p] = "unlock"
  BY Types, Bounds DEF Covered, Typed, TypeOK
<1>2. applied \subseteq applied'
  BY Effects DEF ToOutside, ToReady, ToMark, ToRun, ToClean, ToNext, ToFailed, schema
<1>3. ASSUME NEW q \in Processes \ {p} PROVE Covers(q)'
  <2>1. stage'[q] = stage[q] /\ target'[q] = target[q] /\ failed'[q] = failed[q]
    BY ActTyped
  <2>2. QED
    BY <1>1, <1>2, <2>1 DEF Covers, Ready
<1>4. CASE ToOutside(p)
  <2>1. Covers(p)'
    BY <1>4 DEF ToOutside, Covers, Ready
  <2>2. QED
    BY <1>1, <1>3, <1>4, <2>1 DEF ToOutside, schema, Covered
<1>5. CASE ToReady(p)
  <2>1. 1 .. Files \subseteq applied
    BY <1>1, <1>5 DEF ToReady, Covers
  <2>2. Covers(p)'
    BY <1>5, <2>1 DEF ToReady, schema, Covers, Ready
  <2>3. QED
    BY <1>1, <1>3, <1>5, <2>2 DEF ToReady, schema, Covered
<1>6. CASE ToMark(p)
  <2>1. Covers(p)'
    BY <1>1, <1>6 DEF ToMark, schema, Covers, Ready
  <2>2. QED
    BY <1>1, <1>3, <1>6, <2>1 DEF ToMark, schema, Covered
<1>7. CASE ToRun(p)
  <2>1. Covers(p)'
    BY <1>1, <1>7 DEF ToRun, Covers, Ready
  <2>2. QED
    BY <1>3, <1>7, <2>1 DEF ToRun, Covered
<1>8. CASE ToClean(p)
  <2>1. 1 .. target[p] - 1 \subseteq applied
    BY <1>1, <1>8 DEF ToClean, Covers
  <2>2. 1 .. target[p] \subseteq applied'
    BY <1>1, <1>8, <2>1 DEF ToClean
  <2>3. Covers(p)'
    BY <1>8, <2>2 DEF ToClean, Covers, Ready
  <2>4. QED
    BY <1>1, <1>2, <1>3, <1>8, <2>3 DEF ToClean, Covered
<1>9. CASE ToNext(p)
  <2>1. 1 .. target[p] \subseteq applied
    BY <1>1, <1>9 DEF ToNext, Covers
  <2>2. Covers(p)'
    BY <1>1, <1>9, <2>1 DEF ToNext, Covers, Ready
  <2>3. QED
    BY <1>3, <1>9, <2>1, <2>2 DEF ToNext, Covered
<1>10. CASE ToFailed(p)
  <2>1. Covers(p)'
    BY <1>10 DEF ToFailed, Covers, Ready
  <2>2. QED
    BY <1>1, <1>2, <1>3, <1>10, <2>1 DEF ToFailed, Covered
<1>11. QED
  BY <1>4, <1>5, <1>6, <1>7, <1>8, <1>9, <1>10, Effects

LEMMA CoveredAlways == Spec => []Covered
<1>1. ASSUME Init PROVE Covered
  BY <1>1 DEF Init, Covered, Covers, Ready
<1>2. ASSUME Typed, Typed', Covered, [Next]_vars PROVE Covered'
  <2>1. CASE UNCHANGED vars
    BY <1>2, <2>1 DEF vars, schema, Covered, Covers, Ready
  <2>2. CASE CloseBackend
    BY <1>2, <2>2 DEF CloseBackend, schema, Covered, Covers, Ready
  <2>3. QED
    BY <1>2, <2>1, <2>2, ActCovered DEF Next, Act
<1>3. QED
  BY <1>1, <1>2, TypedAlways, PTL DEF Spec

\* A process serves only with the whole schema, with and without the pooler:
\* it passes a file only once the file is applied, and trusts a clean version,
\* which nobody writes before that.
THEOREM ServesWhole == Spec => []ServesMigrated
<1>1. ASSUME Typed, Covered PROVE ServesMigrated
  BY <1>1, Types DEF Typed, Covered, Covers, Ready, ServesMigrated
<1>2. QED
  BY <1>1, TypedAlways, CoveredAlways, PTL

-----------------------------------------------------------------------------
(* Without the pooler: who has the lock.                                   *)

Holding(p) == stage[p] \in {"ensured", "unlock"} \cup Applying

Alone ==
  ~ pooled => held \in {0, 1} /\ \A p \in Processes : owner = Own[p] <=> Holding(p)

LEMMA ActAlone ==
  ASSUME Typed, Typed', Alone, ~ pooled, NEW p \in Processes, Act(p)
  PROVE  Alone'
<1>1. /\ held \in {0, 1} /\ (held = 0 <=> owner = NoBackend)
      /\ \A q \in Processes : owner = Own[q] <=> Holding(q)
      /\ Backend(p) = {Own[p]} /\ \A q \in Processes \ {p} : Own[q] # Own[p]
      /\ \A q \in Processes : Own[q] # NoBackend
      /\ stage \in [Processes -> Stages]
  BY Types, MigrationsAssumption DEF Typed, Alone, Backend
<1>2. \A q \in Processes \ {p} : Holding(q)' <=> Holding(q)
  BY ActTyped DEF Holding
<1>3. CASE Exit(p)
  <2>1. ~ Holding(p)'
    BY <1>1, <1>3 DEF Exit, Holding, Applying
  <2>2. CASE owner = Own[p]
    <3>1. owner' = NoBackend /\ held' = 0
      BY <1>3, <2>2 DEF Exit
    <3>2. QED
      BY <1>1, <1>2, <2>1, <2>2, <3>1 DEF Alone
  <2>3. CASE owner # Own[p]
    <3>1. owner' = owner /\ held' = held
      BY <1>3, <2>3 DEF Exit, lock
    <3>2. QED
      BY <1>1, <1>2, <2>1, <2>3, <3>1 DEF Alone
  <2>4. QED
    BY <2>2, <2>3
<1>4. CASE Lock(p)
  <2>1. owner \in {Own[p], NoBackend} /\ owner' = Own[p] /\ held' = held + 1
    BY <1>1, <1>4 DEF Lock, Take, Granted
  <2>2. ~ Holding(p) /\ Holding(p)'
    BY <1>1, <1>4 DEF Lock, Goes, Holding, Applying
  <2>3. owner = NoBackend
    BY <1>1, <2>1, <2>2
  <2>4. QED
    BY <1>1, <1>2, <2>1, <2>2, <2>3 DEF Alone
<1>5. CASE Unlock(p)
  <2>1. Holding(p) /\ ~ Holding(p)'
    BY <1>1, <1>5 DEF Unlock, Goes, Holding, Applying
  <2>2. owner = Own[p] /\ held = 1
    BY <1>1, <2>1
  <2>3. owner' = NoBackend /\ held' = 0
    BY <1>1, <1>5, <2>2 DEF Unlock, Release
  <2>4. QED
    BY <1>1, <1>2, <2>1, <2>2, <2>3 DEF Alone
<1>6. CASE UnlockAndExit(p)
  BY <1>3, <1>6 DEF UnlockAndExit
<1>7. CASE Start(p) \/ Connect(p) \/ ReadVersion(p) \/ Mark(p) \/ Run(p) \/ Clean(p)
           \/ StatementFails(p)
  <2>1. UNCHANGED <<owner, held>>
    BY <1>7 DEF Start, Connect, ReadVersion, Mark, Run, Clean, StatementFails, lock
  <2>2. Holding(p)' <=> Holding(p)
    BY <1>1, <1>7 DEF Start, Connect, ReadVersion, Mark, Run, Clean, StatementFails, Fails,
                      Goes, Holding, Applying
  <2>3. QED
    BY <1>1, <1>2, <2>1, <2>2 DEF Alone
<1>8. QED
  BY <1>3, <1>4, <1>5, <1>6, <1>7 DEF Act, Step, Kill, LockTimeout, ConnectFails

LEMMA AloneAlways == Spec => []Alone
<1>1. ASSUME Init PROVE Alone
  BY <1>1, Bounds DEF Init, Alone, Holding, Applying
<1>2. ASSUME Typed, Typed', Alone, [Next]_vars PROVE Alone'
  <2>1. CASE UNCHANGED vars
    BY <1>2, <2>1 DEF vars, lock, Alone, Holding
  <2>2. CASE CloseBackend
    BY <1>2, <2>2 DEF CloseBackend, Alone
  <2>3. ASSUME NEW p \in Processes, Act(p) PROVE Alone'
    BY <1>2, <2>3, ActAlone, ActTyped DEF Alone
  <2>4. QED
    BY <1>2, <2>1, <2>2, <2>3 DEF Next, Act
<1>3. QED
  BY <1>1, <1>2, TypedAlways, PTL DEF Spec

LEMMA AppliesAlone ==
  ASSUME Alone, ~ pooled, NEW p \in Processes, NEW q \in Processes,
         stage[p] \in Applying, stage[q] \in Applying
  PROVE  p = q
BY MigrationsAssumption DEF Alone, Holding

\* A process that has a connection of its own applies migrations beside no
\* other: the backend that has the advisory lock is its own.
THEOREM MigratesAlone == Spec => []OneMigrator
<1>1. Alone => OneMigrator
  BY AppliesAlone DEF OneMigrator
<1>2. QED
  BY <1>1, AloneAlways, PTL

-----------------------------------------------------------------------------
(* Without the pooler: what the version says.                              *)

Settled == version = Files /\ ~ dirty

Tracks(p) ==
  /\ stage[p] = "mark" => ~ dirty /\ target[p] = version + 1
  /\ stage[p] = "run" => dirty /\ target[p] = version
  /\ stage[p] = "clean" => dirty /\ target[p] = version /\ applied = 1 .. version
  /\ Ready(p) => Settled

Tracked ==
  ~ pooled => /\ IF dirty THEN applied \in {1 .. version - 1, 1 .. version}
                 ELSE applied = 1 .. version
              /\ served => Settled
              /\ \A p \in Processes : Tracks(p)

LEMMA ActTracked ==
  ASSUME Typed, Typed', Alone, Tracked, ~ pooled, NEW p \in Processes, Act(p)
  PROVE  Tracked'
<1>1. /\ \A q \in Processes : Tracks(q) /\ target[q] \in 1 .. Files /\ target[q] \in Nat
      /\ version \in 0 .. Files /\ version \in Nat /\ Files \in Nat
      /\ IF dirty THEN applied \in {1 .. version - 1, 1 .. version} ELSE applied = 1 .. version
      /\ served => Settled
      /\ failed[p] => stage[p] = "unlock"
  BY Types, Bounds DEF Tracked, Typed
<1>2. ASSUME version' = version, dirty' = dirty, applied' = applied, NEW q \in Processes \ {p}
      PROVE  Tracks(q)'
  BY <1>1, <1>2, ActTyped DEF Tracks, Ready, Settled
<1>3. ASSUME stage[p] \in {"mark", "run", "clean"}, NEW q \in Processes \ {p}
      PROVE  Tracks(q)'
  <2>1. stage[q] \notin Applying
    BY <1>3, AppliesAlone DEF Applying
  <2>2. ~ Ready(q)
    BY <1>1, <1>3 DEF Tracks, Settled
  <2>3. QED
    BY <2>1, <2>2, ActTyped DEF Tracks, Ready, Applying
<1>4. ASSUME stage[p] \in {"mark", "run", "clean"} PROVE ~ served
  BY <1>1, <1>4 DEF Tracks, Settled
<1>5. CASE ToOutside(p)
  <2>1. Tracks(p)'
    BY <1>5 DEF ToOutside, Tracks, Ready
  <2>2. QED
    BY <1>1, <1>2, <1>5, <2>1 DEF ToOutside, schema, Tracked, Settled
<1>6. CASE ToReady(p)
  <2>1. Settled
    BY <1>1, <1>6 DEF ToReady, Tracks, Settled
  <2>2. Tracks(p)'
    BY <1>6, <2>1 DEF ToReady, schema, Tracks, Ready, Settled
  <2>3. QED
    BY <1>1, <1>2, <1>6, <2>1, <2>2 DEF ToReady, schema, Tracked, Settled
<1>7. CASE ToMark(p)
  <2>1. Tracks(p)'
    BY <1>7 DEF ToMark, schema, Tracks, Ready
  <2>2. QED
    BY <1>1, <1>2, <1>7, <2>1 DEF ToMark, schema, Tracked, Settled
<1>8. CASE ToRun(p)
  <2>1. Tracks(p)'
    BY <1>8 DEF ToRun, Tracks, Ready
  <2>2. applied = 1 .. version' - 1
    BY <1>1, <1>8 DEF ToRun, Tracks
  <2>3. QED
    BY <1>3, <1>4, <1>8, <2>1, <2>2 DEF ToRun, Tracked
<1>9. CASE ToClean(p)
  <2>1. dirty /\ target[p] = version /\ version >= 1
    BY <1>1, <1>9 DEF ToClean, Tracks
  <2>2. applied' = 1 .. version
    BY <1>1, <1>9, <2>1 DEF ToClean
  <2>3. Tracks(p)'
    BY <1>9, <2>1, <2>2 DEF ToClean, Tracks, Ready
  <2>4. QED
    BY <1>3, <1>4, <1>9, <2>1, <2>2, <2>3 DEF ToClean, Tracked
<1>10. CASE ToNext(p)
  <2>1. target[p] = version /\ applied = 1 .. version
    BY <1>1, <1>10 DEF ToNext, Tracks
  <2>2. Tracks(p)'
    BY <1>1, <1>10, <2>1 DEF ToNext, Tracks, Ready, Settled
  <2>3. QED
    BY <1>3, <1>4, <1>10, <2>1, <2>2 DEF ToNext, Tracked
<1>11. CASE ToFailed(p)
  <2>1. Tracks(p)'
    BY <1>11 DEF ToFailed, Tracks, Ready
  <2>2. CASE applied' = applied
    BY <1>1, <1>2, <1>11, <2>1, <2>2 DEF ToFailed, Tracked, Settled
  <2>3. CASE stage[p] = "run" /\ applied' = applied \cup {target[p]}
    <3>1. dirty /\ target[p] = version /\ version >= 1
      BY <1>1, <2>3 DEF Tracks
    <3>2. applied' = 1 .. version
      BY <1>1, <2>3, <3>1
    <3>3. QED
      BY <1>3, <1>4, <1>11, <2>1, <2>3, <3>1, <3>2 DEF ToFailed, Tracked
  <2>4. QED
    BY <1>11, <2>2, <2>3 DEF ToFailed
<1>12. QED
  BY <1>5, <1>6, <1>7, <1>8, <1>9, <1>10, <1>11, Effects

LEMMA TrackedAlways == Spec => []Tracked
<1>1. ASSUME Init PROVE Tracked
  BY <1>1 DEF Init, Tracked, Tracks, Ready
<1>2. ASSUME Typed, Typed', Alone, Tracked, [Next]_vars PROVE Tracked'
  <2>1. CASE UNCHANGED vars
    BY <1>2, <2>1 DEF vars, schema, Tracked, Tracks, Ready, Settled
  <2>2. CASE CloseBackend
    BY <1>2, <2>2 DEF CloseBackend, Tracked
  <2>3. ASSUME NEW p \in Processes, Act(p) PROVE Tracked'
    BY <1>2, <2>3, ActTracked, ActTyped DEF Tracked
  <2>4. QED
    BY <1>2, <2>1, <2>2, <2>3 DEF Next, Act
<1>3. QED
  BY <1>1, <1>2, TypedAlways, AloneAlways, PTL DEF Spec

\* Through crashes, timeouts and failed statements the recorded version says
\* what the schema contains, or when dirty all but its last migration.
THEOREM VersionSays == Spec => []VersionTrue
<1>1. Tracked => VersionTrue
  BY DEF Tracked, VersionTrue
<1>2. QED
  BY <1>1, TrackedAlways, PTL

\* Once a process has served, no later start, and no crash of one, leaves a
\* dirty version behind that would keep the next from starting.
THEOREM StaysSettled == Spec => []SchemaSettled
<1>1. Tracked => SchemaSettled
  BY DEF Tracked, SchemaSettled, Settled
<1>2. QED
  BY <1>1, TrackedAlways, PTL
=============================================================================
