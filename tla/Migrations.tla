---------------------------- MODULE Migrations ----------------------------
(***************************************************************************)
(* The start of the processes of the service against one database: each    *)
(* connects, brings the schema up to date and connects again before it     *)
(* serves.  RunMigrations hands the work to golang-migrate, which takes a  *)
(* PostgreSQL advisory lock, reads the version of the schema and whether   *)
(* it is dirty, and for each newer file writes the version as dirty, runs  *)
(* the file, and writes the version as clean.                              *)
(*                                                                         *)
(* An advisory lock belongs to a server connection, a backend, and may be  *)
(* taken again by it.  Behind Odyssey (pool "transaction", pool_discard    *)
(* no) every statement of a process may run on another backend, which      *)
(* keeps its locks when it goes back to the pool.                          *)
(***************************************************************************)
EXTENDS Integers

CONSTANTS
  Processes,   \* processes of the service
  Backends,    \* server connections of PostgreSQL
  Own,         \* [Processes -> Backends]: of a process without a pooler
  NoBackend,   \* owner of the free lock
  Files,       \* number of migrations
  MaxHeld      \* bound: times one backend takes the lock

ASSUME MigrationsAssumption ==
  /\ Own \in [Processes -> Backends]
  /\ \A p, q \in Processes : Own[p] = Own[q] => p = q
  /\ NoBackend \notin Backends
  /\ Files \in Nat \ {0} /\ MaxHeld \in Nat \ {0}

VARIABLES
  pooled,          \* the processes connect through Odyssey; never changes
  version, dirty,  \* the row of schema_migrations; 0 without one
  applied,         \* the migrations that the schema contains
  owner, held,     \* the backend that has the lock, how many times
  stage,           \* per process: where its start is
  target,          \* per process: the migration it applies
  failed,          \* per process: Up will return an error
  served           \* history: a process has begun to serve

schema == <<version, dirty, applied>>
lock   == <<owner, held>>
vars   == <<pooled, schema, lock, stage, target, failed, served>>

Applying == {"read", "mark", "run", "clean"}
Stages   == {"off", "connect", "ensure", "ensured", "lock", "unlock", "reconnect",
             "serving"} \cup Applying

TypeOK ==
  /\ pooled \in BOOLEAN
  /\ version \in 0 .. Files /\ dirty \in BOOLEAN /\ applied \subseteq 1 .. Files
  /\ owner \in Backends \cup {NoBackend} /\ held \in 0 .. MaxHeld /\ (held = 0) = (owner = NoBackend)
  /\ stage \in [Processes -> Stages] /\ target \in [Processes -> 1 .. Files]
  /\ failed \in [Processes -> BOOLEAN]
  /\ served \in BOOLEAN

Init ==
  /\ pooled \in BOOLEAN
  /\ version = 0 /\ dirty = FALSE /\ applied = {}
  /\ owner = NoBackend /\ held = 0
  /\ stage = [p \in Processes |-> "off"] /\ target = [p \in Processes |-> 1]
  /\ failed = [p \in Processes |-> FALSE]
  /\ served = FALSE

\* The backend that runs the next statement of the process.
Backend(p) == IF pooled THEN Backends ELSE {Own[p]}

Goes(p, next) == stage' = [stage EXCEPT ![p] = next]

\* The end of a process ends its own connection, not those of a pooler.
Exit(p) ==
  /\ stage' = [stage EXCEPT ![p] = "off"]
  /\ target' = [target EXCEPT ![p] = 1] /\ failed' = [failed EXCEPT ![p] = FALSE]
  /\ IF ~ pooled /\ owner = Own[p] THEN owner' = NoBackend /\ held' = 0 ELSE UNCHANGED lock
  /\ UNCHANGED <<pooled, schema, served>>

Start(p) ==
  /\ stage[p] = "off" /\ Goes(p, "connect")
  /\ UNCHANGED <<pooled, schema, lock, target, failed, served>>

Kill(p) == stage[p] # "off" /\ Exit(p)

\* NewPostgres, before the migrations and again after them.
Connect(p) ==
  /\ \/ stage[p] = "connect" /\ Goes(p, "ensure") /\ UNCHANGED served
     \/ stage[p] = "reconnect" /\ Goes(p, "serving") /\ served' = TRUE
  /\ UNCHANGED <<pooled, schema, lock, target, failed>>

\* log.Fatal, or the panic after the second one.
ConnectFails(p) == stage[p] \in {"connect", "reconnect"} /\ Exit(p)

-----------------------------------------------------------------------------
(* The advisory lock.                                                      *)

\* Granted to the backend that has it already, else only when it is free.
Ungranted(b) == TRUE
Granted(b)   == owner \in {b, NoBackend}

Take(p) == \E b \in Backend(p) : Granted(b) /\ owner' = b /\ held' = held + 1

\* Unlocking on a backend that does not have the lock is a mere warning.
KeepLock(p)  == UNCHANGED lock
FreesOnce(p) == owner' = NoBackend /\ UNCHANGED held
Release(p) ==
  \E b \in Backend(p) :
    IF b # owner THEN UNCHANGED lock
    ELSE held' = held - 1 /\ owner' = IF held = 1 THEN NoBackend ELSE owner

\* WithInstance takes the lock to create schema_migrations and waits for it
\* without a limit, as Up does for 15 seconds.
Lock(p) ==
  /\ held < MaxHeld
  /\ \/ stage[p] = "ensure" /\ Goes(p, "ensured")
     \/ stage[p] = "lock" /\ Goes(p, "read")
  /\ Take(p)
  /\ UNCHANGED <<pooled, schema, target, failed, served>>

LockTimeout(p) == stage[p] = "lock" /\ owner # NoBackend /\ Exit(p)

\* An error of Up that is not ErrNoChange ends the process.
Ignored(p) == FALSE
Fatal(p)   == failed[p]

Unlock(p) ==
  /\ \/ stage[p] = "ensured" /\ Goes(p, "lock")
     \/ stage[p] = "unlock" /\ ~ Fatal(p) /\ Goes(p, "reconnect")
  /\ Release(p)
  /\ UNCHANGED <<pooled, schema, target, failed, served>>

\* One step with log.Fatal: nothing reads the lock in between.
UnlockAndExit(p) ==
  /\ stage[p] = "unlock" /\ Fatal(p)
  /\ IF pooled
     THEN /\ Release(p) /\ Goes(p, "off")
          /\ target' = [target EXCEPT ![p] = 1] /\ failed' = [failed EXCEPT ![p] = FALSE]
          /\ UNCHANGED <<pooled, schema, served>>
     ELSE Exit(p)

\* The pooler closes an idle backend after pool_ttl; its locks go with it.
CloseBackend ==
  /\ pooled /\ owner # NoBackend
  /\ owner' = NoBackend /\ held' = 0
  /\ UNCHANGED <<pooled, schema, stage, target, failed, served>>

-----------------------------------------------------------------------------
(* Up.                                                                     *)

Fails(p) ==
  /\ failed' = [failed EXCEPT ![p] = TRUE] /\ Goes(p, "unlock") /\ UNCHANGED target

\* A dirty version is an error, the last one is ErrNoChange.
ReadVersion(p) ==
  /\ stage[p] = "read"
  /\ IF dirty THEN Fails(p)
     ELSE /\ UNCHANGED failed
          /\ IF version = Files
             THEN Goes(p, "unlock") /\ UNCHANGED target
             ELSE Goes(p, "mark") /\ target' = [target EXCEPT ![p] = version + 1]
  /\ UNCHANGED <<pooled, schema, lock, served>>

\* The file is marked dirty before it runs; or only its success is recorded.
SkipsMark(p) == UNCHANGED <<version, dirty>>
Marks(p)     == version' = target[p] /\ dirty' = TRUE

Mark(p) ==
  /\ stage[p] = "mark" /\ Marks(p) /\ Goes(p, "run")
  /\ UNCHANGED <<pooled, applied, lock, target, failed, served>>

\* A file is one implicit transaction and may be run again: its statements
\* say IF NOT EXISTS or OR REPLACE.
Run(p) ==
  /\ stage[p] = "run" /\ applied' = applied \cup {target[p]} /\ Goes(p, "clean")
  /\ UNCHANGED <<pooled, version, dirty, lock, target, failed, served>>

Clean(p) ==
  /\ stage[p] = "clean" /\ version' = target[p] /\ dirty' = FALSE
  /\ IF target[p] = Files
     THEN Goes(p, "unlock") /\ UNCHANGED target
     ELSE Goes(p, "mark") /\ target' = [target EXCEPT ![p] = @ + 1]
  /\ UNCHANGED <<pooled, applied, lock, failed, served>>

\* A statement fails, and has done nothing or everything.
StatementFails(p) ==
  /\ stage[p] \in Applying /\ Fails(p)
  /\ \/ UNCHANGED schema
     \/ stage[p] = "run" /\ applied' = applied \cup {target[p]} /\ UNCHANGED <<version, dirty>>
  /\ UNCHANGED <<pooled, lock, served>>

-----------------------------------------------------------------------------

Step(p) ==
  \/ Connect(p) \/ ConnectFails(p) \/ Unlock(p) \/ UnlockAndExit(p)
  \/ ReadVersion(p) \/ Mark(p) \/ Run(p) \/ Clean(p) \/ StatementFails(p)

Next ==
  \/ \E p \in Processes : Start(p) \/ Kill(p) \/ Lock(p) \/ LockTimeout(p) \/ Step(p)
  \/ CloseBackend

Spec == Init /\ [][Next]_vars

\* Statements are answered or fail; PostgreSQL grants a lock in turn.
FairSpec == Spec /\ \A p \in Processes : WF_vars(Step(p)) /\ SF_vars(Lock(p))

-----------------------------------------------------------------------------
(* Properties.                                                             *)

\* A process serves only with the whole schema, whoever applied it, whatever
\* crashed or failed on the way, and whether or not the lock excludes anybody.
ServesMigrated == \A p \in Processes : stage[p] = "serving" => applied = 1 .. Files

\* With a connection of its own, no process applies migrations beside another.
\* This and what follows from it is lost behind the pooler.
OneMigrator ==
  ~ pooled => \A p, q \in Processes : {stage[p], stage[q]} \subseteq Applying => p = q

\* The recorded version is true: clean, it says what the schema contains;
\* dirty, all but the last migration.
VersionTrue ==
  ~ pooled => IF dirty THEN applied \in {1 .. version - 1, 1 .. version}
              ELSE applied = 1 .. version

\* Once a process has served, no crash of a later start leaves the schema
\* dirty, which would keep every process from starting again.
SchemaSettled == ~ pooled /\ served => version = Files /\ ~ dirty

\* A start ends: the process serves or is gone.
StartEnds ==
  \A p \in Processes : ~ pooled /\ stage[p] # "off" ~> stage[p] \in {"serving", "off"}
=============================================================================
