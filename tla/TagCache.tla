------------------------------ MODULE TagCache ------------------------------
(***************************************************************************)
(* The tags of the monitoring service: the tags table in PostgreSQL, the   *)
(* package variable "tags" that each process keeps as a copy of it, the    *)
(* handlers that edit the table and then refresh the copy (UpdateTags),    *)
(* and the handling of device messages, which reads the copy WITHOUT       *)
(* taking tagsMutex.                                                       *)
(*                                                                         *)
(* A worker is a goroutine that serves one HTTP request at a time in the   *)
(* process Home[w].  Every step that touches shared state (a database      *)
(* statement, the mutex, the map) is an action of its own.                 *)
(***************************************************************************)
EXTENDS TagRules, FiniteSets, SequencesExt

CONSTANTS
  Instances,   \* processes of the service behind the load balancer
  Workers,     \* request goroutines
  Home,        \* [Workers -> Instances]
  NoWorker,    \* owner of a free tagsMutex
  Creates,     \* bodies of POST /tags/create
  Edits,       \* bodies of PUT /tags/update, omitted fields at their zero value
  Arrivals,    \* messages that senders post: a device id and a text
  PoolSize,    \* server connections of the pooler
  MaxCommits,  \* bound: tag transactions
  MaxMessages  \* bound: rows of the messages table

\* An update needs one field only, and the subject, not modelled, is one.
ValidCreate(t) ==
  /\ t.name # "" /\ t.device # 0 /\ t.pattern # "" /\ t.value # ""
  /\ t.index # 0 /\ t.cmp \in Comparators

ASSUME CacheAssumption ==
  /\ Home \in [Workers -> Instances]
  /\ NoWorker \notin Workers
  /\ Creates \subseteq Tag /\ \A t \in Creates : ValidCreate(t)
  /\ Edits \subseteq Tag
  /\ Arrivals \subseteq [device: DeviceIds, text: Texts \ {""}]
  /\ PoolSize \in Nat \ {0}
  /\ MaxCommits \in Nat /\ MaxMessages \in Nat

VARIABLES
  table,     \* the tags table: a set of rows
  version,   \* history: transactions committed on the table
  messages,  \* the messages table, in insertion order
  proc,      \* per process: "up", or why it is down
  cache,     \* per process: the map "tags", device id -> slice of rows
  holder,    \* per process: owner of tagsMutex
  shown,     \* history, per process: the last table completely installed
  wiped,     \* history, per process: the last refresh lost its rows
  pc,        \* per worker: where its request is
  todo,      \* per worker: UpdateTags calls the handler has still to finish
  scan,      \* per worker: rows of its Read, their version, rows handled
  status,    \* per worker: the outcome its reply will carry
  mine,      \* history, per worker: version its own transaction created
  missed,    \* history, per worker: UpdateTags calls that gave up
  job        \* per worker: the message it handles

vars == <<table, version, messages, proc, cache, holder, shown, wiped,
          pc, todo, scan, status, mine, missed, job>>

Refreshing == {"begin", "locking", "reading", "filling"}
InTx       == {"locking", "reading", "filling"}
Stages     == Refreshing \cup {"idle", "inserting", "reply"}
Down       == {"off", "killed", "range", "nilTx", "mapRace"}

NoScan   == [rows |-> <<>>, version |-> 0, pos |-> 0]
NoRows   == [rows |-> <<>>, version |-> 0]
NoJob    == [device |-> 0, text |-> "", verdict |-> Unmatched,
             complete |-> Unmatched, overlap |-> FALSE]
NoTags   == [d \in DeviceIds |-> <<>>]

Scans == [rows: Seq(Row), version: Nat, pos: Nat]
Jobs  == [device: DeviceIds, text: Texts, verdict: Verdicts,
          complete: Verdicts, overlap: BOOLEAN]

TypeOK ==
  /\ table \subseteq Row /\ version \in Nat
  /\ messages \in Seq(Jobs)
  /\ proc \in [Instances -> Down \cup {"up"}]
  /\ cache \in [Instances -> [DeviceIds -> Seq(Row)]]
  /\ holder \in [Instances -> Workers \cup {NoWorker}]
  /\ shown \in [Instances -> [rows: Seq(Row), version: Nat]]
  /\ wiped \in [Instances -> BOOLEAN]
  /\ pc \in [Workers -> Stages]
  /\ todo \in [Workers -> 0 .. 2]
  /\ scan \in [Workers -> Scans]
  /\ status \in [Workers -> {"ok", "error"}]
  /\ mine \in [Workers -> Nat] /\ missed \in [Workers -> 0 .. 2]
  /\ job \in [Workers -> Jobs]

-----------------------------------------------------------------------------
(* The process: start-up and the ways it stops.                            *)

\* SELECT without ORDER BY: any order of the rows.
ReadOrders == SetToSeqs(table)

Fresh(w) == /\ todo' = [todo EXCEPT ![w] = 0]
            /\ scan' = [scan EXCEPT ![w] = NoScan]
            /\ status' = [status EXCEPT ![w] = "ok"]
            /\ mine' = [mine EXCEPT ![w] = 0]
            /\ missed' = [missed EXCEPT ![w] = 0]
            /\ job' = [job EXCEPT ![w] = NoJob]

Init ==
  /\ table = {} /\ version = 0 /\ messages = <<>>
  /\ proc = [i \in Instances |-> "off"]
  /\ cache = [i \in Instances |-> NoTags]
  /\ holder = [i \in Instances |-> NoWorker]
  /\ shown = [i \in Instances |-> NoRows]
  /\ wiped = [i \in Instances |-> TRUE]
  /\ pc = [w \in Workers |-> "idle"]
  /\ todo = [w \in Workers |-> 0]
  /\ scan = [w \in Workers |-> NoScan]
  /\ status = [w \in Workers |-> "ok"]
  /\ mine = [w \in Workers |-> 0] /\ missed = [w \in Workers |-> 0]
  /\ job = [w \in Workers |-> NoJob]

\* NewMessagesService calls UpdateTags before the server listens; the service
\* starts even when that refresh fails and leaves the map empty.
Boot(i) ==
  /\ proc[i] # "up"
  /\ proc' = [proc EXCEPT ![i] = "up"]
  /\ \/ \E rows \in ReadOrders :
          /\ cache' = [cache EXCEPT ![i] = Grouped(rows)]
          /\ shown' = [shown EXCEPT ![i] = [rows |-> rows, version |-> version]]
          /\ wiped' = [wiped EXCEPT ![i] = FALSE]
     \/ UNCHANGED <<cache, shown, wiped>>
  /\ UNCHANGED <<table, version, messages, holder, pc, todo, scan, status,
                 mine, missed, job>>

\* The process ends: its memory and its requests are gone, the tables stay.
Stops(i, why) ==
  /\ proc' = [proc EXCEPT ![i] = why]
  /\ cache' = [cache EXCEPT ![i] = NoTags]
  /\ holder' = [holder EXCEPT ![i] = NoWorker]
  /\ wiped' = [wiped EXCEPT ![i] = TRUE]
  /\ pc' = [w \in Workers |-> IF Home[w] = i THEN "idle" ELSE pc[w]]
  /\ todo' = [w \in Workers |-> IF Home[w] = i THEN 0 ELSE todo[w]]
  /\ scan' = [w \in Workers |-> IF Home[w] = i THEN NoScan ELSE scan[w]]
  /\ status' = [w \in Workers |-> IF Home[w] = i THEN "ok" ELSE status[w]]
  /\ mine' = [w \in Workers |-> IF Home[w] = i THEN 0 ELSE mine[w]]
  /\ missed' = [w \in Workers |-> IF Home[w] = i THEN 0 ELSE missed[w]]
  /\ job' = [w \in Workers |-> IF Home[w] = i THEN NoJob ELSE job[w]]
  /\ UNCHANGED <<table, version, messages, shown>>

\* A signal or the host stops the process at any moment.
Kill(i) == proc[i] = "up" /\ Stops(i, "killed")

-----------------------------------------------------------------------------
(* Edits of the tags table.                                                *)

Idle(w) == pc[w] = "idle" /\ proc[Home[w]] = "up"

\* The service and the handler each call UpdateTags after a commit.
OneRefresh == 1
Refreshes  == 2

\* The transaction of a handler, and where the handler goes next.  "kept" is
\* the number of UpdateTags calls the handler makes although it got an error.
\* A commit may also take effect and its answer be lost.
EditTags(w, newTable, kept) ==
  /\ \/ /\ version < MaxCommits
        /\ table' = newTable /\ version' = version + 1
        /\ \/ /\ status' = [status EXCEPT ![w] = "ok"]
              /\ mine' = [mine EXCEPT ![w] = version + 1]
              /\ todo' = [todo EXCEPT ![w] = Refreshes]
           \/ /\ status' = [status EXCEPT ![w] = "error"]
              /\ todo' = [todo EXCEPT ![w] = kept]
              /\ UNCHANGED mine
     \/ /\ status' = [status EXCEPT ![w] = "error"]
        /\ todo' = [todo EXCEPT ![w] = kept]
        /\ UNCHANGED <<table, version, mine>>
  /\ pc' = [pc EXCEPT ![w] = IF todo'[w] = 0 THEN "reply" ELSE "begin"]
  /\ UNCHANGED <<messages, proc, cache, holder, shown, wiped, scan, missed, job>>

\* tags_name_unique; tags are deleted for good, so a name becomes free again.
NameFree(name, id) == \A r \in table : r.tag.name = name => r.id = id

\* POST /tags/create.  Identity values are never reused: the version that the
\* insert creates serves as one.
CreateTag(w, t) ==
  /\ Idle(w)
  /\ NameFree(t.name, 0)
  /\ EditTags(w, table \cup {[id |-> version + 1, tag |-> t]}, 0)

\* PUT /tags/update.  Every option is non-nil, so coalesce() keeps nothing of
\* the old row.
UpdateTag(w, id, t) ==
  /\ Idle(w)
  /\ (\E r \in table : r.id = id) => NameFree(t.name, id)
  /\ EditTags(w, {IF r.id = id THEN [r EXCEPT !.tag = t] ELSE r : r \in table}, 1)

\* DELETE /tags/delete.
DeleteTag(w, id) ==
  /\ Idle(w)
  /\ EditTags(w, {r \in table : r.id # id}, 0)

\* A unique violation fails the transaction.
RejectTag(w, t, id) ==
  /\ Idle(w)
  /\ ~ NameFree(t.name, id)
  /\ status' = [status EXCEPT ![w] = "error"]
  /\ \/ /\ id = 0 /\ t \in Creates
        /\ pc' = [pc EXCEPT ![w] = "reply"] /\ UNCHANGED todo
     \/ /\ t \in Edits /\ \E r \in table : r.id = id
        /\ pc' = [pc EXCEPT ![w] = "begin"] /\ todo' = [todo EXCEPT ![w] = 1]
  /\ UNCHANGED <<table, version, messages, proc, cache, holder, shown, wiped,
                 scan, mine, missed, job>>

-----------------------------------------------------------------------------
(* UpdateTags: transaction, mutex, empty map, read, rows one by one, unlock. *)

\* A refresh that gave up would be tried again.
RetryRefresh(w, lost) ==
  /\ todo' = [todo EXCEPT ![w] = @ - 1 + lost]
  /\ missed' = [missed EXCEPT ![w] = @ + lost]
  /\ pc' = [pc EXCEPT ![w] = IF todo'[w] > 0 THEN "begin" ELSE "reply"]

\* This UpdateTags call returns; "lost" is 1 if it gave up.
EndRefresh(w, lost) ==
  /\ todo' = [todo EXCEPT ![w] = @ - 1]
  /\ missed' = [missed EXCEPT ![w] = @ + lost]
  /\ pc' = [pc EXCEPT ![w] = IF todo[w] > 1 THEN "begin" ELSE "reply"]

\* The transaction is open, and its connection taken, BEFORE the mutex is.
BeginRefresh(w) ==
  /\ pc[w] = "begin"
  /\ Cardinality({v \in Workers : pc[v] \in InTx}) < PoolSize
  /\ pc' = [pc EXCEPT ![w] = "locking"]
  /\ UNCHANGED <<table, version, messages, proc, cache, holder, shown, wiped,
                 todo, scan, status, mine, missed, job>>

\* No connection within the pooler's time limit, or the database is away.
BeginFails(w) ==
  /\ pc[w] = "begin"
  /\ EndRefresh(w, 1)
  /\ UNCHANGED <<table, version, messages, proc, cache, holder, shown, wiped,
                 scan, status, mine, job>>

\* tagsMutex.Lock() and the deferred tagsMutex.Unlock(); without either, and
\* without the new map.
NoLock(i)    == TRUE
NoUnlock(i)  == holder
NoNewMap(i)  == cache
Lockable(i)  == holder[i] = NoWorker
Released(i)  == [holder EXCEPT ![i] = NoWorker]
NewMap(i)    == [cache EXCEPT ![i] = NoTags]

\* tags = make(...): readers that take no mutex see the empty map at once.
LockTags(w) ==
  /\ pc[w] = "locking"
  /\ Lockable(Home[w])
  /\ holder' = [holder EXCEPT ![Home[w]] = w]
  /\ cache' = NewMap(Home[w])
  /\ pc' = [pc EXCEPT ![w] = "reading"]
  /\ UNCHANGED <<table, version, messages, proc, shown, wiped,
                 todo, scan, status, mine, missed, job>>

ReadTags(w) ==
  /\ pc[w] = "reading"
  /\ \E rows \in ReadOrders :
       scan' = [scan EXCEPT ![w] = [rows |-> rows, version |-> version, pos |-> 0]]
  /\ pc' = [pc EXCEPT ![w] = "filling"]
  /\ UNCHANGED <<table, version, messages, proc, cache, holder, shown, wiped,
                 todo, status, mine, missed, job>>

\* The deferred Unlock runs, the map stays empty.
ReadFails(w) ==
  /\ pc[w] = "reading"
  /\ holder' = Released(Home[w])
  /\ wiped' = [wiped EXCEPT ![Home[w]] = TRUE]
  /\ EndRefresh(w, 1)
  /\ UNCHANGED <<table, version, messages, proc, cache, shown,
                 scan, status, mine, job>>

NextRow(w) == scan[w].rows[scan[w].pos + 1]

AppendTag(w) ==
  /\ pc[w] = "filling"
  /\ scan[w].pos < Len(scan[w].rows)
  /\ scan' = [scan EXCEPT ![w].pos = @ + 1]
  /\ cache' = IF Usable(NextRow(w).tag)
              THEN [cache EXCEPT ![Home[w]][NextRow(w).tag.device] =
                      Append(@, NextRow(w))]
              ELSE cache
  /\ UNCHANGED <<table, version, messages, proc, holder, shown, wiped, pc,
                 todo, status, mine, missed, job>>

\* The deferred Unlock, with the deferred Rollback that gives the connection
\* back and changes nothing else.
Unlock(w) ==
  /\ pc[w] = "filling"
  /\ scan[w].pos = Len(scan[w].rows)
  /\ holder' = Released(Home[w])
  /\ shown' = [shown EXCEPT ![Home[w]] =
                 [rows |-> scan[w].rows, version |-> scan[w].version]]
  /\ wiped' = [wiped EXCEPT ![Home[w]] = FALSE]
  /\ scan' = [scan EXCEPT ![w] = NoScan]
  /\ EndRefresh(w, 0)
  /\ UNCHANGED <<table, version, messages, proc, cache, status, mine, job>>

-----------------------------------------------------------------------------
(* POST /messages/send_msg: handleMessage, then one insert.                *)

\* The rows the map of process i holds, or is being filled with.
Snapshot(i) == IF holder[i] = NoWorker THEN shown[i].rows
               ELSE scan[holder[i]].rows

InRefresh(i) == holder[i] # NoWorker \/ wiped[i]

\* The map lookup, without tagsMutex, gives the slice of that instant; the
\* verdict follows from it.  A panic stops the process.
ReceiveMessage(w, d, text) ==
  LET i       == Home[w]
      verdict == HandleMessage(cache[i][d], text)
  IN /\ Idle(w)
     /\ Len(messages) + Cardinality({v \in Workers : pc[v] = "inserting"})
          < MaxMessages
     /\ \/ /\ verdict.end = "stored"
           /\ pc' = [pc EXCEPT ![w] = "inserting"]
           /\ job' = [job EXCEPT ![w] =
                [device |-> d, text |-> text, verdict |-> verdict,
                 complete |-> HandleMessage(Grouped(Snapshot(i))[d], text),
                 overlap |-> InRefresh(i)]]
           /\ UNCHANGED <<table, version, messages, proc, cache, holder,
                          shown, wiped, todo, scan, status, mine, missed>>
        \/ verdict.end # "stored" /\ Stops(i, verdict.end)

\* Go's runtime ends a process whose map is read while it is assigned to.
MapRace(w) ==
  /\ Idle(w)
  /\ Len(messages) < MaxMessages
  /\ \E v \in Workers :
       /\ Home[v] = Home[w] /\ pc[v] = "filling"
       /\ scan[v].pos < Len(scan[v].rows) /\ Usable(NextRow(v).tag)
  /\ Stops(Home[w], "mapRace")

\* The insert commits; the sender may still see an error if the answer to the
\* commit is lost.
StoreMessage(w) ==
  /\ pc[w] = "inserting"
  /\ messages' = Append(messages, job[w])
  /\ \E s \in {"ok", "error"} : status' = [status EXCEPT ![w] = s]
  /\ pc' = [pc EXCEPT ![w] = "reply"]
  /\ UNCHANGED <<table, version, proc, cache, holder, shown, wiped,
                 todo, scan, mine, missed, job>>

StoreFails(w) ==
  /\ pc[w] = "inserting"
  /\ status' = [status EXCEPT ![w] = "error"]
  /\ pc' = [pc EXCEPT ![w] = "reply"]
  /\ UNCHANGED <<table, version, messages, proc, cache, holder, shown, wiped,
                 todo, scan, mine, missed, job>>

Reply(w) ==
  /\ pc[w] = "reply"
  /\ pc' = [pc EXCEPT ![w] = "idle"]
  /\ Fresh(w)
  /\ UNCHANGED <<table, version, messages, proc, cache, holder, shown, wiped>>

-----------------------------------------------------------------------------

Edit(w) ==
  \/ \E t \in Creates : CreateTag(w, t) \/ RejectTag(w, t, 0)
  \/ \E id \in 1 .. MaxCommits :
       DeleteTag(w, id) \/ \E t \in Edits : UpdateTag(w, id, t) \/ RejectTag(w, t, id)

Refresh(w) ==
  BeginRefresh(w) \/ BeginFails(w) \/ ReadTags(w) \/ ReadFails(w)
    \/ AppendTag(w) \/ Unlock(w)

Message(w) == MapRace(w) \/ \E m \in Arrivals : ReceiveMessage(w, m.device, m.text)

Finish(w) == StoreMessage(w) \/ StoreFails(w) \/ Reply(w)

Next ==
  \/ \E i \in Instances : Boot(i) \/ Kill(i)
  \/ \E w \in Workers : Edit(w) \/ LockTags(w) \/ Refresh(w) \/ Message(w) \/ Finish(w)

Spec == Init /\ [][Next]_vars

\* A request that has started goes on: each statement is answered or fails,
\* and the mutex, which hands itself to its longest waiter after a
\* millisecond, starves nobody.  Nothing makes new requests, restarts or
\* failures happen.
Fairness ==
  \A w \in Workers : WF_vars(Refresh(w)) /\ WF_vars(Finish(w)) /\ SF_vars(LockTags(w))

FairSpec == Spec /\ Fairness

-----------------------------------------------------------------------------
(* Properties.                                                             *)

\* The body of UpdateTags is executed by one request of a process at a time,
\* and the mutex is held by nobody else, whatever fails on the way.
RefreshExclusive ==
  \A w \in Workers : (holder[Home[w]] = w) <=> (pc[w] \in {"reading", "filling"})

\* Read your writes: when an edit is answered "ok" and one of its refreshes at
\* least was through, the process that answers has installed a state that has
\* the edit, and what another refresh is loading there has it too.  Its rules
\* are those of that state, except in two cases: a refresh is under way, or
\* the last one failed after it had emptied the map, which one failed read of
\* this handler or of another is enough for.
AckedTagVisible ==
  \A w \in Workers :
    pc[w] = "reply" /\ status[w] = "ok" /\ mine[w] > 0 /\ missed[w] < 2 =>
      LET i == Home[w] IN
      /\ shown[i].version >= mine[w]
      /\ \A v \in Workers :
           Home[v] = i /\ pc[v] = "filling" => scan[v].version >= mine[w]
      /\ ~ InRefresh(i) => cache[i] = Grouped(shown[i].rows)

\* Outside a refresh the map is one committed state of the table, grouped by
\* device, or empty; during one it is a prefix of the state being loaded.
CacheIsSnapshot ==
  \A i \in Instances :
    cache[i] =
      IF holder[i] # NoWorker
      THEN [d \in DeviceIds |-> Loaded(scan[holder[i]].rows, d)[scan[holder[i]].pos]]
      ELSE IF wiped[i] THEN NoTags ELSE Grouped(shown[i].rows)

\* The rules that could decide about a text, whatever their order.
Deciders(rows, d, text) ==
  {r \in ToSet(rows) : Usable(r.tag) /\ r.tag.device = d /\ Found(r, text) # <<>>}

\* Read has no order.  Outside a refresh the order may pick the rule that
\* decides about a message among the usable rules of its device that match it,
\* but nothing else: a message that some of them matches is judged by one.
OrderOnlyPicks ==
  \A i \in Instances, d \in DeviceIds, text \in Texts :
    LET rules   == Deciders(shown[i].rows, d, text)
        verdict == HandleMessage(cache[i][d], text)
    IN ~ InRefresh(i) =>
         IF rules = {} THEN verdict = Unmatched
         ELSE verdict \in {Judge(r.tag, Found(r, text)) : r \in rules}

LosesAtMost(m) == m.verdict # m.complete => m.overlap /\ m.verdict = Unmatched

\* A message classified in the middle of a refresh gets the verdict of the
\* whole rule set or none at all: the unlocked read loses classifications, it
\* never invents one, and outside a refresh it loses none.
WindowOnlyLoses == \A k \in DOMAIN messages : LosesAtMost(messages[k])

\* What a process judges by only moves forward, never past the table; its rules
\* have gaps while a refresh is under way and after one whose read failed; and
\* an answer "ok" is read-your-writes but for a gap: TagCache implements
\* SessionView.
View == INSTANCE SessionView WITH
          up     <- [i \in Instances |-> proc[i] = "up"],
          view   <- [i \in Instances |-> shown[i].version],
          gap    <- [i \in Instances |-> InRefresh(i)],
          owed   <- mine,
          due    <- todo,
          misses <- missed

ImplementsSessionView == View!Spec

\* What the struct tags of the requests promise, and the code does not keep.
\* "<" and ">" are comparators a tag may have: no message stops the process
\* because of one (an error of the edit it triggers is logged).
ThresholdHarmless == \A i \in Instances : proc[i] # "nilTx"

\* Every request is answered, or its process has stopped.
RequestsAnswered == \A w \in Workers : pc[w] # "idle" ~> pc[w] = "idle"
=============================================================================
