---------------------------- MODULE DeviceCaches ----------------------------
(***************************************************************************)
(* The devices of the monitoring service: the devices table, the two maps  *)
(* each process copies it into, and the requests that read the maps.       *)
(*                                                                         *)
(*   byId   deviceByDeviceID of MessagesService: a report row looks up the *)
(*          device of its message.  Not loaded at start-up.                *)
(*   byIp   devicesByIp of DeviceHandler: a message's address is turned    *)
(*          into a device id.  Loaded at start-up.                         *)
(*                                                                         *)
(* Unlike UpdateTags, both refreshes read the table BEFORE they take their *)
(* mutex, so a slow one may install rows older than those it replaces.     *)
(* Readers take no mutex.  A map is the set of its values: a device row    *)
(* holds its own key.                                                      *)
(***************************************************************************)
EXTENDS Integers, Sequences, FiniteSets

CONSTANTS
  Instances,   \* processes of the service behind the load balancer
  Workers,     \* request goroutines
  Home,        \* [Workers -> Instances]
  NoWorker,    \* owner of a free mutex
  Names,       \* device names, "" among them
  Written,     \* IP addresses as requests spell them
  Inet,        \* [Written -> Written]: PostgreSQL's spelling of an inet
  MaxCommits,  \* bound: states of the devices table
  MaxMessages  \* bound: rows of the messages table

ASSUME DevicesAssumption ==
  /\ Home \in [Workers -> Instances]
  /\ NoWorker \notin Workers
  /\ "" \in Names /\ "" \notin Written
  /\ Inet \in [Written -> Written] /\ \A a \in Written : Inet[Inet[a]] = Inet[a]
  /\ MaxCommits \in Nat \ {0} /\ MaxMessages \in Nat

VARIABLES
  log,       \* the devices table after each of its transactions, last = now
  messages,  \* the messages table
  proc,      \* per process: "off", "up" or "fatal"
  cache,     \* per process and map: the devices in it
  holder,    \* per process and map: owner of its mutex
  ver,       \* history: state of the table that the map shows, 0 = none
  peak,      \* history: the newest state the map has shown
  pc,        \* per worker: where its request is
  which,     \* per worker: the map it refreshes
  scan,      \* per worker: rows of its Read, those to add, their state
  status,    \* per worker: the outcome its reply will carry
  mine,      \* history, per worker: state its own transaction made, 0 = none
  missed,    \* history, per worker: maps whose refresh had no rows
  job,       \* per worker: the message it handles
  report     \* per worker: device ids to name, rows named

dbVars   == <<log, messages>>
procVars == <<proc, cache, holder, ver, peak>>
reqVars  == <<pc, which, scan, status, mine, missed, job, report>>
vars     == <<dbVars, procVars, reqVars>>

Maps == {"byId", "byIp"}
Ids  == 1 .. MaxCommits
Row  == [id: Ids, name: Names, address: Written, live: BOOLEAN]

devices == log[Len(log)]

\* What Read returns of state v: the rows that are not deleted.
Live(v) == IF v = 0 THEN {} ELSE {r \in log[v] : r.live}

Unknown  == "unknown device"
NoScan   == [rows |-> {}, left |-> {}, version |-> 0]
NoJob    == [address |-> "", device |-> 0, version |-> 0, gap |-> FALSE]
NoReport == [left |-> {}, rows |-> {}]
Versions == 0 .. MaxCommits

Messages == [address: Written \cup {""}, device: Ids \cup {0}, version: Versions, gap: BOOLEAN]
Lines    == [device: Ids \cup {0}, name: Names \cup {Unknown}, version: Versions, gap: BOOLEAN]

TypeOK ==
  /\ log \in Seq(SUBSET Row) /\ Len(log) \in 1 .. MaxCommits
  /\ messages \in Seq(Messages)
  /\ proc \in [Instances -> {"off", "up", "fatal"}]
  /\ cache \in [Instances -> [Maps -> SUBSET Row]]
  /\ holder \in [Instances -> [Maps -> Workers \cup {NoWorker}]]
  /\ ver \in [Instances -> [Maps -> Versions]] /\ peak \in [Instances -> [Maps -> Versions]]
  /\ pc \in [Workers -> {"idle", "read", "wait", "fill", "inserting", "naming", "reply"}]
  /\ which \in [Workers -> Maps]
  /\ scan \in [Workers -> [rows: SUBSET Row, left: SUBSET Row, version: Versions]]
  /\ status \in [Workers -> {"ok", "error"}]
  /\ mine \in [Workers -> Versions] /\ missed \in [Workers -> SUBSET Maps]
  /\ job \in [Workers -> Messages]
  /\ report \in [Workers -> [left: SUBSET (Ids \cup {0}), rows: SUBSET Lines]]

-----------------------------------------------------------------------------
(* The maps.                                                               *)

SameKey(m, r, s) == IF m = "byId" THEN r.id = s.id ELSE r.address = s.address

\* devicesByIp[d.Address] = d replaces the value of the key.
Put(m, map, r) == {s \in map : ~ SameKey(m, r, s)} \cup {r}

\* What adding the rows in any order can give: for devices that share an
\* address, the last one read stays.
Filled(m, rows) ==
  {map \in SUBSET rows :
     /\ \A r \in rows : \E s \in map : SameKey(m, r, s)
     /\ \A r, s \in map : SameKey(m, r, s) => r = s}

-----------------------------------------------------------------------------
(* The process.                                                            *)

Init ==
  /\ log = <<{}>> /\ messages = <<>>
  /\ proc = [i \in Instances |-> "off"]
  /\ cache = [i \in Instances |-> [m \in Maps |-> {}]]
  /\ holder = [i \in Instances |-> [m \in Maps |-> NoWorker]]
  /\ ver = [i \in Instances |-> [m \in Maps |-> 0]] /\ peak = ver
  /\ pc = [w \in Workers |-> "idle"] /\ which = [w \in Workers |-> "byId"]
  /\ scan = [w \in Workers |-> NoScan] /\ status = [w \in Workers |-> "ok"]
  /\ mine = [w \in Workers |-> 0] /\ missed = [w \in Workers |-> {}]
  /\ job = [w \in Workers |-> NoJob] /\ report = [w \in Workers |-> NoReport]

\* NewDeviceHandler loads devicesByIp, if it can; nobody loads
\* deviceByDeviceID before the first edit of a device in this process.
Boot(i) ==
  /\ proc[i] # "up"
  /\ proc' = [proc EXCEPT ![i] = "up"]
  /\ \/ /\ \E map \in Filled("byIp", Live(Len(log))) :
             cache' = [cache EXCEPT ![i]["byIp"] = map]
        /\ ver' = [ver EXCEPT ![i]["byIp"] = Len(log)]
        /\ peak' = [peak EXCEPT ![i]["byIp"] = Len(log)]
     \/ UNCHANGED <<cache, ver, peak>>
  /\ UNCHANGED <<dbVars, holder, reqVars>>

Reset(who) ==
  /\ pc' = [w \in Workers |-> IF w \in who THEN "idle" ELSE pc[w]]
  /\ which' = [w \in Workers |-> IF w \in who THEN "byId" ELSE which[w]]
  /\ scan' = [w \in Workers |-> IF w \in who THEN NoScan ELSE scan[w]]
  /\ status' = [w \in Workers |-> IF w \in who THEN "ok" ELSE status[w]]
  /\ mine' = [w \in Workers |-> IF w \in who THEN 0 ELSE mine[w]]
  /\ missed' = [w \in Workers |-> IF w \in who THEN {} ELSE missed[w]]
  /\ job' = [w \in Workers |-> IF w \in who THEN NoJob ELSE job[w]]
  /\ report' = [w \in Workers |-> IF w \in who THEN NoReport ELSE report[w]]

\* The process ends, killed or by a fatal error; the tables stay.
Stops(i, why) ==
  /\ proc' = [proc EXCEPT ![i] = why]
  /\ cache' = [cache EXCEPT ![i] = [m \in Maps |-> {}]]
  /\ holder' = [holder EXCEPT ![i] = [m \in Maps |-> NoWorker]]
  /\ ver' = [ver EXCEPT ![i] = [m \in Maps |-> 0]]
  /\ peak' = [peak EXCEPT ![i] = [m \in Maps |-> 0]]
  /\ Reset({w \in Workers : Home[w] = i})
  /\ UNCHANGED dbVars

Kill(i) == proc[i] = "up" /\ Stops(i, "off")

Idle(w) == pc[w] = "idle" /\ proc[Home[w]] = "up"

-----------------------------------------------------------------------------
(* Edits of the devices table.                                             *)

\* The transaction of a handler commits.  Only a handler that got no error
\* refreshes the maps; the answer to the commit may be lost.
Commits(w, newTable) ==
  /\ Len(log) < MaxCommits
  /\ log' = Append(log, newTable)
  /\ \/ /\ mine' = [mine EXCEPT ![w] = Len(log) + 1]
        /\ pc' = [pc EXCEPT ![w] = "read"] /\ UNCHANGED status
     \/ /\ status' = [status EXCEPT ![w] = "error"]
        /\ pc' = [pc EXCEPT ![w] = "reply"] /\ UNCHANGED mine
  /\ UNCHANGED <<messages, procVars, which, scan, missed, job, report>>

\* It does not: the database is away, the name is in use, or an update has no
\* address ('' is no inet).  A report whose query fails ends the same way.
RejectRequest(w) ==
  /\ Idle(w)
  /\ status' = [status EXCEPT ![w] = "error"]
  /\ pc' = [pc EXCEPT ![w] = "reply"]
  /\ UNCHANGED <<dbVars, procVars, which, scan, mine, missed, job, report>>

\* devices_name_unique also covers the rows of deleted devices.
NameFree(name, id) == \A r \in devices : r.name = name => r.id = id

\* POST /devices/create.  Rows are never removed, so their number gives an id.
CreateDevice(w, name, address) ==
  /\ Idle(w)
  /\ name # "" /\ NameFree(name, 0)
  /\ Commits(w, devices \cup
       {[id |-> Cardinality(devices) + 1, name |-> name, address |-> Inet[address],
         live |-> TRUE]})

\* PUT /devices/update.  Every option is non-nil: an omitted name becomes "".
UpdateDevice(w, id, name, address) ==
  /\ Idle(w)
  /\ (\E r \in devices : r.id = id /\ r.live) => NameFree(name, id)
  /\ Commits(w, {IF r.id = id /\ r.live
                     THEN [r EXCEPT !.name = name, !.address = Inet[address]]
                     ELSE r : r \in devices})

\* A trigger turns the delete of a row into an update of deleted_at; without
\* it the row would go.
HardDelete(id) == {r \in devices : r.id # id}
Deleted(id)    == {IF r.id = id THEN [r EXCEPT !.live = FALSE] ELSE r : r \in devices}

DeleteDevice(w, id) == Idle(w) /\ Commits(w, Deleted(id))

-----------------------------------------------------------------------------
(* The two refreshes of a handler, first of byId, then of byIp.            *)

\* The handler whose device checker is missing would refresh one map only.
ReplyNext(w)   == /\ pc' = [pc EXCEPT ![w] = "reply"] /\ UNCHANGED which
AfterUpdate(w) ==
  IF which[w] = "byId"
  THEN /\ pc' = [pc EXCEPT ![w] = "read"] /\ which' = [which EXCEPT ![w] = "byIp"]
  ELSE /\ pc' = [pc EXCEPT ![w] = "reply"] /\ UNCHANGED which

\* Begin, read and commit, with no mutex.
ReadDevices(w) ==
  /\ pc[w] = "read"
  /\ scan' = [scan EXCEPT ![w] =
       [rows |-> Live(Len(log)), left |-> Live(Len(log)), version |-> Len(log)]]
  /\ pc' = [pc EXCEPT ![w] = "wait"]
  /\ UNCHANGED <<dbVars, procVars, which, status, mine, missed, job, report>>

\* No transaction, or in DeviceHandler any error: the map stays as it is.
GiveUp(w) ==
  /\ pc[w] = "read"
  /\ missed' = [missed EXCEPT ![w] = @ \cup {which[w]}]
  /\ AfterUpdate(w)
  /\ UNCHANGED <<dbVars, procVars, scan, status, mine, job, report>>

\* MessagesService overwrites the error of the read with that of the commit,
\* and installs the rows it has: none.
ReadLost(w) ==
  /\ pc[w] = "read" /\ which[w] = "byId"
  /\ scan' = [scan EXCEPT ![w] = NoScan]
  /\ missed' = [missed EXCEPT ![w] = @ \cup {"byId"}]
  /\ pc' = [pc EXCEPT ![w] = "wait"]
  /\ UNCHANGED <<dbVars, procVars, which, status, mine, job, report>>

\* Lock, and the new map in place of the old; without the new map.
OldMap(i, m) == cache
NewMap(i, m) == [cache EXCEPT ![i][m] = {}]

LockDevices(w) ==
  /\ pc[w] = "wait"
  /\ holder[Home[w]][which[w]] = NoWorker
  /\ holder' = [holder EXCEPT ![Home[w]][which[w]] = w]
  /\ cache' = NewMap(Home[w], which[w])
  /\ pc' = [pc EXCEPT ![w] = "fill"]
  /\ UNCHANGED <<dbVars, proc, ver, peak, which, scan, status, mine, missed, job, report>>

AddDevice(w) ==
  /\ pc[w] = "fill"
  /\ \E r \in scan[w].left :
       /\ cache' = [cache EXCEPT ![Home[w]][which[w]] = Put(which[w], @, r)]
       /\ scan' = [scan EXCEPT ![w].left = @ \ {r}]
  /\ UNCHANGED <<dbVars, proc, holder, ver, peak, pc, which, status, mine, missed, job, report>>

NoUnlock(i, m) == holder
Released(i, m) == [holder EXCEPT ![i][m] = NoWorker]

UnlockDevices(w) ==
  /\ pc[w] = "fill" /\ scan[w].left = {}
  /\ holder' = Released(Home[w], which[w])
  /\ ver' = [ver EXCEPT ![Home[w]][which[w]] = scan[w].version]
  /\ peak' = [peak EXCEPT ![Home[w]][which[w]] =
                IF scan[w].version > @ THEN scan[w].version ELSE @]
  /\ scan' = [scan EXCEPT ![w] = NoScan]
  /\ AfterUpdate(w)
  /\ UNCHANGED <<dbVars, proc, cache, status, mine, missed, job, report>>

-----------------------------------------------------------------------------
(* Readers.                                                                *)

\* A reader without a mutex in the middle of a refill.
Gap(i, m)  == holder[i][m] # NoWorker

\* The state of the table a map shows or is being filled from.
Shows(i, m) == IF Gap(i, m) THEN scan[holder[i][m]].version ELSE ver[i][m]

\* The runtime ends a process that reads a map while it is written.
MapRace(w, m) ==
  /\ \E v \in Workers :
       Home[v] = Home[w] /\ which[v] = m /\ pc[v] = "fill" /\ scan[v].left # {}
  /\ Stops(Home[w], "fatal")

\* GetDeviceIDByIp: the address is looked up as it was spelled; 0 if absent.
\* The reports' default device would have the id -1.
DefaultDeviceOf(i, address) ==
  LET found == {r \in cache[i]["byIp"] : r.address = address}
  IN IF found = {} THEN {-1} ELSE {r.id : r \in found}
DeviceOf(i, address) ==
  LET found == {r \in cache[i]["byIp"] : r.address = address}
  IN IF found = {} THEN {0} ELSE {r.id : r \in found}

\* POST /messages/send_msg: the handler ignores that the address is unknown.
SendMessage(w, address) ==
  LET i == Home[w]
  IN /\ Idle(w)
     /\ Len(messages) + Cardinality({v \in Workers : pc[v] = "inserting"}) < MaxMessages
     /\ \E d \in DeviceOf(i, address) :
          job' = [job EXCEPT ![w] = [address |-> address, device |-> d,
                   version |-> Shows(i, "byIp"), gap |-> Gap(i, "byIp")]]
     /\ pc' = [pc EXCEPT ![w] = "inserting"]
     /\ UNCHANGED <<dbVars, procVars, which, scan, status, mine, missed, report>>

StoreMessage(w) ==
  /\ pc[w] = "inserting"
  /\ \/ messages' = Append(messages, job[w]) /\ UNCHANGED status
     \/ /\ UNCHANGED messages
        /\ status' = [status EXCEPT ![w] = "error"]
  /\ pc' = [pc EXCEPT ![w] = "reply"]
  /\ UNCHANGED <<log, procVars, which, scan, mine, missed, job, report>>

\* The three reports: the messages are read in a transaction that is closed
\* before their devices are looked up, one by one.  A report of fewer messages
\* looks up fewer of the devices, one of none reads no map.
BeginReport(w) ==
  /\ Idle(w)
  /\ messages # <<>>
  /\ report' = [report EXCEPT ![w] =
       [left |-> {messages[k].device : k \in DOMAIN messages}, rows |-> {}]]
  /\ pc' = [pc EXCEPT ![w] = "naming"]
  /\ UNCHANGED <<dbVars, procVars, which, scan, status, mine, missed, job>>

\* The row of a device that the map does not have is the default device.
NameOf(i, d) ==
  LET found == {r \in cache[i]["byId"] : r.id = d}
  IN IF found = {} THEN {Unknown} ELSE {r.name : r \in found}

NameRow(w) ==
  LET i == Home[w]
  IN /\ pc[w] = "naming"
     /\ \E d \in report[w].left : \E name \in NameOf(i, d) :
          report' = [report EXCEPT ![w] =
             [left |-> @.left \ {d},
              rows |-> @.rows \cup {[device |-> d, name |-> name,
                        version |-> Shows(i, "byId"), gap |-> Gap(i, "byId")]}]]
     /\ UNCHANGED <<dbVars, procVars, pc, which, scan, status, mine, missed, job>>

EndReport(w) ==
  /\ pc[w] = "naming" /\ report[w].left = {}
  /\ pc' = [pc EXCEPT ![w] = "reply"]
  /\ UNCHANGED <<dbVars, procVars, which, scan, status, mine, missed, job, report>>

Reply(w) ==
  /\ pc[w] = "reply"
  /\ Reset({w})
  /\ UNCHANGED <<dbVars, procVars>>

-----------------------------------------------------------------------------

Edit(w) ==
  \/ \E name \in Names, address \in Written :
       CreateDevice(w, name, address) \/ \E id \in Ids : UpdateDevice(w, id, name, address)
  \/ \E id \in Ids : DeleteDevice(w, id)
  \/ RejectRequest(w)

Refresh(w) ==
  ReadDevices(w) \/ GiveUp(w) \/ ReadLost(w) \/ AddDevice(w) \/ UnlockDevices(w)

Query(w) ==
  \/ \E address \in Written : SendMessage(w, address)
  \/ BeginReport(w)
  \/ Idle(w) /\ MapRace(w, "byIp")
  \/ pc[w] = "naming" /\ report[w].left # {} /\ MapRace(w, "byId")

Finish(w) == StoreMessage(w) \/ NameRow(w) \/ EndReport(w) \/ Reply(w)

Next ==
  \/ \E i \in Instances : Boot(i) \/ Kill(i)
  \/ \E w \in Workers : Edit(w) \/ LockDevices(w) \/ Refresh(w) \/ Query(w) \/ Finish(w)

Spec == Init /\ [][Next]_vars

\* Statements are answered or fail, and a sync.Mutex starves nobody.
Fairness ==
  \A w \in Workers : WF_vars(Refresh(w)) /\ WF_vars(Finish(w)) /\ SF_vars(LockDevices(w))

FairSpec == Spec /\ Fairness

-----------------------------------------------------------------------------
(* Properties.                                                             *)

\* Whatever refreshes overlap, fail or overtake each other, a map holds the
\* live devices of one committed state of the table, or none; during a refill
\* it holds those of the rows already added.
MapsAreCommitted ==
  \A i \in Instances, m \in Maps :
    LET w == holder[i][m]
    IN /\ w = NoWorker => cache[i][m] \in Filled(m, Live(ver[i][m]))
       /\ w # NoWorker => /\ cache[i][m] \in Filled(m, scan[w].rows \ scan[w].left)
                          /\ scan[w].rows = Live(scan[w].version)

Attributed(m) ==
  LET owners == {r.id : r \in {s \in Live(m.version) : s.address = m.address}}
  IN IF m.device = 0 THEN m.gap \/ owners = {} ELSE m.device \in owners

Named(x) ==
  LET names == {r.name : r \in {s \in Live(x.version) : s.id = x.device}}
  IN x.name \in names \/ (x.name = Unknown /\ (x.gap \/ names = {}))

\* A message is attributed to a device that had its address in one committed
\* state, and to nobody only if no device had it there, or in a refill.
AttributionSound == \A k \in DOMAIN messages : Attributed(messages[k])

\* A report names a device as some committed state does.  It says "unknown
\* device", which may be the name of one, only then or of a device which that
\* state does not have, or in a refill.
ReportRowsTrue == \A w \in Workers : \A x \in report[w].rows : Named(x)

\* An edit answered "ok" has been in each map of the process that answered,
\* unless that map's refresh had no rows.  (It may be gone again: a refresh
\* that read before the edit may install after it.)
AckedDeviceShown ==
  \A w \in Workers :
    pc[w] = "reply" /\ mine[w] > 0 =>
      \A m \in Maps \ missed[w] : peak[Home[w]][m] >= mine[w]

\* No foreign key ties messages to devices; still the device of a stored
\* message is a row of the table for ever.
MessagesKeepTheirDevice ==
  \A k \in DOMAIN messages :
    messages[k].device # 0 => \E r \in devices : r.id = messages[k].device

\* The maps that the handler of an edit has still to refresh.
Due(w) ==
  IF mine[w] = 0 \/ pc[w] = "reply" THEN {}
  ELSE IF which[w] = "byId" THEN Maps ELSE {"byIp"}

\* However refreshes overlap, fail and overtake each other, a map changes only
\* at the start or end of its process or by the handler of an edit, which
\* passes each map once and installs nothing older than its own edit:
\* DeviceCaches implements DeviceView.
View == INSTANCE DeviceView WITH
          version <- Len(log), view <- ver, owed <- mine,
          due     <- [w \in Workers |-> Due(w)]

ImplementsDeviceView == View!Spec

\* Every request is answered, or its process has stopped.
DeviceRequestsAnswered == \A w \in Workers : pc[w] # "idle" ~> pc[w] = "idle"
=============================================================================
