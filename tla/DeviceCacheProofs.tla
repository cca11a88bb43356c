------------------------- MODULE DeviceCacheProofs -------------------------
(***************************************************************************)
(* Safety of DeviceCaches for every set of processes, workers, names and   *)
(* addresses and for every bound, and that it implements DeviceView.       *)
(*                                                                         *)
(* The inductive invariant is built in layers, each proved with the help   *)
(* of the ones below: types and the size of the table (Typed), who holds   *)
(* the mutex of a map (Locked), what the maps hold (Committed), what is    *)
(* said of messages and reports (Truth), that rows stay in the table       *)
(* (Grows), and what a handler still owes its client (Owed).               *)
(***************************************************************************)
EXTENDS DeviceCaches, FiniteSetTheorems, TLAPS

\* Ids are given by counting the rows, and each row took a commit.
Typed == TypeOK /\ IsFiniteSet(devices) /\ Cardinality(devices) < Len(log)

-----------------------------------------------------------------------------
(* Facts about the operators.                                              *)

LEMMA Bounds ==
  /\ MaxCommits \in Nat \ {0} /\ MaxMessages \in Nat
  /\ \A v \in Ids : v \in Nat \ {0}
  /\ \A v \in Versions : v \in Nat
  /\ 0 \in Versions /\ Ids \subseteq Versions
<1>1. MaxCommits \in Nat \ {0} /\ MaxMessages \in Nat
  BY DevicesAssumption
<1>2. QED
  BY <1>1 DEF Ids, Versions

LEMMA Empties ==
  /\ NoScan \in [rows: SUBSET Row, left: SUBSET Row, version: Versions]
  /\ NoJob \in Messages
  /\ NoReport \in [left: SUBSET (Ids \cup {0}), rows: SUBSET Lines]
BY Bounds DEF NoScan, NoJob, NoReport, Messages

\* The states of the table, and the rows a read returns.
LEMMA States ==
  ASSUME TypeOK
  PROVE  /\ log \in Seq(SUBSET Row) /\ Len(log) \in Ids /\ Len(log) \in Versions
         /\ devices \subseteq Row
         /\ \A v \in 1 .. Len(log) : v \in Ids /\ log[v] \subseteq Row
         /\ \A v \in 0 .. Len(log) : v \in Versions /\ Live(v) \subseteq Row
BY Bounds DEF TypeOK, Ids, Versions, devices, Live

\* An edited table is the image of the old one.
LEMMA ImageOfTable ==
  ASSUME IsFiniteSet(devices), NEW f \in [devices -> Row]
  PROVE  LET new == {f[r] : r \in devices}
         IN IsFiniteSet(new) /\ Cardinality(new) <= Cardinality(devices)
<1> DEFINE new == {f[r] : r \in devices}
<1>1. f \in Surjection(devices, new)
  BY DEF Surjection
<1>2. QED
  BY <1>1, FS_Surjection

LEMMA AddOne ==
  ASSUME NEW S, IsFiniteSet(S), NEW x
  PROVE  IsFiniteSet(S \cup {x}) /\ Cardinality(S \cup {x}) <= Cardinality(S) + 1
<1>1. Cardinality(S) \in Nat
  BY FS_CardinalityType
<1>2. IsFiniteSet(S \cup {x})
      /\ Cardinality(S \cup {x}) = IF x \in S THEN Cardinality(S) ELSE Cardinality(S) + 1
  BY FS_AddElement
<1>3. QED
  BY <1>1, <1>2

-----------------------------------------------------------------------------
(* Types.                                                                  *)

LEMMA InitTyped ==
  ASSUME Init
  PROVE  Typed
<1>1. TypeOK
  <2>1. log \in Seq(SUBSET Row) /\ Len(log) = 1 /\ Len(log) \in 1 .. MaxCommits
    BY Bounds DEF Init
  <2>2. /\ cache \in [Instances -> [Maps -> SUBSET Row]]
        /\ holder \in [Instances -> [Maps -> Workers \cup {NoWorker}]]
        /\ ver \in [Instances -> [Maps -> Versions]]
        /\ peak \in [Instances -> [Maps -> Versions]]
    BY Bounds DEF Init
  <2>3. QED
    BY <2>1, <2>2, Empties, Bounds DEF Init, TypeOK, Maps
<1>2. devices = {} /\ Len(log) = 1
  BY DEF Init, devices
<1>3. QED
  BY <1>1, <1>2, FS_EmptySet DEF Typed

LEMMA StopsTyped ==
  ASSUME Typed, NEW i \in Instances, NEW why \in {"off", "fatal"}, Stops(i, why)
  PROVE  Typed'
<1>1. TypeOK'
  <2>1. /\ log' \in Seq(SUBSET Row) /\ Len(log)' \in 1 .. MaxCommits
        /\ messages' \in Seq(Messages) /\ proc' \in [Instances -> {"off", "up", "fatal"}]
    BY DEF Typed, TypeOK, Stops, dbVars
  <2>2. /\ cache' \in [Instances -> [Maps -> SUBSET Row]]
        /\ holder' \in [Instances -> [Maps -> Workers \cup {NoWorker}]]
        /\ ver' \in [Instances -> [Maps -> Versions]]
        /\ peak' \in [Instances -> [Maps -> Versions]]
    BY Bounds DEF Typed, TypeOK, Stops
  <2>3. /\ pc' \in [Workers -> {"idle", "read", "wait", "fill", "inserting", "naming", "reply"}]
        /\ which' \in [Workers -> Maps]
        /\ status' \in [Workers -> {"ok", "error"}]
        /\ mine' \in [Workers -> Versions] /\ missed' \in [Workers -> SUBSET Maps]
    BY Bounds DEF Typed, TypeOK, Stops, Reset, Maps
  <2>4. /\ scan' \in [Workers -> [rows: SUBSET Row, left: SUBSET Row, version: Versions]]
        /\ job' \in [Workers -> Messages]
        /\ report' \in [Workers -> [left: SUBSET (Ids \cup {0}), rows: SUBSET Lines]]
    BY Empties DEF Typed, TypeOK, Stops, Reset
  <2>5. QED
    BY <2>1, <2>2, <2>3, <2>4 DEF TypeOK
<1>2. QED
  BY <1>1 DEF Typed, Stops, dbVars, devices

LEMMA BootTyped ==
  ASSUME Typed, NEW i \in Instances, Boot(i)
  PROVE  Typed'
<1>1. TypeOK /\ Len(log) \in Versions /\ Live(Len(log)) \subseteq Row
  BY States, Bounds DEF Typed
<1>2. /\ cache' \in [Instances -> [Maps -> SUBSET Row]]
      /\ ver' \in [Instances -> [Maps -> Versions]]
      /\ peak' \in [Instances -> [Maps -> Versions]]
  <2>1. ASSUME NEW map \in Filled("byIp", Live(Len(log))),
               cache' = [cache EXCEPT ![i]["byIp"] = map],
               ver' = [ver EXCEPT ![i]["byIp"] = Len(log)],
               peak' = [peak EXCEPT ![i]["byIp"] = Len(log)]
        PROVE  <1>2
    <3>1. map \subseteq Row /\ "byIp" \in Maps
      BY <1>1 DEF Filled, Maps
    <3>2. QED
      BY <1>1, <2>1, <3>1 DEF TypeOK
  <2>2. QED
    BY <1>1, <2>1 DEF Boot, TypeOK
<1>3. QED
  BY <1>1, <1>2 DEF Boot, Typed, TypeOK, dbVars, reqVars, devices

\* The transaction of an edit.
LEMMA CommitsTyped ==
  ASSUME Typed, NEW w \in Workers, NEW newTable \in SUBSET Row, IsFiniteSet(newTable),
         Cardinality(newTable) <= Len(log), Commits(w, newTable)
  PROVE  Typed'
<1>1. TypeOK
  BY DEF Typed
<1>2. /\ log' \in Seq(SUBSET Row) /\ Len(log') = Len(log) + 1 /\ Len(log') \in 1 .. MaxCommits
      /\ log'[Len(log')] = newTable /\ Len(log) + 1 \in Versions
  BY <1>1, Bounds DEF Commits, TypeOK, Versions
<1>3. mine' \in [Workers -> Versions] /\ status' \in [Workers -> {"ok", "error"}]
  <2>1. mine' = mine \/ mine' = [mine EXCEPT ![w] = Len(log) + 1]
    BY DEF Commits
  <2>2. status' = status \/ status' = [status EXCEPT ![w] = "error"]
    BY DEF Commits
  <2>3. mine' \in [Workers -> Versions]
    BY <1>1, <1>2, <2>1 DEF TypeOK
  <2>4. status' \in [Workers -> {"ok", "error"}]
    BY <1>1, <2>2 DEF TypeOK
  <2>5. QED
    BY <2>3, <2>4
<1>4. pc' \in [Workers -> {"idle", "read", "wait", "fill", "inserting", "naming", "reply"}]
  BY <1>1 DEF Commits, TypeOK
<1>5. TypeOK'
  BY <1>1, <1>2, <1>3, <1>4 DEF Commits, TypeOK, procVars
<1>6. Cardinality(newTable) < Len(log')
  BY <1>1, <1>2, FS_CardinalityType DEF TypeOK
<1>7. QED
  BY <1>2, <1>5, <1>6 DEF Typed, devices

\* The three edits, with what they make of the table.
LEMMA EditTable ==
  ASSUME Typed, NEW w \in Workers, Edit(w)
  PROVE  \/ RejectRequest(w)
         \/ \E newTable \in SUBSET Row :
              /\ IsFiniteSet(newTable) /\ Cardinality(newTable) <= Len(log)
              /\ \A r \in devices : \E s \in newTable : s.id = r.id
              /\ Idle(w) /\ Commits(w, newTable)
<1>1. /\ TypeOK /\ devices \subseteq Row /\ Len(log) \in Nat /\ Len(log) \in Ids
      /\ IsFiniteSet(devices) /\ Cardinality(devices) \in Nat /\ Cardinality(devices) < Len(log)
  BY States, Bounds, FS_CardinalityType DEF Typed
<1> DEFINE Makes(newTable) ==
             /\ newTable \in SUBSET Row
             /\ IsFiniteSet(newTable) /\ Cardinality(newTable) <= Len(log)
             /\ \A r \in devices : \E s \in newTable : s.id = r.id
<1>2. ASSUME NEW name \in Names, NEW address \in Written, CreateDevice(w, name, address)
      PROVE  \E newTable : Makes(newTable) /\ Idle(w) /\ Commits(w, newTable)
  <2> DEFINE row == [id |-> Cardinality(devices) + 1, name |-> name,
                     address |-> Inet[address], live |-> TRUE]
             new == devices \cup {row}
  <2>1. Cardinality(devices) + 1 \in Ids
    BY <1>1, Bounds DEF Ids
  <2>2. row \in Row
    BY <2>1, DevicesAssumption DEF Row
  <2>3. IsFiniteSet(new) /\ Cardinality(new) <= Cardinality(devices) + 1
    BY <1>1, AddOne
  <2>4. Makes(new)
    <3> HIDE DEF row
    <3>1. new \in SUBSET Row
      BY <1>1, <2>2
    <3>2. Cardinality(new) <= Len(log)
      BY <1>1, <2>3, FS_CardinalityType
    <3>3. QED
      BY <2>3, <3>1, <3>2
  <2>5. QED
    BY <1>2, <2>4 DEF CreateDevice
<1>3. ASSUME NEW f \in [devices -> Row], \A r \in devices : f[r].id = r.id,
             Idle(w), Commits(w, {f[r] : r \in devices})
      PROVE  \E newTable : Makes(newTable) /\ Idle(w) /\ Commits(w, newTable)
  <2> DEFINE new == {f[r] : r \in devices}
  <2>1. IsFiniteSet(new) /\ Cardinality(new) <= Cardinality(devices)
    BY <1>1, ImageOfTable
  <2>2. Cardinality(new) <= Len(log)
    BY <1>1, <2>1, FS_CardinalityType
  <2>3. Makes(new)
    BY <2>1, <2>2, <1>3
  <2>4. QED
    BY <1>3, <2>3
<1>4. ASSUME NEW id \in Ids, NEW name \in Names, NEW address \in Written,
             UpdateDevice(w, id, name, address)
      PROVE  \E newTable : Makes(newTable) /\ Idle(w) /\ Commits(w, newTable)
  <2> DEFINE f == [r \in devices |-> IF r.id = id /\ r.live
                     THEN [r EXCEPT !.name = name, !.address = Inet[address]] ELSE r]
  <2>1. \A r \in Row : LET new == [r EXCEPT !.name = name, !.address = Inet[address]]
                       IN new \in Row /\ new.id = r.id
    BY DevicesAssumption DEF Row
  <2>2. \A r \in devices : f[r] \in Row /\ f[r].id = r.id
    BY <1>1, <2>1
  <2>3. Idle(w) /\ Commits(w, {f[r] : r \in devices})
    BY <1>4 DEF UpdateDevice
  <2> HIDE DEF f, Makes
  <2>4. f \in [devices -> Row]
    BY <2>2 DEF f
  <2>5. QED
    BY <2>2, <2>3, <2>4, <1>3
<1>5. ASSUME NEW id \in Ids, DeleteDevice(w, id)
      PROVE  \E newTable : Makes(newTable) /\ Idle(w) /\ Commits(w, newTable)
  <2> DEFINE f == [r \in devices |-> IF r.id = id THEN [r EXCEPT !.live = FALSE] ELSE r]
  <2>1. \A r \in Row : LET new == [r EXCEPT !.live = FALSE] IN new \in Row /\ new.id = r.id
    BY DEF Row
  <2>2. \A r \in devices : f[r] \in Row /\ f[r].id = r.id
    BY <1>1, <2>1
  <2>3. Idle(w) /\ Commits(w, {f[r] : r \in devices})
    BY <1>5 DEF DeleteDevice, Deleted
  <2> HIDE DEF f, Makes
  <2>4. f \in [devices -> Row]
    BY <2>2 DEF f
  <2>5. QED
    BY <2>2, <2>3, <2>4, <1>3
<1>6. QED
  <2> HIDE DEF Makes
  <2>1. RejectRequest(w) \/ \E newTable : Makes(newTable) /\ Idle(w) /\ Commits(w, newTable)
    BY <1>2, <1>4, <1>5 DEF Edit
  <2>2. QED
    BY <2>1 DEF Makes

LEMMA RefreshTyped ==
  ASSUME Typed, NEW w \in Workers, LockDevices(w) \/ Refresh(w)
  PROVE  Typed'
<1>1. /\ TypeOK /\ Len(log) \in Versions /\ Live(Len(log)) \subseteq Row
      /\ Home[w] \in Instances /\ which[w] \in Maps
  <2>1. Len(log) \in 0 .. Len(log)
    BY DEF Typed, TypeOK
  <2>2. QED
    BY <2>1, States, DevicesAssumption DEF Typed, TypeOK
<1>2. UNCHANGED <<log, messages, proc, status, mine, job, report>>
  BY DEF Refresh, LockDevices, ReadDevices, GiveUp, ReadLost, AddDevice, UnlockDevices,
         dbVars, procVars
<1>3. pc' \in [Workers -> {"idle", "read", "wait", "fill", "inserting", "naming", "reply"}]
      /\ which' \in [Workers -> Maps]
  <2>1. AfterUpdate(w) => \/ pc' = [pc EXCEPT ![w] = "read"] /\ which' = [which EXCEPT ![w] = "byIp"]
                          \/ pc' = [pc EXCEPT ![w] = "reply"] /\ which' = which
    BY DEF AfterUpdate
  <2>2. \/ AfterUpdate(w)
        \/ pc' = [pc EXCEPT ![w] = "wait"] /\ which' = which
        \/ pc' = [pc EXCEPT ![w] = "fill"] /\ which' = which
        \/ pc' = pc /\ which' = which
    BY DEF Refresh, LockDevices, ReadDevices, GiveUp, ReadLost, AddDevice, UnlockDevices
  <2>3. QED
    BY <1>1, <2>1, <2>2 DEF TypeOK, Maps
<1>4. missed' \in [Workers -> SUBSET Maps]
  <2>1. missed' = missed \/ \E m \in Maps : missed' = [missed EXCEPT ![w] = @ \cup {m}]
    BY <1>1 DEF Refresh, LockDevices, ReadDevices, GiveUp, ReadLost, AddDevice, UnlockDevices, Maps
  <2>2. missed \in [Workers -> SUBSET Maps]
    BY <1>1 DEF TypeOK
  <2>3. QED
    BY <2>1, <2>2
<1>5. scan' \in [Workers -> [rows: SUBSET Row, left: SUBSET Row, version: Versions]]
  <2>1. \/ scan' = scan
        \/ scan' = [scan EXCEPT ![w] = NoScan]
        \/ scan' = [scan EXCEPT ![w] = [rows |-> Live(Len(log)), left |-> Live(Len(log)),
                                        version |-> Len(log)]]
        \/ \E r \in scan[w].left : scan' = [scan EXCEPT ![w].left = @ \ {r}]
    BY DEF Refresh, LockDevices, ReadDevices, GiveUp, ReadLost, AddDevice, UnlockDevices,
           procVars
  <2>2. scan \in [Workers -> [rows: SUBSET Row, left: SUBSET Row, version: Versions]]
    BY <1>1 DEF TypeOK
  <2>3. QED
    BY <1>1, <2>1, <2>2, Empties
<1>6. holder' \in [Instances -> [Maps -> Workers \cup {NoWorker}]]
  <2>1. \E h \in Workers \cup {NoWorker} :
          holder' = holder \/ holder' = [holder EXCEPT ![Home[w]][which[w]] = h]
    BY DEF Refresh, LockDevices, ReadDevices, GiveUp, ReadLost, AddDevice, UnlockDevices,
           procVars, Released
  <2>2. holder \in [Instances -> [Maps -> Workers \cup {NoWorker}]]
    BY <1>1 DEF TypeOK
  <2>3. QED
    BY <1>1, <2>1, <2>2
<1>7. cache' \in [Instances -> [Maps -> SUBSET Row]]
  <2>1. \E map \in SUBSET Row :
          cache' = cache \/ cache' = [cache EXCEPT ![Home[w]][which[w]] = map]
    <3>1. CASE AddDevice(w)
      <4>1. PICK r \in scan[w].left :
              cache' = [cache EXCEPT ![Home[w]][which[w]] = Put(which[w], @, r)]
        BY <3>1 DEF AddDevice
      <4>2. Put(which[w], cache[Home[w]][which[w]], r) \in SUBSET Row
        BY <1>1 DEF TypeOK, Put
      <4>3. QED
        BY <4>1, <4>2
    <3>2. CASE ~ AddDevice(w)
      BY <3>2 DEF Refresh, LockDevices, ReadDevices, GiveUp, ReadLost, UnlockDevices,
                  procVars, NewMap
    <3>3. QED
      BY <3>1, <3>2
  <2>2. cache \in [Instances -> [Maps -> SUBSET Row]]
    BY <1>1 DEF TypeOK
  <2>3. QED
    BY <1>1, <2>1, <2>2
<1>8. ver' \in [Instances -> [Maps -> Versions]] /\ peak' \in [Instances -> [Maps -> Versions]]
  <2>1. CASE UnlockDevices(w)
    <3>1. scan[w].version \in Versions
      BY <1>1 DEF TypeOK
    <3>2. ver' = [ver EXCEPT ![Home[w]][which[w]] = scan[w].version]
      BY <2>1 DEF UnlockDevices
    <3>3. peak' = [peak EXCEPT ![Home[w]][which[w]] =
                     IF scan[w].version > @ THEN scan[w].version ELSE @]
      BY <2>1 DEF UnlockDevices
    <3>4. ver \in [Instances -> [Maps -> Versions]] /\ peak \in [Instances -> [Maps -> Versions]]
      BY <1>1 DEF TypeOK
    <3>5. QED
      BY <1>1, <3>1, <3>2, <3>3, <3>4
  <2>2. CASE ~ UnlockDevices(w)
    BY <1>1, <2>2 DEF Refresh, LockDevices, ReadDevices, GiveUp, ReadLost, AddDevice,
                      procVars, TypeOK
  <2>3. QED
    BY <2>1, <2>2
<1>9. TypeOK'
  BY <1>1, <1>2, <1>3, <1>4, <1>5, <1>6, <1>7, <1>8 DEF TypeOK
<1>10. QED
  BY <1>2, <1>9 DEF Typed, devices

\* What the lookups give.
LEMMA LookupTypes ==
  ASSUME TypeOK, NEW i \in Instances, NEW m \in Maps
  PROVE  /\ \A address : DeviceOf(i, address) \subseteq Ids \cup {0}
         /\ \A d : NameOf(i, d) \subseteq Names \cup {Unknown}
         /\ Gap(i, m) \in BOOLEAN /\ Shows(i, m) \in Versions
<1>1. /\ cache[i]["byIp"] \subseteq Row /\ cache[i]["byId"] \subseteq Row
      /\ holder[i][m] \in Workers \cup {NoWorker} /\ ver[i][m] \in Versions
      /\ \A w \in Workers : scan[w].version \in Versions
  BY DEF TypeOK, Maps
<1>2. \A address : DeviceOf(i, address) \subseteq Ids \cup {0}
  BY <1>1 DEF DeviceOf, Row
<1>3. \A d : NameOf(i, d) \subseteq Names \cup {Unknown}
  BY <1>1 DEF NameOf, Row
<1>4. QED
  BY <1>1, <1>2, <1>3 DEF Gap, Shows

LEMMA SendTyped ==
  ASSUME Typed, NEW w \in Workers, NEW address \in Written, SendMessage(w, address)
  PROVE  Typed'
<1>1. TypeOK /\ Home[w] \in Instances /\ "byIp" \in Maps
  BY DevicesAssumption DEF Typed, Maps
<1>2. PICK d \in DeviceOf(Home[w], address) :
        job' = [job EXCEPT ![w] = [address |-> address, device |-> d,
                 version |-> Shows(Home[w], "byIp"), gap |-> Gap(Home[w], "byIp")]]
  BY DEF SendMessage
<1>3. [address |-> address, device |-> d, version |-> Shows(Home[w], "byIp"),
       gap |-> Gap(Home[w], "byIp")] \in Messages
  BY <1>1, LookupTypes DEF Messages
<1>4. job' \in [Workers -> Messages]
  BY <1>1, <1>2, <1>3 DEF TypeOK
<1>5. pc' \in [Workers -> {"idle", "read", "wait", "fill", "inserting", "naming", "reply"}]
  BY <1>1 DEF SendMessage, TypeOK
<1>6. TypeOK'
  BY <1>1, <1>4, <1>5 DEF SendMessage, TypeOK, dbVars, procVars
<1>7. QED
  BY <1>6 DEF SendMessage, Typed, dbVars, devices

LEMMA NameTyped ==
  ASSUME Typed, NEW w \in Workers, NameRow(w)
  PROVE  Typed'
<1>1. TypeOK /\ Home[w] \in Instances /\ "byId" \in Maps
  BY DevicesAssumption DEF Typed, Maps
<1>0. PICK d \in report[w].left : \E name \in NameOf(Home[w], d) :
        report' = [report EXCEPT ![w] =
          [left |-> @.left \ {d},
           rows |-> @.rows \cup {[device |-> d, name |-> name,
                     version |-> Shows(Home[w], "byId"), gap |-> Gap(Home[w], "byId")]}]]
  BY DEF NameRow
<1>2. PICK name \in NameOf(Home[w], d) :
        report' = [report EXCEPT ![w] =
          [left |-> @.left \ {d},
           rows |-> @.rows \cup {[device |-> d, name |-> name,
                     version |-> Shows(Home[w], "byId"), gap |-> Gap(Home[w], "byId")]}]]
  BY <1>0
<1>3. /\ report[w].left \subseteq Ids \cup {0} /\ report[w].rows \subseteq Lines
      /\ d \in Ids \cup {0}
  BY <1>1, <1>2 DEF TypeOK
<1>4. [device |-> d, name |-> name, version |-> Shows(Home[w], "byId"),
       gap |-> Gap(Home[w], "byId")] \in Lines
  BY <1>1, <1>2, <1>3, LookupTypes DEF Lines
<1>5. report' \in [Workers -> [left: SUBSET (Ids \cup {0}), rows: SUBSET Lines]]
  BY <1>1, <1>2, <1>3, <1>4 DEF TypeOK
<1>6. TypeOK'
  BY <1>1, <1>5 DEF NameRow, TypeOK, dbVars, procVars
<1>7. QED
  BY <1>6 DEF NameRow, Typed, dbVars, devices

LEMMA ReportTyped ==
  ASSUME Typed, NEW w \in Workers, BeginReport(w)
  PROVE  Typed'
<1>1. TypeOK
  BY DEF Typed
<1>2. [left |-> {messages[k].device : k \in DOMAIN messages}, rows |-> {}]
        \in [left: SUBSET (Ids \cup {0}), rows: SUBSET Lines]
  <2>1. messages \in Seq(Messages)
    BY <1>1 DEF TypeOK
  <2>2. \A k \in DOMAIN messages : messages[k] \in Messages
    BY <2>1
  <2>3. QED
    BY <2>2 DEF Messages
<1>3. report' \in [Workers -> [left: SUBSET (Ids \cup {0}), rows: SUBSET Lines]]
  BY <1>1, <1>2 DEF BeginReport, TypeOK
<1>4. pc' \in [Workers -> {"idle", "read", "wait", "fill", "inserting", "naming", "reply"}]
  BY <1>1 DEF BeginReport, TypeOK
<1>5. TypeOK'
  BY <1>1, <1>3, <1>4 DEF BeginReport, TypeOK, dbVars, procVars
<1>6. QED
  BY <1>5 DEF BeginReport, Typed, dbVars, devices

LEMMA ReplyTyped ==
  ASSUME Typed, NEW w \in Workers, Reply(w)
  PROVE  Typed'
<1>1. TypeOK
  BY DEF Typed
<1>2. /\ pc' \in [Workers -> {"idle", "read", "wait", "fill", "inserting", "naming", "reply"}]
      /\ which' \in [Workers -> Maps]
      /\ status' \in [Workers -> {"ok", "error"}]
      /\ mine' \in [Workers -> Versions] /\ missed' \in [Workers -> SUBSET Maps]
  BY <1>1, Bounds DEF TypeOK, Reply, Reset, Maps
<1>3. /\ scan' \in [Workers -> [rows: SUBSET Row, left: SUBSET Row, version: Versions]]
      /\ job' \in [Workers -> Messages]
      /\ report' \in [Workers -> [left: SUBSET (Ids \cup {0}), rows: SUBSET Lines]]
  BY <1>1, Empties DEF TypeOK, Reply, Reset
<1>4. TypeOK'
  BY <1>1, <1>2, <1>3 DEF TypeOK, Reply, dbVars, procVars
<1>5. QED
  BY <1>4 DEF Reply, Typed, dbVars, devices

LEMMA NextTyped ==
  ASSUME Typed, [Next]_vars
  PROVE  Typed'
<1>1. TypeOK /\ \A w \in Workers : Home[w] \in Instances
  BY DevicesAssumption DEF Typed
<1>2. ASSUME NEW w \in Workers, Edit(w) PROVE Typed'
  <2>1. CASE RejectRequest(w)
    BY <1>1, <2>1 DEF RejectRequest, Typed, TypeOK, dbVars, procVars, devices
  <2>2. QED
    BY <1>2, <2>1, EditTable, CommitsTyped
<1>3. ASSUME NEW w \in Workers, Query(w) PROVE Typed'
  <2>1. ASSUME NEW m, MapRace(w, m) PROVE Typed'
    BY <1>1, <2>1, StopsTyped DEF MapRace
  <2>2. QED
    BY <1>3, <2>1, SendTyped, ReportTyped DEF Query
<1>4. ASSUME NEW w \in Workers, Finish(w) PROVE Typed'
  <2>1. CASE StoreMessage(w)
    <3>1. messages' \in Seq(Messages)
      <4>1. messages \in Seq(Messages) /\ job[w] \in Messages
        BY <1>1 DEF TypeOK
      <4>2. QED
        BY <2>1, <4>1 DEF StoreMessage
    <3>2. status' \in [Workers -> {"ok", "error"}]
      BY <1>1, <2>1 DEF StoreMessage, TypeOK
    <3>3. QED
      BY <1>1, <2>1, <3>1, <3>2 DEF StoreMessage, Typed, TypeOK, procVars, devices
  <2>2. CASE EndReport(w)
    BY <1>1, <2>2 DEF EndReport, Typed, TypeOK, dbVars, procVars, devices
  <2>3. QED
    BY <1>4, <2>1, <2>2, NameTyped, ReplyTyped DEF Finish
<1>5. ASSUME NEW i \in Instances, Kill(i) PROVE Typed'
  BY <1>5, StopsTyped DEF Kill
<1>6. CASE UNCHANGED vars
  BY <1>1, <1>6 DEF vars, Typed, TypeOK, dbVars, procVars, reqVars, devices
<1>7. QED
  BY <1>2, <1>3, <1>4, <1>5, <1>6, BootTyped, RefreshTyped DEF Next

LEMMA TypedAlways == Spec => []Typed
<1>1. Init => Typed
  BY InitTyped
<1>2. Typed /\ [Next]_vars => Typed'
  BY NextTyped
<1>3. QED
  BY <1>1, <1>2, PTL DEF Spec

\* Type correctness; above all, the ids that CREATE gives by counting stay in
\* range, and a lookup in either map gives an id or a name.
THEOREM TypeCorrect == Spec => []TypeOK
<1>1. Typed => TypeOK
  BY DEF Typed
<1>2. QED
  BY <1>1, TypedAlways, PTL

-----------------------------------------------------------------------------
(* The mutexes.                                                            *)

\* A request of a process that is down is gone.
Gone(w) == proc[Home[w]] # "up" => pc[w] = "idle"

Owns(w) == pc[w] = "fill" => holder[Home[w]][which[w]] = w

Owned(i, m) ==
  holder[i][m] # NoWorker =>
    LET w == holder[i][m] IN Home[w] = i /\ which[w] = m /\ pc[w] = "fill"

Locked == /\ \A w \in Workers : Gone(w) /\ Owns(w)
          /\ \A i \in Instances, m \in Maps : Owned(i, m)

\* The steps of a request outside of the refreshes.
Outside(w) ==
  \/ Edit(w) \/ BeginReport(w) \/ \E address \in Written : SendMessage(w, address)
  \/ Finish(w)

\* The states of the table that there were stay.
LEMMA LogGrows ==
  ASSUME TypeOK, NEW newTable, log' = Append(log, newTable)
  PROVE  /\ Len(log') = Len(log) + 1 /\ log'[Len(log) + 1] = newTable
         /\ \A v \in 1 .. Len(log) : log'[v] = log[v]
         /\ \A v \in 0 .. Len(log) : Live(v)' = Live(v)
<1>1. log \in Seq(SUBSET Row)
  BY DEF TypeOK
<1>2. /\ Len(log') = Len(log) + 1 /\ log'[Len(log) + 1] = newTable
      /\ \A v \in 1 .. Len(log) : log'[v] = log[v]
  BY <1>1
<1>3. ASSUME NEW v \in 0 .. Len(log) PROVE Live(v)' = Live(v)
  <2>1. CASE v = 0
    BY <2>1 DEF Live
  <2>2. CASE v # 0
    <3>1. v \in 1 .. Len(log)
      BY <1>1, <2>2
    <3>2. QED
      BY <1>2, <2>2, <3>1 DEF Live
  <2>3. QED
    BY <2>1, <2>2
<1>4. QED
  BY <1>2, <1>3

LEMMA OutsideStep ==
  ASSUME Typed, NEW w \in Workers, Outside(w)
  PROVE  /\ UNCHANGED procVars
         /\ pc[w] \notin {"read", "wait", "fill"} /\ pc'[w] \notin {"wait", "fill"}
         /\ pc[w] = "idle" => proc[Home[w]] = "up"
         /\ \A v \in Workers \ {w} :
              /\ pc'[v] = pc[v] /\ which'[v] = which[v] /\ scan'[v] = scan[v]
              /\ mine'[v] = mine[v] /\ missed'[v] = missed[v]
         /\ Len(log) \in Nat /\ Len(log') \in Nat /\ Len(log) <= Len(log')
         /\ \A v \in 0 .. Len(log) : Live(v)' = Live(v)
<1>1. /\ TypeOK /\ pc \in [Workers -> {"idle", "read", "wait", "fill", "inserting", "naming", "reply"}]
      /\ which \in [Workers -> Maps] /\ mine \in [Workers -> Versions]
      /\ missed \in [Workers -> SUBSET Maps] /\ Len(log) \in Nat
  BY DEF Typed, TypeOK
<1>2. CASE Edit(w)
  <2>1. CASE RejectRequest(w)
    BY <1>1, <2>1 DEF RejectRequest, Idle, dbVars, Live
  <2>2. ASSUME NEW newTable, Idle(w), Commits(w, newTable)
        PROVE  /\ UNCHANGED <<procVars, which, scan, missed>>
               /\ pc' = [pc EXCEPT ![w] = "read"] \/ pc' = [pc EXCEPT ![w] = "reply"]
               /\ mine' = mine \/ mine' = [mine EXCEPT ![w] = Len(log) + 1]
               /\ log' = Append(log, newTable) /\ pc[w] = "idle" /\ proc[Home[w]] = "up"
    BY <2>2 DEF Commits, Idle
  <2>3. CASE \E newTable : Idle(w) /\ Commits(w, newTable)
    <3>1. PICK newTable : Idle(w) /\ Commits(w, newTable)
      BY <2>3
    <3>2. Len(log') = Len(log) + 1 /\ \A v \in 0 .. Len(log) : Live(v)' = Live(v)
      BY <1>1, <2>2, <3>1, LogGrows
    <3>3. pc[w] = "idle" /\ pc'[w] \in {"read", "reply"} /\ \A v \in Workers \ {w} : pc'[v] = pc[v]
      BY <1>1, <2>2, <3>1
    <3>4. \A v \in Workers \ {w} : mine'[v] = mine[v]
      BY <1>1, <2>2, <3>1
    <3>5. QED
      BY <1>1, <2>2, <3>1, <3>2, <3>3, <3>4
  <2>4. QED
    BY <1>2, <2>1, <2>3, EditTable
<1>3. CASE BeginReport(w) \/ \E address \in Written : SendMessage(w, address)
  <2>1. UNCHANGED <<log, procVars, which, scan, mine, missed>>
    BY <1>3 DEF BeginReport, SendMessage, dbVars
  <2>2. /\ pc[w] = "idle" /\ proc[Home[w]] = "up" /\ pc'[w] \in {"naming", "inserting"}
        /\ \A v \in Workers \ {w} : pc'[v] = pc[v]
    BY <1>1, <1>3 DEF BeginReport, SendMessage, Idle
  <2>3. QED
    BY <1>1, <2>1, <2>2 DEF Live
<1>4. CASE Finish(w)
  <2>1. UNCHANGED <<log, procVars>>
    BY <1>4 DEF Finish, StoreMessage, NameRow, EndReport, Reply, dbVars
  <2>2. /\ pc[w] \in {"inserting", "naming", "reply"} /\ pc'[w] \in {"naming", "reply", "idle"}
        /\ \A v \in Workers \ {w} :
              /\ pc'[v] = pc[v] /\ which'[v] = which[v] /\ scan'[v] = scan[v]
              /\ mine'[v] = mine[v] /\ missed'[v] = missed[v]
    BY <1>1, <1>4 DEF Finish, StoreMessage, NameRow, EndReport, Reply, Reset
  <2>3. QED
    BY <1>1, <2>1, <2>2 DEF Live
<1>5. QED
  BY <1>2, <1>3, <1>4 DEF Outside

\* A request takes no mutex outside of the refreshes.
LEMMA OutsideLocked ==
  ASSUME Typed, Locked, NEW w \in Workers, Outside(w)
  PROVE  Locked'
<1>1. UNCHANGED <<proc, holder>>
  BY OutsideStep DEF procVars
<1>2. Gone(w)' /\ Owns(w)'
  BY <1>1, OutsideStep DEF Locked, Gone, Owns
<1>3. \A v \in Workers \ {w} : Gone(v)' /\ Owns(v)'
  BY <1>1, OutsideStep DEF Locked, Gone, Owns
<1>4. ASSUME NEW i \in Instances, NEW m \in Maps PROVE Owned(i, m)'
  <2>1. Owned(i, m) /\ holder[i][m] \in Workers \cup {NoWorker}
    BY DEF Locked, Typed, TypeOK
  <2>2. QED
    BY <1>1, <2>1, OutsideStep DEF Owned
<1>5. QED
  BY <1>2, <1>3, <1>4 DEF Locked

LEMMA StopsLocked ==
  ASSUME Typed, Locked, NEW i \in Instances, NEW why \in {"off", "fatal"}, Stops(i, why)
  PROVE  Locked'
<1>1. /\ \A w \in Workers : Home[w] = i => pc'[w] = "idle"
      /\ \A w \in Workers : Home[w] # i => pc'[w] = pc[w] /\ which'[w] = which[w]
      /\ \A j \in Instances \ {i} : proc'[j] = proc[j] /\ holder'[j] = holder[j]
      /\ \A m \in Maps : holder'[i][m] = NoWorker
  BY DEF Stops, Reset, Typed, TypeOK
<1>2. \A w \in Workers : Home[w] \in Instances
  BY DevicesAssumption
<1>3. \A w \in Workers : Gone(w)' /\ Owns(w)'
  BY <1>1, <1>2 DEF Locked, Gone, Owns
<1>4. ASSUME NEW j \in Instances, NEW m \in Maps PROVE Owned(j, m)'
  <2>1. Owned(j, m) /\ holder[j][m] \in Workers \cup {NoWorker}
    BY DEF Locked, Typed, TypeOK
  <2>2. QED
    BY <1>1, <2>1 DEF Owned
<1>5. QED
  BY <1>3, <1>4 DEF Locked

\* The steps of a refresh that leave the maps of the process alone.
Unlocked(w) == ReadDevices(w) \/ GiveUp(w) \/ ReadLost(w)

LEMMA UnlockedStep ==
  ASSUME Typed, NEW w \in Workers, Unlocked(w)
  PROVE  /\ UNCHANGED <<dbVars, procVars, mine>>
         /\ pc[w] = "read" /\ pc'[w] \in {"read", "wait", "reply"}
         /\ \A v \in Workers \ {w} :
              /\ pc'[v] = pc[v] /\ which'[v] = which[v] /\ scan'[v] = scan[v]
              /\ missed'[v] = missed[v]
<1>1. /\ pc \in [Workers -> {"idle", "read", "wait", "fill", "inserting", "naming", "reply"}]
      /\ which \in [Workers -> Maps] /\ missed \in [Workers -> SUBSET Maps]
      /\ scan \in [Workers -> [rows: SUBSET Row, left: SUBSET Row, version: Versions]]
  BY DEF Typed, TypeOK
<1>2. QED
  BY <1>1 DEF Unlocked, ReadDevices, GiveUp, ReadLost, AfterUpdate

LEMMA RefreshLocked ==
  ASSUME Typed, Locked, NEW w \in Workers, LockDevices(w) \/ Refresh(w)
  PROVE  Locked'
<1>1. /\ pc \in [Workers -> {"idle", "read", "wait", "fill", "inserting", "naming", "reply"}]
      /\ holder \in [Instances -> [Maps -> Workers \cup {NoWorker}]]
      /\ which \in [Workers -> Maps] /\ \A v \in Workers : Home[v] \in Instances
      /\ NoWorker \notin Workers
  BY DevicesAssumption DEF Typed, TypeOK
<1>2. /\ \A v \in Workers : Gone(v) /\ Owns(v)
      /\ \A i \in Instances, m \in Maps : Owned(i, m)
  BY DEF Locked
<1>3. CASE Unlocked(w)
  <2>1. UNCHANGED <<proc, holder>>
    BY <1>3, UnlockedStep DEF procVars
  <2>2. \A v \in Workers : Gone(v)' /\ Owns(v)'
    BY <1>2, <1>3, <2>1, UnlockedStep DEF Gone, Owns
  <2>3. \A i \in Instances, m \in Maps : Owned(i, m)'
    BY <1>1, <1>2, <1>3, <2>1, UnlockedStep DEF Owned
  <2>4. QED
    BY <2>2, <2>3 DEF Locked
<1>4. CASE LockDevices(w)
  <2>1. /\ proc' = proc /\ which' = which /\ pc[w] = "wait"
        /\ holder[Home[w]][which[w]] = NoWorker
        /\ holder' = [holder EXCEPT ![Home[w]][which[w]] = w]
        /\ pc' = [pc EXCEPT ![w] = "fill"]
    BY <1>4 DEF LockDevices
  <2>2. ASSUME NEW v \in Workers PROVE Gone(v)' /\ Owns(v)'
    <3>1. CASE v = w
      BY <1>1, <1>2, <2>1, <3>1 DEF Gone, Owns
    <3>2. CASE v # w
      <4>1. pc'[v] = pc[v]
        BY <1>1, <2>1, <3>2
      <4>2. pc[v] = "fill" => Home[v] # Home[w] \/ which[v] # which[w]
        BY <1>1, <1>2, <2>1 DEF Owns
      <4>3. QED
        BY <1>1, <1>2, <2>1, <4>1, <4>2 DEF Gone, Owns
    <3>3. QED
      BY <3>1, <3>2
  <2>3. \A i \in Instances, m \in Maps : Owned(i, m)'
    BY <1>1, <1>2, <2>1 DEF Owned
  <2>4. QED
    BY <2>2, <2>3 DEF Locked
<1>5. CASE AddDevice(w)
  BY <1>2, <1>5 DEF AddDevice, Locked, Gone, Owns, Owned
<1>6. CASE UnlockDevices(w)
  <2>1. /\ proc' = proc /\ pc[w] = "fill"
        /\ holder' = [holder EXCEPT ![Home[w]][which[w]] = NoWorker]
        /\ pc'[w] \in {"read", "reply"}
        /\ \A v \in Workers \ {w} : pc'[v] = pc[v] /\ which'[v] = which[v]
    BY <1>1, <1>6 DEF UnlockDevices, Released, AfterUpdate
  <2>2. \A v \in Workers \ {w} : pc[v] = "fill" => Home[v] # Home[w] \/ which[v] # which[w]
    BY <1>2, <2>1 DEF Owns
  <2>3. \A v \in Workers : Gone(v)' /\ Owns(v)'
    BY <1>1, <1>2, <2>1, <2>2 DEF Gone, Owns
  <2>4. ASSUME NEW i \in Instances, NEW m \in Maps PROVE Owned(i, m)'
    <3>1. CASE i = Home[w] /\ m = which[w]
      BY <1>1, <2>1, <3>1 DEF Owned
    <3>2. CASE ~ (i = Home[w] /\ m = which[w])
      BY <1>1, <1>2, <2>1, <3>2 DEF Owned
    <3>3. QED
      BY <3>1, <3>2
  <2>5. QED
    BY <2>3, <2>4 DEF Locked
<1>7. QED
  BY <1>3, <1>4, <1>5, <1>6 DEF Refresh, Unlocked

\* What Next can do, for the lemmas below.
LEMMA Steps ==
  ASSUME [Next]_vars
  PROVE  \/ UNCHANGED vars
         \/ \E i \in Instances : Boot(i) \/ \E why \in {"off", "fatal"} : Stops(i, why)
         \/ \E w \in Workers : Outside(w) \/ LockDevices(w) \/ Refresh(w)
<1>1. ASSUME NEW w \in Workers, NEW m, MapRace(w, m)
      PROVE  \E i \in Instances : \E why \in {"off", "fatal"} : Stops(i, why)
  BY <1>1, DevicesAssumption DEF MapRace
<1>2. QED
  BY <1>1 DEF Next, Kill, Query, Outside

LEMMA NextLocked ==
  ASSUME Typed, Locked, [Next]_vars
  PROVE  Locked'
<1>1. CASE UNCHANGED vars
  BY <1>1 DEF vars, procVars, reqVars, Locked, Gone, Owns, Owned
<1>2. ASSUME NEW i \in Instances, Boot(i) PROVE Locked'
  <2>1. UNCHANGED <<holder, pc, which>> /\ \A j \in Instances : proc[j] = "up" => proc'[j] = "up"
    BY <1>2 DEF Boot, reqVars, Typed, TypeOK
  <2>2. \A w \in Workers : Home[w] \in Instances
    BY DevicesAssumption
  <2>3. \A w \in Workers : Gone(w)' /\ Owns(w)'
    BY <2>1, <2>2 DEF Locked, Gone, Owns
  <2>4. QED
    BY <2>1, <2>3 DEF Locked, Owned
<1>3. QED
  BY <1>1, <1>2, Steps, StopsLocked, OutsideLocked, RefreshLocked

LEMMA LockedAlways == Spec => [](Typed /\ Locked)
<1>1. Init => Locked
  <2>1. ASSUME Init, NEW i \in Instances, NEW m \in Maps PROVE Owned(i, m)
    BY <2>1 DEF Init, Owned
  <2>2. ASSUME Init, NEW w \in Workers PROVE Gone(w) /\ Owns(w)
    BY <2>2 DEF Init, Gone, Owns
  <2>3. QED
    BY <2>1, <2>2 DEF Locked
<1>2. Typed /\ Locked /\ [Next]_vars => Locked'
  BY NextLocked
<1>3. QED
  BY <1>1, <1>2, TypedAlways, PTL DEF Spec

-----------------------------------------------------------------------------
(* What the maps hold.                                                     *)

\* The rows that a refresh has read and not yet added.
Scanned(w) ==
  pc[w] \in {"wait", "fill"} =>
    /\ scan[w].version \in 0 .. Len(log)
    /\ scan[w].rows = Live(scan[w].version) /\ scan[w].left \subseteq scan[w].rows
    /\ pc[w] = "wait" => scan[w].left = scan[w].rows

Dated(i, m) == ver[i][m] \in 0 .. Len(log) /\ (proc[i] # "up" => ver[i][m] = 0)

Holds(i, m) ==
  IF holder[i][m] = NoWorker
  THEN cache[i][m] \in Filled(m, Live(ver[i][m]))
  ELSE cache[i][m] \in Filled(m, scan[holder[i][m]].rows \ scan[holder[i][m]].left)

Committed == /\ \A w \in Workers : Scanned(w)
             /\ \A i \in Instances, m \in Maps : Dated(i, m) /\ Holds(i, m)

\* A map that is filled row by row.
LEMMA FilledEmpty == \A m : {} \in Filled(m, {})
BY DEF Filled

LEMMA FilledPut ==
  ASSUME NEW m, NEW rows, NEW r, NEW map \in Filled(m, rows)
  PROVE  Put(m, map, r) \in Filled(m, rows \cup {r})
<1> DEFINE new == Put(m, map, r)
<1>0. \A s : s \in new <=> s = r \/ (s \in map /\ ~ SameKey(m, s, r))
  BY DEF Put, SameKey
<1> HIDE DEF new
<1>1. new \subseteq rows \cup {r}
  BY <1>0 DEF Filled
<1>2. ASSUME NEW q \in rows \cup {r} PROVE \E s \in new : SameKey(m, q, s)
  <2>1. CASE SameKey(m, q, r)
    BY <1>0, <2>1
  <2>2. CASE ~ SameKey(m, q, r)
    <3>1. q \in rows
      BY <2>2 DEF SameKey
    <3>2. PICK s \in map : SameKey(m, q, s)
      BY <3>1 DEF Filled
    <3>3. ~ SameKey(m, s, r)
      BY <2>2, <3>2 DEF SameKey
    <3>4. QED
      BY <1>0, <3>2, <3>3
  <2>3. QED
    BY <2>1, <2>2
<1>3. ASSUME NEW q \in new, NEW s \in new, SameKey(m, q, s) PROVE q = s
  <2>1. /\ q = r \/ (q \in map /\ ~ SameKey(m, q, r))
        /\ s = r \/ (s \in map /\ ~ SameKey(m, s, r))
    BY <1>0
  <2>2. CASE q = r \/ s = r
    BY <1>3, <2>1, <2>2 DEF SameKey
  <2>3. CASE q # r /\ s # r
    BY <1>3, <2>1, <2>3 DEF Filled
  <2>4. QED
    BY <2>2, <2>3
<1>4. QED
  BY <1>1, <1>2, <1>3 DEF Filled, new

\* Steps that leave the processes, and the scans at hand, alone.
LEMMA CommittedStays ==
  ASSUME Typed, Locked, Committed, UNCHANGED procVars,
         Len(log) \in Nat, Len(log') \in Nat, Len(log) <= Len(log'),
         \A v \in 0 .. Len(log) : Live(v)' = Live(v),
         \A w \in Workers : Scanned(w)',
         \A w \in Workers : pc[w] = "fill" => scan'[w] = scan[w]
  PROVE  Committed'
<1>1. ASSUME NEW i \in Instances, NEW m \in Maps PROVE Dated(i, m)' /\ Holds(i, m)'
  <2>1. Dated(i, m) /\ Holds(i, m) /\ Owned(i, m) /\ holder[i][m] \in Workers \cup {NoWorker}
    BY DEF Committed, Locked, Typed, TypeOK
  <2>2. Dated(i, m)' /\ Live(ver[i][m])' = Live(ver[i][m])
    BY <2>1 DEF Dated, procVars
  <2>3. holder[i][m] # NoWorker => scan'[holder[i][m]] = scan[holder[i][m]]
    BY <2>1 DEF Owned
  <2>4. Holds(i, m)'
    BY <2>1, <2>2, <2>3 DEF Holds, procVars
  <2>5. QED
    BY <2>2, <2>4
<1>2. QED
  BY <1>1 DEF Committed

LEMMA OutsideCommitted ==
  ASSUME Typed, Locked, Committed, NEW w \in Workers, Outside(w)
  PROVE  Committed'
<1>1. ASSUME NEW v \in Workers PROVE Scanned(v)'
  <2>1. Scanned(v)
    BY DEF Committed
  <2>2. CASE v = w
    BY <2>2, OutsideStep DEF Scanned
  <2>3. CASE v # w
    <3>1. pc'[v] = pc[v] /\ scan'[v] = scan[v]
      BY <2>3, OutsideStep
    <3>2. Len(log) \in Nat /\ Len(log') \in Nat /\ Len(log) <= Len(log')
          /\ \A n \in 0 .. Len(log) : Live(n)' = Live(n)
      BY OutsideStep
    <3>3. scan[v].version \in 0 .. Len(log) => Live(scan[v].version)' = Live(scan[v].version)
      BY <3>1, <3>2 DEF Live
    <3>4. QED
      BY <2>1, <3>1, <3>2, <3>3 DEF Scanned
  <2>4. QED
    BY <2>2, <2>3
<1>2. \A v \in Workers : pc[v] = "fill" => scan'[v] = scan[v]
  BY OutsideStep
<1>3. QED
  BY <1>1, <1>2, OutsideStep, CommittedStays

LEMMA StopsCommitted ==
  ASSUME Typed, Locked, Committed, NEW i \in Instances, NEW why \in {"off", "fatal"}, Stops(i, why)
  PROVE  Committed'
<1>1. log' = log /\ \A v : Live(v)' = Live(v)
  BY DEF Stops, dbVars, Live
<1>2. /\ \A w \in Workers : Home[w] = i => pc'[w] = "idle"
      /\ \A w \in Workers : Home[w] # i => pc'[w] = pc[w] /\ scan'[w] = scan[w]
  BY DEF Stops, Reset
<1>3. \A w \in Workers : Scanned(w)'
  BY <1>1, <1>2 DEF Committed, Scanned
<1>4. ASSUME NEW j \in Instances, NEW m \in Maps PROVE Dated(j, m)' /\ Holds(j, m)'
  <2>1. Dated(j, m) /\ Holds(j, m) /\ Owned(j, m) /\ holder[j][m] \in Workers \cup {NoWorker}
        /\ Len(log) \in Nat
    BY DEF Committed, Locked, Typed, TypeOK
  <2>2. CASE j = i
    <3>1. holder'[i][m] = NoWorker /\ cache'[i][m] = {} /\ ver'[i][m] = 0
      BY DEF Stops, Typed, TypeOK
    <3>2. Live(0)' = {}
      BY DEF Live
    <3>3. {} \in Filled(m, {})
      BY FilledEmpty
    <3>4. Dated(j, m)'
      BY <1>1, <2>1, <2>2, <3>1 DEF Dated
    <3>5. Holds(j, m)'
      BY <2>2, <3>1, <3>2, <3>3 DEF Holds
    <3>6. QED
      BY <3>4, <3>5
  <2>3. CASE j # i
    <3>1. proc'[j] = proc[j] /\ holder'[j] = holder[j] /\ cache'[j] = cache[j] /\ ver'[j] = ver[j]
      BY <2>3 DEF Stops, Typed, TypeOK
    <3>2. holder[j][m] # NoWorker => scan'[holder[j][m]] = scan[holder[j][m]]
      BY <1>2, <2>1, <2>3 DEF Owned
    <3>3. QED
      BY <1>1, <2>1, <3>1, <3>2 DEF Dated, Holds
  <2>4. QED
    BY <2>2, <2>3
<1>5. QED
  BY <1>3, <1>4 DEF Committed

LEMMA BootCommitted ==
  ASSUME Typed, Locked, Committed, NEW i \in Instances, Boot(i)
  PROVE  Committed'
<1>1. /\ UNCHANGED <<log, holder, pc, scan>> /\ \A v : Live(v)' = Live(v)
      /\ \A j \in Instances : proc'[j] # "up" => proc[j] # "up" /\ j # i
  BY DEF Boot, dbVars, reqVars, Live, Typed, TypeOK
<1>2. \A w \in Workers : Scanned(w)'
  BY <1>1 DEF Committed, Scanned
<1>3. \A m \in Maps : holder[i][m] = NoWorker
  <2> SUFFICES ASSUME NEW m \in Maps, holder[i][m] # NoWorker PROVE FALSE
    OBVIOUS
  <2>1. Owned(i, m) /\ holder[i][m] \in Workers
    BY DEF Locked, Typed, TypeOK
  <2>2. Gone(holder[i][m]) /\ proc[i] # "up"
    BY <2>1 DEF Locked, Boot
  <2>3. QED
    BY <2>1, <2>2 DEF Owned, Gone
<1>4. ASSUME NEW j \in Instances, NEW m \in Maps PROVE Dated(j, m)' /\ Holds(j, m)'
  <2>1. Dated(j, m) /\ Holds(j, m) /\ Len(log) \in Nat
        /\ cache \in [Instances -> [Maps -> SUBSET Row]]
        /\ ver \in [Instances -> [Maps -> Versions]]
    BY DEF Committed, Typed, TypeOK
  <2>2. CASE cache'[j][m] = cache[j][m] /\ ver'[j][m] = ver[j][m]
    BY <1>1, <2>1, <2>2 DEF Dated, Holds
  <2>3. CASE ~ (cache'[j][m] = cache[j][m] /\ ver'[j][m] = ver[j][m])
    <3>1. PICK map \in Filled("byIp", Live(Len(log))) :
            /\ cache' = [cache EXCEPT ![i]["byIp"] = map]
            /\ ver' = [ver EXCEPT ![i]["byIp"] = Len(log)]
      BY <2>3 DEF Boot
    <3>2. j = i /\ m = "byIp" /\ cache'[j][m] = map /\ ver'[j][m] = Len(log)
      BY <2>1, <2>3, <3>1
    <3>3. QED
      BY <1>1, <1>3, <2>1, <3>1, <3>2 DEF Dated, Holds
  <2>4. QED
    BY <2>2, <2>3
<1>5. QED
  BY <1>2, <1>4 DEF Committed

\* The steps that read the table: begun, given up, or without rows.
LEMMA UnlockedCommitted ==
  ASSUME Typed, Locked, Committed, NEW w \in Workers, Unlocked(w)
  PROVE  Committed'
<1>1. Len(log) \in Nat /\ UNCHANGED <<log, procVars>> /\ \A v : Live(v)' = Live(v)
  <2>1. UNCHANGED <<log, procVars>>
    BY UnlockedStep DEF dbVars
  <2>2. QED
    BY <2>1 DEF Live, Typed, TypeOK
<1>2. ASSUME NEW v \in Workers PROVE Scanned(v)'
  <2>1. CASE v # w
    <3>1. Scanned(v) /\ pc'[v] = pc[v] /\ scan'[v] = scan[v]
      BY <2>1, UnlockedStep DEF Committed
    <3>2. QED
      BY <1>1, <3>1 DEF Scanned
  <2>2. CASE v = w /\ ~ GiveUp(w)
    <3>1. pc'[w] = "wait" /\ \/ scan'[w] = NoScan
                             \/ scan'[w] = [rows |-> Live(Len(log)), left |-> Live(Len(log)),
                                            version |-> Len(log)]
      BY <2>2 DEF Unlocked, ReadDevices, ReadLost, Typed, TypeOK
    <3>2. Live(0)' = {} /\ Live(Len(log))' = Live(Len(log)) /\ log' = log
      BY <1>1 DEF Live
    <3>3. CASE scan'[w] = NoScan
      BY <1>1, <2>2, <3>1, <3>2, <3>3 DEF Scanned, NoScan
    <3>4. CASE scan'[w] # NoScan
      BY <1>1, <2>2, <3>1, <3>2, <3>4 DEF Scanned
    <3>5. QED
      BY <3>3, <3>4
  <2>3. CASE v = w /\ GiveUp(w)
    <3>1. pc'[w] \in {"read", "reply"}
      BY <2>3 DEF GiveUp, AfterUpdate, Typed, TypeOK
    <3>2. QED
      BY <2>3, <3>1 DEF Scanned
  <2>4. QED
    BY <2>1, <2>2, <2>3
<1>3. \A v \in Workers : pc[v] = "fill" => scan'[v] = scan[v]
  BY UnlockedStep
<1>4. QED
  BY <1>1, <1>2, <1>3, CommittedStays

\* The steps of the holder of a mutex touch one map.
LEMMA HolderCommitted ==
  ASSUME Typed, Locked, Committed, NEW w \in Workers, NEW m \in Maps,
         UNCHANGED <<log, proc>>, Scanned(w)', Dated(Home[w], m)', Holds(Home[w], m)',
         \A v \in Workers \ {w} : pc'[v] = pc[v] /\ scan'[v] = scan[v],
         \A i \in Instances, n \in Maps : ~ (i = Home[w] /\ n = m) =>
           /\ cache'[i][n] = cache[i][n] /\ ver'[i][n] = ver[i][n]
           /\ holder'[i][n] = holder[i][n] /\ holder[i][n] # w
  PROVE  Committed'
<1>1. \A v : Live(v)' = Live(v)
  BY DEF Live
<1>2. \A v \in Workers : Scanned(v)'
  BY <1>1 DEF Committed, Scanned
<1>3. ASSUME NEW i \in Instances, NEW n \in Maps, ~ (i = Home[w] /\ n = m)
      PROVE  Dated(i, n)' /\ Holds(i, n)'
  <2>1. Dated(i, n) /\ Holds(i, n) /\ holder[i][n] \in Workers \cup {NoWorker}
    BY DEF Committed, Typed, TypeOK
  <2>2. holder[i][n] # NoWorker => scan'[holder[i][n]] = scan[holder[i][n]]
    BY <1>3, <2>1
  <2>3. QED
    BY <1>1, <1>3, <2>1, <2>2 DEF Dated, Holds
<1>4. QED
  BY <1>2, <1>3 DEF Committed

LEMMA RefreshCommitted ==
  ASSUME Typed, Locked, Committed, NEW w \in Workers, LockDevices(w) \/ Refresh(w)
  PROVE  Committed'
<1> DEFINE h == Home[w]
<1>0. PICK m \in Maps : m = which[w]
  BY DEF Typed, TypeOK
<1>1. /\ h \in Instances /\ w # NoWorker
      /\ pc \in [Workers -> {"idle", "read", "wait", "fill", "inserting", "naming", "reply"}]
      /\ holder \in [Instances -> [Maps -> Workers \cup {NoWorker}]]
      /\ cache \in [Instances -> [Maps -> SUBSET Row]]
      /\ ver \in [Instances -> [Maps -> Versions]]
      /\ scan \in [Workers -> [rows: SUBSET Row, left: SUBSET Row, version: Versions]]
      /\ which \in [Workers -> Maps]
  BY DevicesAssumption DEF Typed, TypeOK
<1>2. /\ Scanned(w) /\ Dated(h, m) /\ Holds(h, m) /\ Owns(w)
      /\ \A i \in Instances, n \in Maps : Owned(i, n)
  BY <1>0, <1>1 DEF Committed, Locked
<1>3. \A i \in Instances, n \in Maps : ~ (i = h /\ n = m) => holder[i][n] # w
  BY <1>0, <1>1, <1>2 DEF Owned
<1>4. CASE LockDevices(w)
  <2>1. /\ UNCHANGED <<log, proc, ver, scan>> /\ pc[w] = "wait"
        /\ holder' = [holder EXCEPT ![h][m] = w] /\ cache' = [cache EXCEPT ![h][m] = {}]
        /\ pc' = [pc EXCEPT ![w] = "fill"]
    BY <1>0, <1>4 DEF LockDevices, NewMap, dbVars
  <2>2. \A v : Live(v)' = Live(v)
    BY <2>1 DEF Live
  <2>3. Scanned(w)'
    BY <1>1, <1>2, <2>1, <2>2 DEF Scanned
  <2>4. Dated(h, m)'
    BY <1>2, <2>1 DEF Dated
  <2>5. Holds(h, m)'
    <3>1. scan[w].rows \ scan[w].left = {}
      BY <1>2, <2>1 DEF Scanned
    <3>2. holder'[h][m] = w /\ cache'[h][m] = {} /\ scan'[w] = scan[w]
      BY <1>1, <2>1
    <3>3. QED
      BY <1>1, <3>1, <3>2, FilledEmpty DEF Holds
  <2>6. \A i \in Instances, n \in Maps : ~ (i = h /\ n = m) =>
           /\ cache'[i][n] = cache[i][n] /\ ver'[i][n] = ver[i][n]
           /\ holder'[i][n] = holder[i][n] /\ holder[i][n] # w
    BY <1>1, <1>3, <2>1
  <2>7. \A v \in Workers \ {w} : pc'[v] = pc[v] /\ scan'[v] = scan[v]
    BY <1>1, <2>1
  <2>8. QED
    BY <2>1, <2>3, <2>4, <2>5, <2>6, <2>7, HolderCommitted
<1>5. CASE AddDevice(w)
  <2>1. PICK r \in scan[w].left :
          /\ cache' = [cache EXCEPT ![h][m] = Put(m, @, r)]
          /\ scan' = [scan EXCEPT ![w].left = @ \ {r}]
    BY <1>0, <1>5 DEF AddDevice
  <2>2. UNCHANGED <<log, proc, ver, pc, holder>> /\ pc[w] = "fill" /\ holder[h][m] = w
    BY <1>0, <1>2, <1>5 DEF AddDevice, dbVars, Owns
  <2>3. /\ \A v : Live(v)' = Live(v)
        /\ scan'[w].rows = scan[w].rows /\ scan'[w].version = scan[w].version
        /\ scan'[w].left = scan[w].left \ {r} /\ scan[w].left \subseteq scan[w].rows
    BY <1>1, <1>2, <2>1, <2>2 DEF Live, Scanned
  <2>4. Scanned(w)'
    BY <1>2, <2>2, <2>3 DEF Scanned
  <2>5. Dated(h, m)'
    BY <1>2, <2>2 DEF Dated
  <2>6. Holds(h, m)'
    <3>1. cache[h][m] \in Filled(m, scan[w].rows \ scan[w].left)
      BY <1>1, <1>2, <2>2 DEF Holds
    <3>2. cache'[h][m] = Put(m, cache[h][m], r)
      BY <1>1, <2>1
    <3>3. scan'[w].rows \ scan'[w].left = (scan[w].rows \ scan[w].left) \cup {r}
      BY <2>1, <2>3
    <3>4. cache'[h][m] \in Filled(m, scan'[w].rows \ scan'[w].left)
      BY <3>1, <3>2, <3>3, FilledPut
    <3>5. QED
      BY <1>1, <2>2, <3>4 DEF Holds
  <2>7. \A i \in Instances, n \in Maps : ~ (i = h /\ n = m) =>
           /\ cache'[i][n] = cache[i][n] /\ ver'[i][n] = ver[i][n]
           /\ holder'[i][n] = holder[i][n] /\ holder[i][n] # w
    BY <1>1, <1>3, <2>1, <2>2
  <2>8. \A v \in Workers \ {w} : pc'[v] = pc[v] /\ scan'[v] = scan[v]
    BY <1>1, <2>1, <2>2
  <2>9. QED
    BY <2>2, <2>4, <2>5, <2>6, <2>7, <2>8, HolderCommitted
<1>6. CASE UnlockDevices(w)
  <2>1. /\ UNCHANGED <<log, proc, cache>> /\ pc[w] = "fill" /\ scan[w].left = {}
        /\ holder' = [holder EXCEPT ![h][m] = NoWorker]
        /\ ver' = [ver EXCEPT ![h][m] = scan[w].version]
        /\ scan' = [scan EXCEPT ![w] = NoScan]
        /\ pc'[w] \in {"read", "reply"} /\ \A v \in Workers \ {w} : pc'[v] = pc[v]
    BY <1>0, <1>1, <1>6 DEF UnlockDevices, Released, AfterUpdate, dbVars
  <2>2. \A v : Live(v)' = Live(v)
    BY <2>1 DEF Live
  <2>3. /\ holder[h][m] = w /\ scan[w].rows = Live(scan[w].version)
        /\ scan[w].version \in 0 .. Len(log)
    BY <1>0, <1>2, <2>1 DEF Owns, Scanned
  <2>4. Scanned(w)'
    BY <2>1 DEF Scanned
  <2>5. proc[h] = "up"
    BY <2>1 DEF Locked, Gone
  <2>6. ver'[h][m] = scan[w].version /\ holder'[h][m] = NoWorker
    BY <1>1, <2>1
  <2>7. Dated(h, m)'
    BY <2>1, <2>3, <2>5, <2>6 DEF Dated
  <2>8. Holds(h, m)'
    <3>1. cache[h][m] \in Filled(m, scan[w].rows \ {})
      BY <1>1, <1>2, <2>1, <2>3 DEF Holds
    <3>2. scan[w].rows \ {} = Live(scan[w].version)
      BY <2>3
    <3>3. QED
      BY <2>1, <2>2, <2>6, <3>1, <3>2 DEF Holds
  <2>9. \A i \in Instances, n \in Maps : ~ (i = h /\ n = m) =>
           /\ cache'[i][n] = cache[i][n] /\ ver'[i][n] = ver[i][n]
           /\ holder'[i][n] = holder[i][n] /\ holder[i][n] # w
    BY <1>1, <1>3, <2>1
  <2>10. \A v \in Workers \ {w} : pc'[v] = pc[v] /\ scan'[v] = scan[v]
    BY <1>1, <2>1
  <2>11. QED
    BY <2>1, <2>4, <2>7, <2>8, <2>9, <2>10, HolderCommitted
<1>7. QED
  BY <1>4, <1>5, <1>6, UnlockedCommitted DEF Refresh, Unlocked

LEMMA NextCommitted ==
  ASSUME Typed, Locked, Committed, [Next]_vars
  PROVE  Committed'
<1>1. CASE UNCHANGED vars
  BY <1>1 DEF vars, dbVars, procVars, reqVars, Committed, Scanned, Dated, Holds, Live
<1>2. QED
  BY <1>1, Steps, BootCommitted, StopsCommitted, OutsideCommitted, RefreshCommitted

LEMMA CommittedAlways == Spec => [](Typed /\ Locked /\ Committed)
<1>1. ASSUME Init PROVE Committed
  <2>1. Len(log) \in Nat /\ Live(0) = {}
    BY <1>1 DEF Init, Live
  <2>2. \A w \in Workers : Scanned(w)
    BY <1>1 DEF Init, Scanned
  <2>3. ASSUME NEW i \in Instances, NEW m \in Maps PROVE Dated(i, m) /\ Holds(i, m)
    <3>1. cache[i][m] = {} /\ ver[i][m] = 0 /\ holder[i][m] = NoWorker
      BY <1>1 DEF Init
    <3>2. {} \in Filled(m, {})
      BY FilledEmpty
    <3>3. QED
      BY <2>1, <3>1, <3>2 DEF Dated, Holds
  <2>4. QED
    BY <2>2, <2>3 DEF Committed
<1>2. Typed /\ Locked /\ Committed /\ [Next]_vars => Committed'
  BY NextCommitted
<1>3. QED
  BY <1>1, <1>2, LockedAlways, PTL DEF Spec

\* However refreshes overlap, fail, or overtake each other between their read
\* and their mutex: a map holds one committed state, none, or the rows of one
\* that were already added.
THEOREM MapsHoldCommitted == Spec => []MapsAreCommitted
<1>1. ASSUME Typed, Locked, Committed PROVE MapsAreCommitted
  <2> SUFFICES ASSUME NEW i \in Instances, NEW m \in Maps
               PROVE  LET w == holder[i][m]
                      IN /\ w = NoWorker => cache[i][m] \in Filled(m, Live(ver[i][m]))
                         /\ w # NoWorker =>
                              /\ cache[i][m] \in Filled(m, scan[w].rows \ scan[w].left)
                              /\ scan[w].rows = Live(scan[w].version)
    BY DEF MapsAreCommitted
  <2>1. Holds(i, m) /\ Owned(i, m) /\ holder[i][m] \in Workers \cup {NoWorker}
    BY <1>1 DEF Committed, Locked, Typed, TypeOK
  <2>2. holder[i][m] # NoWorker => Scanned(holder[i][m]) /\ pc[holder[i][m]] = "fill"
    BY <1>1, <2>1 DEF Committed, Owned
  <2>3. QED
    BY <2>1, <2>2 DEF Holds, Scanned
<1>2. QED
  BY <1>1, CommittedAlways, PTL

-----------------------------------------------------------------------------
(* What the lookups say.                                                   *)

\* A message that is stored, or about to be, and a row of a report.
Dates(x) == x.version \in 0 .. Len(log)

Truth ==
  /\ \A k \in DOMAIN messages : Dates(messages[k]) /\ Attributed(messages[k])
  /\ \A w \in Workers : pc[w] = "inserting" => Dates(job[w]) /\ Attributed(job[w])
  /\ \A w \in Workers : \A x \in report[w].rows : Dates(x) /\ Named(x)

\* A map has only rows of the state it shows, and outside of a refill a row
\* for every key of that state.
LEMMA MapShows ==
  ASSUME Typed, Locked, Committed, NEW i \in Instances, NEW m \in Maps
  PROVE  /\ Shows(i, m) \in 0 .. Len(log) /\ Shows(i, m) \in Versions
         /\ cache[i][m] \subseteq Live(Shows(i, m)) /\ Live(Shows(i, m)) \subseteq Row
         /\ ~ Gap(i, m) => \A r \in Live(Shows(i, m)) : \E s \in cache[i][m] : SameKey(m, r, s)
<1>1. /\ Dated(i, m) /\ Holds(i, m) /\ Owned(i, m)
      /\ holder[i][m] \in Workers \cup {NoWorker}
  BY DEF Committed, Locked, Typed, TypeOK
<1>2. holder[i][m] # NoWorker => Scanned(holder[i][m]) /\ pc[holder[i][m]] = "fill"
  BY <1>1 DEF Committed, Owned
<1>3. Shows(i, m) \in 0 .. Len(log)
  BY <1>1, <1>2 DEF Shows, Gap, Dated, Scanned
<1>4. cache[i][m] \subseteq Live(Shows(i, m))
  BY <1>1, <1>2 DEF Shows, Gap, Holds, Scanned, Filled
<1>5. ~ Gap(i, m) => \A r \in Live(Shows(i, m)) : \E s \in cache[i][m] : SameKey(m, r, s)
  BY <1>1 DEF Shows, Gap, Holds, Filled
<1>6. Shows(i, m) \in Versions /\ Live(Shows(i, m)) \subseteq Row
  BY <1>3, States DEF Typed
<1>7. QED
  BY <1>3, <1>4, <1>5, <1>6

LEMMA LookupTrue ==
  ASSUME Typed, Locked, Committed, NEW i \in Instances, NEW address, NEW d \in DeviceOf(i, address)
  PROVE  Attributed([address |-> address, device |-> d,
                     version |-> Shows(i, "byIp"), gap |-> Gap(i, "byIp")])
<1> DEFINE v == Shows(i, "byIp")
           owners == {r.id : r \in {s \in Live(v) : s.address = address}}
           found == {r \in cache[i]["byIp"] : r.address = address}
<1>0. "byIp" \in Maps
  BY DEF Maps
<1>1. /\ cache[i]["byIp"] \subseteq Live(v) /\ Live(v) \subseteq Row
      /\ ~ Gap(i, "byIp") =>
           \A r \in Live(v) : \E s \in cache[i]["byIp"] : r.address = s.address
  BY <1>0, MapShows DEF SameKey
<1>2. CASE found = {}
  <2>1. d = 0
    BY <1>2 DEF DeviceOf
  <2>2. Gap(i, "byIp") \/ owners = {}
    BY <1>1, <1>2
  <2>3. QED
    BY <2>1, <2>2 DEF Attributed
<1>3. CASE found # {}
  <2>1. PICK r \in found : d = r.id
    BY <1>3 DEF DeviceOf
  <2>2. r \in Live(v) /\ r.address = address /\ d # 0
    BY <1>1, <2>1, Bounds DEF Row
  <2>3. QED
    BY <2>1, <2>2 DEF Attributed
<1>4. QED
  BY <1>2, <1>3

LEMMA NamingTrue ==
  ASSUME Typed, Locked, Committed, NEW i \in Instances, NEW d, NEW name \in NameOf(i, d)
  PROVE  Named([device |-> d, name |-> name,
                version |-> Shows(i, "byId"), gap |-> Gap(i, "byId")])
<1> DEFINE v == Shows(i, "byId")
           names == {r.name : r \in {s \in Live(v) : s.id = d}}
           found == {r \in cache[i]["byId"] : r.id = d}
<1>0. "byId" \in Maps
  BY DEF Maps
<1>1. /\ cache[i]["byId"] \subseteq Live(v)
      /\ ~ Gap(i, "byId") => \A r \in Live(v) : \E s \in cache[i]["byId"] : r.id = s.id
  BY <1>0, MapShows DEF SameKey
<1>2. CASE found = {}
  <2>1. name = Unknown
    BY <1>2 DEF NameOf
  <2>2. Gap(i, "byId") \/ names = {}
    BY <1>1, <1>2
  <2>3. QED
    BY <2>1, <2>2 DEF Named
<1>3. CASE found # {}
  <2>1. PICK r \in found : name = r.name
    BY <1>3 DEF NameOf
  <2>2. r \in Live(v) /\ r.id = d
    BY <1>1, <2>1
  <2>3. QED
    BY <2>1, <2>2 DEF Named
<1>4. QED
  BY <1>2, <1>3

\* Every step leaves the states of the table that there were.
LEMMA Kept ==
  ASSUME Typed, Locked, [Next]_vars
  PROVE  /\ Len(log) \in Nat /\ Len(log') \in Nat /\ Len(log) <= Len(log')
         /\ \A v \in 0 .. Len(log) : Live(v)' = Live(v)
<1>1. Len(log) \in Nat
  BY DEF Typed, TypeOK
<1>2. CASE UNCHANGED log
  BY <1>1, <1>2 DEF Live
<1>3. ASSUME NEW w \in Workers, LockDevices(w) \/ Refresh(w) PROVE UNCHANGED log
  BY <1>3 DEF Refresh, LockDevices, ReadDevices, GiveUp, ReadLost, AddDevice, UnlockDevices, dbVars
<1>4. ASSUME NEW i, NEW why, Boot(i) \/ Stops(i, why) PROVE UNCHANGED log
  BY <1>4 DEF Boot, Stops, dbVars
<1>5. CASE UNCHANGED vars
  BY <1>2, <1>5 DEF vars, dbVars
<1>6. QED
  BY <1>2, <1>3, <1>4, <1>5, Steps, OutsideStep

\* What was true stays true.
LEMMA StaysTrue ==
  ASSUME Typed, Locked, [Next]_vars
  PROVE  /\ \A x : Dates(x) => Dates(x)'
         /\ \A x : Dates(x) /\ Attributed(x) => Attributed(x)'
         /\ \A x : Dates(x) /\ Named(x) => Named(x)'
<1>1. ASSUME NEW x, Dates(x) PROVE Dates(x)' /\ Live(x.version)' = Live(x.version)
  BY <1>1, Kept DEF Dates
<1>2. ASSUME NEW x, Dates(x), Attributed(x) PROVE Attributed(x)'
  BY <1>1, <1>2 DEF Attributed
<1>3. ASSUME NEW x, Dates(x), Named(x) PROVE Named(x)'
  BY <1>1, <1>3 DEF Named
<1>4. QED
  BY <1>1, <1>2, <1>3

\* Steps that store no message, start none and name no device.
LEMMA TruthStays ==
  ASSUME Typed, Locked, Truth, [Next]_vars, UNCHANGED messages,
         \A w \in Workers : pc'[w] = "inserting" => pc[w] = "inserting" /\ job'[w] = job[w],
         \A w \in Workers : report'[w].rows \subseteq report[w].rows
  PROVE  Truth'
<1>1. \A k \in DOMAIN messages' : Dates(messages[k])' /\ Attributed(messages[k])'
  BY StaysTrue DEF Truth
<1>2. \A w \in Workers : pc'[w] = "inserting" => Dates(job[w])' /\ Attributed(job[w])'
  BY StaysTrue DEF Truth
<1>3. \A w \in Workers : \A x \in report'[w].rows : Dates(x)' /\ Named(x)'
  BY StaysTrue DEF Truth
<1>4. QED
  BY <1>1, <1>2, <1>3 DEF Truth

LEMMA SendTrue ==
  ASSUME Typed, Locked, Committed, Truth, [Next]_vars,
         NEW w \in Workers, NEW address \in Written, SendMessage(w, address)
  PROVE  Truth'
<1> DEFINE i == Home[w]
<1>1. /\ i \in Instances /\ "byIp" \in Maps /\ job \in [Workers -> Messages]
      /\ pc \in [Workers -> {"idle", "read", "wait", "fill", "inserting", "naming", "reply"}]
  BY DevicesAssumption DEF Maps, Typed, TypeOK
<1>2. PICK d \in DeviceOf(i, address) :
        job' = [job EXCEPT ![w] = [address |-> address, device |-> d,
                 version |-> Shows(i, "byIp"), gap |-> Gap(i, "byIp")]]
  BY DEF SendMessage
<1>3. UNCHANGED <<log, messages, report>> /\ \A x : (Dates(x) => Dates(x)') /\ (Attributed(x) => Attributed(x)')
  BY DEF SendMessage, dbVars, Dates, Attributed, Live
<1>4. Dates(job'[w]) /\ Attributed(job'[w])
  <2> DEFINE j == [address |-> address, device |-> d,
                   version |-> Shows(i, "byIp"), gap |-> Gap(i, "byIp")]
  <2>1. Attributed(j)
    BY <1>1, LookupTrue
  <2>2. Dates(j)
    BY <1>1, MapShows DEF Dates
  <2>3. job'[w] = j
    BY <1>1, <1>2
  <2>4. QED
    BY <2>1, <2>2, <2>3
<1>5. ASSUME NEW v \in Workers, pc'[v] = "inserting"
      PROVE  Dates(job[v])' /\ Attributed(job[v])'
  <2>1. CASE v = w
    <3>1. PICK j : j = job'[w]
      OBVIOUS
    <3>2. Dates(j)' /\ Attributed(j)'
      BY <1>3, <1>4, <3>1
    <3>3. QED
      BY <2>1, <3>1, <3>2 DEF Dates, Attributed
  <2>2. CASE v # w
    <3>1. pc[v] = "inserting" /\ job'[v] = job[v]
      <4>1. pc' = [pc EXCEPT ![w] = "inserting"]
        BY DEF SendMessage
      <4>2. pc'[v] = pc[v]
        BY <1>1, <2>2, <4>1
      <4>3. job'[v] = job[v]
        BY <1>1, <1>2, <2>2
      <4>4. QED
        BY <1>5, <4>2, <4>3
    <3>2. Dates(job[v]) /\ Attributed(job[v])
      BY <3>1 DEF Truth
    <3>3. PICK j : j = job'[v]
      OBVIOUS
    <3>4. Dates(j)' /\ Attributed(j)'
      BY <1>3, <3>1, <3>2, <3>3
    <3>5. QED
      BY <3>3, <3>4 DEF Dates, Attributed
  <2>3. QED
    BY <2>1, <2>2
<1>6. QED
  BY <1>3, <1>5, StaysTrue DEF Truth

LEMMA StoreTrue ==
  ASSUME Typed, Locked, Truth, [Next]_vars, NEW w \in Workers, StoreMessage(w)
  PROVE  Truth'
<1>1. /\ messages \in Seq(Messages) /\ job[w] \in Messages
      /\ pc \in [Workers -> {"idle", "read", "wait", "fill", "inserting", "naming", "reply"}]
  BY DEF Typed, TypeOK
<1>2. UNCHANGED <<log, job, report>> /\ pc[w] = "inserting" /\ pc' = [pc EXCEPT ![w] = "reply"]
  BY DEF StoreMessage
<1>3. CASE messages' = messages
  BY <1>1, <1>2, <1>3, TruthStays
<1>4. CASE messages' = Append(messages, job[w])
  <2>1. \A k \in DOMAIN messages' :
          messages'[k] = job[w] \/ \E j \in DOMAIN messages : messages'[k] = messages[j]
    BY <1>1, <1>4
  <2>2. \A k \in DOMAIN messages' : Dates(messages'[k]) /\ Attributed(messages'[k])
    BY <1>2, <2>1 DEF Truth
  <2>3. \A k \in DOMAIN messages' : Dates(messages[k])' /\ Attributed(messages[k])'
    BY <1>2, <2>2 DEF Dates, Attributed, Live
  <2>4. \A v \in Workers : pc'[v] = "inserting" => Dates(job[v])' /\ Attributed(job[v])'
    BY <1>1, <1>2, StaysTrue DEF Truth
  <2>5. \A v \in Workers : \A x \in report'[v].rows : Dates(x)' /\ Named(x)'
    BY <1>2, StaysTrue DEF Truth
  <2>6. QED
    BY <2>3, <2>4, <2>5 DEF Truth
<1>5. QED
  BY <1>3, <1>4 DEF StoreMessage

LEMMA NameTrue ==
  ASSUME Typed, Locked, Committed, Truth, [Next]_vars, NEW w \in Workers, NameRow(w)
  PROVE  Truth'
<1> DEFINE i == Home[w]
<1>1. /\ i \in Instances /\ "byId" \in Maps
      /\ report \in [Workers -> [left: SUBSET (Ids \cup {0}), rows: SUBSET Lines]]
  BY DevicesAssumption DEF Maps, Typed, TypeOK
<1>2. UNCHANGED <<log, messages, pc, job>>
  BY DEF NameRow, dbVars
<1>3. PICK d : \E name \in NameOf(i, d) :
        report' = [report EXCEPT ![w] =
          [left |-> @.left \ {d},
           rows |-> @.rows \cup {[device |-> d, name |-> name,
                     version |-> Shows(i, "byId"), gap |-> Gap(i, "byId")]}]]
  BY DEF NameRow
<1>4. PICK name \in NameOf(i, d) :
        report' = [report EXCEPT ![w] =
          [left |-> @.left \ {d},
           rows |-> @.rows \cup {[device |-> d, name |-> name,
                     version |-> Shows(i, "byId"), gap |-> Gap(i, "byId")]}]]
  BY <1>3
<1> DEFINE x == [device |-> d, name |-> name, version |-> Shows(i, "byId"), gap |-> Gap(i, "byId")]
<1>5. Dates(x) /\ Named(x)
  BY <1>1, NamingTrue, MapShows DEF Dates
<1>6. \A v \in Workers : report'[v].rows \subseteq report[v].rows \cup {x}
  BY <1>1, <1>4
<1> HIDE DEF x
<1>7. \A v \in Workers : \A y \in report'[v].rows : Dates(y) /\ Named(y)
  BY <1>5, <1>6 DEF Truth
<1>8. \A v \in Workers : \A y \in report'[v].rows : Dates(y)' /\ Named(y)'
  BY <1>7, StaysTrue
<1>9. \A k \in DOMAIN messages' : Dates(messages[k])' /\ Attributed(messages[k])'
  BY <1>2, StaysTrue DEF Truth
<1>10. \A v \in Workers : pc'[v] = "inserting" => Dates(job[v])' /\ Attributed(job[v])'
  BY <1>2, StaysTrue DEF Truth
<1>11. QED
  BY <1>8, <1>9, <1>10 DEF Truth

LEMMA NextTrue ==
  ASSUME Typed, Locked, Committed, Truth, [Next]_vars
  PROVE  Truth'
<1>1. /\ pc \in [Workers -> {"idle", "read", "wait", "fill", "inserting", "naming", "reply"}]
      /\ report \in [Workers -> [left: SUBSET (Ids \cup {0}), rows: SUBSET Lines]]
  BY DEF Typed, TypeOK
<1>2. CASE UNCHANGED vars
  BY <1>2, TruthStays DEF vars, dbVars, reqVars
<1>3. ASSUME NEW i, Boot(i) PROVE Truth'
  BY <1>3, TruthStays DEF Boot, dbVars, reqVars
<1>4. ASSUME NEW i, NEW why, Stops(i, why) PROVE Truth'
  BY <1>4, TruthStays DEF Stops, Reset, dbVars, NoReport
<1>5. ASSUME NEW w \in Workers, LockDevices(w) \/ Refresh(w) PROVE Truth'
  <2>1. UNCHANGED <<messages, job, report>> /\ \A v \in Workers : pc'[v] = "inserting" => pc[v] = "inserting"
    BY <1>1, <1>5 DEF Refresh, LockDevices, ReadDevices, GiveUp, ReadLost, AddDevice,
                     UnlockDevices, AfterUpdate, dbVars
  <2>2. QED
    BY <2>1, TruthStays
<1>6. ASSUME NEW w \in Workers, Edit(w) PROVE Truth'
  <2>1. UNCHANGED <<messages, job, report>>
    BY <1>6, EditTable DEF RejectRequest, Commits, dbVars
  <2>2. \A v \in Workers : pc'[v] = "inserting" => pc[v] = "inserting"
    <3>1. \E stage \in {"read", "reply"} : pc' = [pc EXCEPT ![w] = stage]
      BY <1>6, EditTable DEF RejectRequest, Commits
    <3>2. QED
      BY <1>1, <3>1
  <2>3. QED
    BY <2>1, <2>2, TruthStays
<1>7. ASSUME NEW w \in Workers, BeginReport(w) PROVE Truth'
  <2>1. UNCHANGED <<messages, job>> /\ pc' = [pc EXCEPT ![w] = "naming"]
        /\ \A v \in Workers : report'[v].rows \subseteq report[v].rows
    BY <1>1, <1>7 DEF BeginReport, dbVars
  <2>2. QED
    BY <1>1, <2>1, TruthStays
<1>8. ASSUME NEW w \in Workers, EndReport(w) PROVE Truth'
  BY <1>1, <1>8, TruthStays DEF EndReport, dbVars
<1>9. ASSUME NEW w \in Workers, Reply(w) PROVE Truth'
  <2>1. /\ UNCHANGED messages
        /\ \A v \in Workers : pc'[v] = "inserting" => pc[v] = "inserting" /\ job'[v] = job[v]
        /\ \A v \in Workers : report'[v].rows \subseteq report[v].rows
    BY <1>1, <1>9 DEF Reply, Reset, NoReport, dbVars
  <2>2. QED
    BY <2>1, TruthStays
<1>10. QED
  BY <1>2, <1>3, <1>4, <1>5, <1>6, <1>7, <1>8, <1>9, Steps, SendTrue, StoreTrue, NameTrue
     DEF Outside, Finish

LEMMA TruthAlways == Spec => [](Typed /\ Locked /\ Committed /\ Truth)
<1>1. Init => Truth
  BY DEF Init, Truth, NoReport
<1>2. Typed /\ Locked /\ Committed /\ Truth /\ [Next]_vars => Truth'
  BY NextTrue
<1>3. QED
  BY <1>1, <1>2, CommittedAlways, PTL DEF Spec

\* A stored message names a device that had its address in one committed
\* state, though the lookup took no mutex and the row was inserted later.
THEOREM MessagesAttributed == Spec => []AttributionSound
<1>1. Truth => AttributionSound
  BY DEF Truth, AttributionSound
<1>2. QED
  BY <1>1, TruthAlways, PTL

\* A report line names a device as one committed state does.
THEOREM ReportsName == Spec => []ReportRowsTrue
<1>1. Truth => ReportRowsTrue
  BY DEF Truth, ReportRowsTrue
<1>2. QED
  BY <1>1, TruthAlways, PTL

-----------------------------------------------------------------------------
(* Ids.                                                                    *)

\* No id that a row of the table has had is ever without a row again.
Grows ==
  \A j, k \in 1 .. Len(log) : j <= k => \A r \in log[j] : \E s \in log[k] : s.id = r.id

LEMMA CommitGrows ==
  ASSUME Typed, Grows, NEW newTable, log' = Append(log, newTable),
         \A r \in devices : \E s \in newTable : s.id = r.id
  PROVE  Grows'
<1>1. /\ TypeOK /\ Len(log) \in Nat \ {0} /\ Len(log') = Len(log) + 1
      /\ log'[Len(log) + 1] = newTable /\ \A v \in 1 .. Len(log) : log'[v] = log[v]
  BY LogGrows DEF Typed, TypeOK
<1>2. ASSUME NEW j \in 1 .. Len(log'), NEW k \in 1 .. Len(log'), j <= k, NEW r \in log'[j]
      PROVE  \E s \in log'[k] : s.id = r.id
  <2>1. CASE k <= Len(log)
    BY <1>1, <1>2, <2>1 DEF Grows
  <2>2. CASE j = k
    BY <1>2, <2>2
  <2>3. CASE k > Len(log) /\ j # k
    <3>1. k = Len(log) + 1 /\ j \in 1 .. Len(log) /\ Len(log) \in 1 .. Len(log) /\ r \in log[j]
      BY <1>1, <1>2, <2>3
    <3>2. PICK q \in devices : q.id = r.id
      BY <3>1 DEF Grows, devices
    <3>3. PICK s \in newTable : s.id = q.id
      BY <3>2
    <3>4. QED
      BY <1>1, <3>1, <3>2, <3>3
  <2>4. QED
    BY <1>1, <2>1, <2>2, <2>3
<1>3. QED
  BY <1>2 DEF Grows

LEMMA NextGrows ==
  ASSUME Typed, Grows, [Next]_vars
  PROVE  Grows'
<1>1. CASE UNCHANGED log
  BY <1>1 DEF Grows
<1>2. ASSUME NEW w \in Workers, Edit(w) PROVE Grows'
  <2>1. CASE RejectRequest(w)
    BY <1>1, <2>1 DEF RejectRequest, dbVars
  <2>2. QED
    BY <1>2, <2>1, EditTable, CommitGrows DEF Commits
<1>3. ASSUME NEW w \in Workers, Outside(w), ~ Edit(w) PROVE UNCHANGED log
  BY <1>3 DEF Outside, BeginReport, SendMessage, Finish, StoreMessage, NameRow, EndReport, Reply,
              dbVars
<1>4. ASSUME NEW w \in Workers, LockDevices(w) \/ Refresh(w) PROVE UNCHANGED log
  BY <1>4 DEF Refresh, LockDevices, ReadDevices, GiveUp, ReadLost, AddDevice, UnlockDevices, dbVars
<1>5. ASSUME NEW i, NEW why, Boot(i) \/ Stops(i, why) PROVE UNCHANGED log
  BY <1>5 DEF Boot, Stops, dbVars
<1>6. CASE UNCHANGED vars
  BY <1>1, <1>6 DEF vars, dbVars
<1>7. QED
  BY <1>1, <1>2, <1>3, <1>4, <1>5, <1>6, Steps

\* The device of a stored message stays a row of the table, without a foreign
\* key: the row that the lookup found was committed, and deletes keep rows.
THEOREM MessagesKeepDevice == Spec => []MessagesKeepTheirDevice
<1>1. Init => Grows
  BY DEF Init, Grows
<1>2. Typed /\ Grows /\ [Next]_vars => Grows'
  BY NextGrows
<1>3. ASSUME Typed, Truth, Grows PROVE MessagesKeepTheirDevice
  <2> SUFFICES ASSUME NEW k \in DOMAIN messages, messages[k].device # 0
               PROVE  \E r \in devices : r.id = messages[k].device
    BY DEF MessagesKeepTheirDevice
  <2> DEFINE v == messages[k].version
  <2>1. Len(log) \in Nat \ {0} /\ v \in 0 .. Len(log) /\ Attributed(messages[k])
    BY <1>3 DEF Typed, TypeOK, Truth, Dates
  <2>2. PICK r \in Live(v) : r.id = messages[k].device
    BY <2>1 DEF Attributed
  <2>3. v \in 1 .. Len(log) /\ r \in log[v]
    BY <2>1, <2>2 DEF Live
  <2>4. Len(log) \in 1 .. Len(log) /\ v <= Len(log)
    BY <2>1, <2>3
  <2>5. QED
    BY <1>3, <2>2, <2>3, <2>4 DEF Grows, devices
<1>4. QED
  BY <1>1, <1>2, <1>3, TruthAlways, PTL DEF Spec

-----------------------------------------------------------------------------
(* What a handler owes its client.                                         *)

\* The map m has shown the edit of w.
Has(w, m) == peak[Home[w]][m] >= mine[w]

\* A handler passes the maps in order.  What it installs is not older than its
\* edit, unless it has lost the rows of its read.
Owes(w) ==
  /\ mine[w] \in 0 .. Len(log)
  /\ pc[w] \in {"idle", "inserting", "naming"} =>
       mine[w] = 0 /\ which[w] = "byId" /\ missed[w] = {}
  /\ pc[w] \in {"read", "wait", "fill"} =>
       /\ mine[w] > 0
       /\ which[w] = "byIp" => "byId" \in missed[w] \/ Has(w, "byId")
  /\ pc[w] \in {"wait", "fill"} =>
       \/ scan[w].version >= mine[w]
       \/ which[w] = "byId" /\ scan[w].version = 0 /\ "byId" \in missed[w]
  /\ pc[w] = "reply" /\ mine[w] > 0 => \A m \in Maps \ missed[w] : Has(w, m)

Owed == \A w \in Workers : Owes(w)

\* A debt stays as long as its request does not move, for the maps of a
\* process show ever newer states until it ends.
LEMMA PeakTypes ==
  ASSUME TypeOK, NEW w \in Workers, NEW m \in Maps
  PROVE  Home[w] \in Instances /\ peak[Home[w]][m] \in Nat /\ mine[w] \in Nat
<1>1. Home[w] \in Instances
  BY DevicesAssumption
<1>2. peak[Home[w]][m] \in Versions /\ mine[w] \in Versions
  BY <1>1 DEF TypeOK
<1>3. QED
  BY <1>1, <1>2, Bounds

LEMMA OwesStays ==
  ASSUME Typed, Typed', NEW w \in Workers, Owes(w),
         Len(log) \in Nat, Len(log') \in Nat, Len(log) <= Len(log'),
         pc'[w] = pc[w], which'[w] = which[w], scan'[w] = scan[w],
         mine'[w] = mine[w], missed'[w] = missed[w],
         pc[w] # "idle" => \A m \in Maps : peak'[Home[w]][m] >= peak[Home[w]][m]
  PROVE  Owes(w)'
<1>1. /\ \A m \in Maps : peak[Home[w]][m] \in Nat /\ peak'[Home[w]][m] \in Nat
      /\ mine[w] \in Nat
  <2>1. TypeOK /\ TypeOK'
    BY DEF Typed
  <2>2. Home[w] \in Instances /\ peak' \in [Instances -> [Maps -> Versions]]
    BY <2>1, DevicesAssumption DEF TypeOK
  <2>3. \A m \in Maps : peak'[Home[w]][m] \in Nat
    BY <2>2, Bounds
  <2>4. \A m \in Maps : peak[Home[w]][m] \in Nat /\ mine[w] \in Nat
    BY <2>1, PeakTypes
  <2>5. mine[w] \in Nat
    BY <2>1, Bounds DEF TypeOK
  <2>6. QED
    BY <2>3, <2>4, <2>5
<1>2. ASSUME NEW m \in Maps, Has(w, m), pc[w] # "idle" PROVE Has(w, m)'
  BY <1>1, <1>2 DEF Has
<1>3. "byId" \in Maps
  BY DEF Maps
<1>4. QED
  BY <1>1, <1>2, <1>3 DEF Owes

\* A request that is idle owes nothing.
LEMMA OwesNothing ==
  ASSUME Typed, NEW w \in Workers, pc[w] \in {"idle", "inserting", "naming"}, mine[w] = 0,
         which[w] = "byId", missed[w] = {}
  PROVE  Owes(w)
BY DEF Owes, Typed, TypeOK

LEMMA OutsideOwed ==
  ASSUME Typed, Typed', Owed, NEW w \in Workers, Outside(w)
  PROVE  Owed'
<1>1. /\ pc \in [Workers -> {"idle", "read", "wait", "fill", "inserting", "naming", "reply"}]
      /\ which \in [Workers -> Maps] /\ mine \in [Workers -> Versions]
      /\ missed \in [Workers -> SUBSET Maps] /\ Len(log) \in Nat /\ Owes(w)
      /\ \A m \in Maps : peak[Home[w]][m] \in Nat
  BY PeakTypes DEF Typed, TypeOK, Owed
<1>2. ASSUME NEW v \in Workers \ {w} PROVE Owes(v)'
  <2>1. \A m \in Maps : peak'[Home[v]][m] >= peak[Home[v]][m]
    BY OutsideStep, PeakTypes DEF procVars, Typed
  <2>2. QED
    BY <2>1, OutsideStep, OwesStays DEF Owed
<1>3. CASE Edit(w)
  <2>1. pc[w] = "idle" /\ mine[w] = 0 /\ which[w] = "byId" /\ missed[w] = {}
        /\ which' = which /\ missed' = missed
    BY <1>1, <1>3, EditTable DEF Idle, RejectRequest, Commits, Owes
  <2>2. \/ pc'[w] = "reply" /\ mine'[w] = 0
        \/ pc'[w] = "read" /\ mine'[w] = Len(log) + 1 /\ Len(log') = Len(log) + 1
    <3>1. CASE RejectRequest(w)
      BY <1>1, <2>1, <3>1 DEF RejectRequest
    <3>2. ASSUME NEW newTable, Commits(w, newTable)
          PROVE  \/ pc'[w] = "reply" /\ mine'[w] = 0
                 \/ pc'[w] = "read" /\ mine'[w] = Len(log) + 1 /\ Len(log') = Len(log) + 1
      <4>1. Len(log') = Len(log) + 1
        BY <3>2, LogGrows DEF Commits, Typed
      <4>2. QED
        BY <1>1, <2>1, <3>2, <4>1 DEF Commits
    <3>3. QED
      BY <1>3, <3>1, <3>2, EditTable
  <2>3. Len(log') \in Nat /\ 0 \in 0 .. Len(log')
    BY OutsideStep
  <2>4. CASE pc'[w] = "reply" /\ mine'[w] = 0
    <3>1. Owes(w)'
      BY <2>3, <2>4 DEF Owes
    <3>2. QED
      BY <1>2, <3>1 DEF Owed
  <2>5. CASE pc'[w] = "read" /\ mine'[w] = Len(log) + 1 /\ Len(log') = Len(log) + 1
    <3>1. mine'[w] > 0 /\ mine'[w] \in 0 .. Len(log') /\ which'[w] = "byId"
      BY <1>1, <2>1, <2>5
    <3>2. Owes(w)'
      BY <2>5, <3>1 DEF Owes
    <3>3. QED
      BY <1>2, <3>2 DEF Owed
  <2>6. QED
    BY <1>2, <2>2, <2>4, <2>5 DEF Owed
<1>4. CASE BeginReport(w) \/ \E address \in Written : SendMessage(w, address)
  <2>1. pc[w] = "idle" /\ pc'[w] \in {"naming", "inserting"} /\ UNCHANGED <<which, mine, missed>>
    BY <1>1, <1>4 DEF BeginReport, SendMessage, Idle
  <2>2. mine[w] = 0 /\ which[w] = "byId" /\ missed[w] = {}
    BY <1>1, <2>1 DEF Owes
  <2>3. Owes(w)'
    BY <2>1, <2>2, OwesNothing DEF Owes, Typed, TypeOK
  <2>4. QED
    BY <1>2, <2>3 DEF Owed
<1>5. CASE StoreMessage(w) \/ NameRow(w) \/ EndReport(w)
  <2>1. /\ pc[w] \in {"inserting", "naming"} /\ pc'[w] \in {"naming", "reply"}
        /\ UNCHANGED <<which, mine, missed>>
    BY <1>1, <1>5 DEF StoreMessage, NameRow, EndReport
  <2>2. mine[w] = 0 /\ which[w] = "byId" /\ missed[w] = {} /\ Len(log') \in Nat
    BY <1>1, <2>1, OutsideStep DEF Owes
  <2>3. Owes(w)'
    BY <2>1, <2>2 DEF Owes
  <2>4. QED
    BY <1>2, <2>3 DEF Owed
<1>6. CASE Reply(w)
  <2>1. pc'[w] = "idle" /\ mine'[w] = 0 /\ which'[w] = "byId" /\ missed'[w] = {}
        /\ Len(log') \in Nat
    BY <1>6, OutsideStep DEF Reply, Reset
  <2>2. Owes(w)'
    BY <2>1 DEF Owes
  <2>3. QED
    BY <1>2, <2>2 DEF Owed
<1>7. QED
  BY <1>3, <1>4, <1>5, <1>6 DEF Outside, Finish

LEMMA StopsOwed ==
  ASSUME Typed, Typed', Owed, NEW i \in Instances, NEW why, Stops(i, why)
  PROVE  Owed'
<1>1. /\ \A w \in Workers : Home[w] = i =>
           pc'[w] = "idle" /\ mine'[w] = 0 /\ which'[w] = "byId" /\ missed'[w] = {}
      /\ \A w \in Workers : Home[w] # i =>
           /\ pc'[w] = pc[w] /\ which'[w] = which[w] /\ scan'[w] = scan[w]
           /\ mine'[w] = mine[w] /\ missed'[w] = missed[w]
      /\ UNCHANGED log /\ Len(log) \in Nat
      /\ \A j \in Instances \ {i} : peak'[j] = peak[j]
  BY DEF Stops, Reset, dbVars, Typed, TypeOK
<1>2. ASSUME NEW w \in Workers, Home[w] = i PROVE Owes(w)'
  BY <1>1, <1>2 DEF Owes
<1>3. ASSUME NEW w \in Workers, Home[w] # i PROVE Owes(w)'
  <2>1. peak'[Home[w]] = peak[Home[w]]
    BY <1>1, <1>3, DevicesAssumption
  <2>2. \A m \in Maps : peak'[Home[w]][m] >= peak[Home[w]][m]
    BY <2>1, PeakTypes DEF Typed
  <2>3. QED
    BY <1>1, <1>3, <2>2, OwesStays DEF Owed
<1>4. QED
  BY <1>2, <1>3 DEF Owed

LEMMA BootOwed ==
  ASSUME Typed, Typed', Locked, Owed, NEW i \in Instances, Boot(i)
  PROVE  Owed'
<1>1. UNCHANGED <<log, pc, which, scan, mine, missed>> /\ Len(log) \in Nat
  BY DEF Boot, dbVars, reqVars, Typed, TypeOK
<1>2. \A j \in Instances \ {i} : peak'[j] = peak[j]
  BY DEF Boot, Typed, TypeOK
<1>3. ASSUME NEW w \in Workers PROVE Owes(w)'
  <2>1. CASE Home[w] = i
    <3>1. pc[w] = "idle"
      BY <2>1 DEF Locked, Gone, Boot
    <3>2. QED
      BY <1>1, <3>1, OwesStays DEF Owed
  <2>2. CASE Home[w] # i
    <3>1. peak'[Home[w]] = peak[Home[w]]
      BY <1>2, <2>2, DevicesAssumption
    <3>2. \A m \in Maps : peak'[Home[w]][m] >= peak[Home[w]][m]
      BY <3>1, PeakTypes DEF Typed
    <3>3. QED
      BY <1>1, <3>2, OwesStays DEF Owed
  <2>3. QED
    BY <2>1, <2>2
<1>4. QED
  BY <1>3 DEF Owed

\* A handler that is through with a map has its edit shown there, or not read.
LEMMA RefreshOwed ==
  ASSUME Typed, Typed', Owed, NEW w \in Workers, LockDevices(w) \/ Refresh(w)
  PROVE  Owed'
<1>1. /\ pc \in [Workers -> {"idle", "read", "wait", "fill", "inserting", "naming", "reply"}]
      /\ which \in [Workers -> Maps] /\ missed \in [Workers -> SUBSET Maps]
      /\ scan \in [Workers -> [rows: SUBSET Row, left: SUBSET Row, version: Versions]]
      /\ mine \in [Workers -> Versions] /\ Home[w] \in Instances
      /\ peak \in [Instances -> [Maps -> Versions]]
  BY DevicesAssumption DEF Typed, TypeOK
<1>2. UNCHANGED <<log, mine>> /\ Len(log) \in Nat
  BY DEF Refresh, LockDevices, ReadDevices, GiveUp, ReadLost, AddDevice, UnlockDevices, dbVars,
         Typed, TypeOK
<1>3. \A v \in Workers \ {w} :
        /\ pc'[v] = pc[v] /\ which'[v] = which[v] /\ scan'[v] = scan[v]
        /\ missed'[v] = missed[v]
  BY <1>1 DEF Refresh, LockDevices, ReadDevices, GiveUp, ReadLost, AddDevice, UnlockDevices,
              AfterUpdate
<1>4. /\ scan[w].version \in Nat /\ mine[w] \in Nat /\ which[w] \in Maps
      /\ \A m \in Maps : peak[Home[w]][m] \in Nat
      /\ \A i \in Instances, m \in Maps : peak[i][m] \in Nat
  BY <1>1, Bounds
<1>5. \A i \in Instances, m \in Maps : peak'[i][m] >= peak[i][m]
  <2>1. CASE UnlockDevices(w)
    <3>1. peak' = [peak EXCEPT ![Home[w]][which[w]] =
                     IF scan[w].version > @ THEN scan[w].version ELSE @]
      BY <2>1 DEF UnlockDevices
    <3>2. QED
      BY <1>1, <1>4, <3>1
  <2>2. CASE ~ UnlockDevices(w)
    <3>1. peak' = peak
      BY <2>2 DEF Refresh, LockDevices, ReadDevices, GiveUp, ReadLost, AddDevice, procVars
    <3>2. QED
      BY <1>4, <3>1
  <2>3. QED
    BY <2>1, <2>2
<1>6. ASSUME NEW v \in Workers \ {w} PROVE Owes(v)'
  <2>1. \A m \in Maps : peak'[Home[v]][m] >= peak[Home[v]][m]
    BY <1>5, DevicesAssumption
  <2>2. QED
    BY <1>2, <1>3, <2>1, OwesStays DEF Owed
<1>7. Owes(w) /\ mine'[w] = mine[w] /\ Maps = {"byId", "byIp"}
  BY <1>2 DEF Owed, Maps
<1>8. CASE ReadDevices(w)
  <2>1. pc[w] = "read" /\ pc'[w] = "wait" /\ scan'[w].version = Len(log)
        /\ UNCHANGED <<which, missed, peak>>
    BY <1>1, <1>8 DEF ReadDevices, procVars
  <2>2. Owes(w)'
    BY <1>2, <1>4, <1>7, <2>1 DEF Owes, Has
  <2>3. QED
    BY <1>6, <2>2 DEF Owed
<1>9. CASE ReadLost(w)
  <2>1. pc[w] = "read" /\ pc'[w] = "wait" /\ scan'[w].version = 0 /\ which[w] = "byId"
        /\ "byId" \in missed'[w] /\ UNCHANGED <<which, peak>>
    BY <1>1, <1>9 DEF ReadLost, procVars, NoScan
  <2>2. Owes(w)'
    BY <1>2, <1>4, <1>7, <2>1 DEF Owes, Has
  <2>3. QED
    BY <1>6, <2>2 DEF Owed
<1>10. CASE GiveUp(w)
  <2>1. pc[w] = "read" /\ missed'[w] = missed[w] \cup {which[w]} /\ UNCHANGED peak
    BY <1>1, <1>10 DEF GiveUp, procVars
  <2>2. \/ which[w] = "byId" /\ which'[w] = "byIp" /\ pc'[w] = "read"
        \/ which[w] = "byIp" /\ which'[w] = "byIp" /\ pc'[w] = "reply"
    BY <1>1, <1>7, <1>10 DEF GiveUp, AfterUpdate
  <2>3. Owes(w)'
    BY <1>2, <1>4, <1>7, <2>1, <2>2 DEF Owes, Has
  <2>4. QED
    BY <1>6, <2>3 DEF Owed
<1>11. CASE LockDevices(w) \/ AddDevice(w)
  <2>1. /\ pc[w] \in {"wait", "fill"} /\ pc'[w] = "fill"
        /\ scan'[w].version = scan[w].version /\ UNCHANGED <<which, missed, peak>>
    BY <1>1, <1>11 DEF LockDevices, AddDevice
  <2>2. Owes(w)'
    BY <1>2, <1>4, <1>7, <2>1 DEF Owes, Has
  <2>3. QED
    BY <1>6, <2>2 DEF Owed
<1>12. CASE UnlockDevices(w)
  <2>1. pc[w] = "fill" /\ UNCHANGED missed
    BY <1>12 DEF UnlockDevices
  <2>2. peak'[Home[w]][which[w]] >= scan[w].version
    <3>1. peak' = [peak EXCEPT ![Home[w]][which[w]] =
                     IF scan[w].version > @ THEN scan[w].version ELSE @]
      BY <1>12 DEF UnlockDevices
    <3>2. peak'[Home[w]][which[w]] =
            IF scan[w].version > peak[Home[w]][which[w]] THEN scan[w].version
            ELSE peak[Home[w]][which[w]]
      BY <1>1, <3>1
    <3>3. QED
      BY <1>4, <3>2
  <2>3. \A m \in Maps : peak'[Home[w]][m] \in Nat
    <3>1. TypeOK'
      BY DEF Typed
    <3>2. QED
      BY <1>1, <3>1, Bounds DEF TypeOK
  <2>4. \A m \in Maps : peak'[Home[w]][m] >= peak[Home[w]][m]
    BY <1>1, <1>5
  <2>5. \/ which[w] = "byId" /\ which'[w] = "byIp" /\ pc'[w] = "read"
        \/ which[w] = "byIp" /\ which'[w] = "byIp" /\ pc'[w] = "reply"
    BY <1>1, <1>7, <1>12 DEF UnlockDevices, AfterUpdate
  <2>6. \A m \in Maps : Has(w, m) => Has(w, m)'
    BY <1>4, <1>7, <2>3, <2>4 DEF Has
  <2>7. ASSUME NEW m \in Maps, which[w] = m, scan[w].version >= mine[w]
        PROVE  Has(w, m)'
    <3>1. peak'[Home[w]][m] \in Nat
      BY <2>3
    <3>2. peak'[Home[w]][m] >= mine[w]
      BY <1>4, <2>2, <2>7, <3>1
    <3>3. QED
      BY <1>2, <3>2 DEF Has
  <2>8. Owes(w)'
    <3>1. /\ mine[w] \in 0 .. Len(log) /\ mine[w] > 0
          /\ which[w] = "byIp" => "byId" \in missed[w] \/ Has(w, "byId")
          /\ \/ scan[w].version >= mine[w]
             \/ which[w] = "byId" /\ scan[w].version = 0 /\ "byId" \in missed[w]
      BY <1>7, <2>1 DEF Owes
    <3>2. which[w] = "byId" => "byId" \in missed[w] \/ Has(w, "byId")'
      BY <1>7, <2>7, <3>1
    <3>3. which[w] = "byIp" => Has(w, "byIp")' /\ ("byId" \in missed[w] \/ Has(w, "byId")')
      BY <1>7, <2>6, <2>7, <3>1
    <3>4. QED
      BY <1>2, <1>7, <2>1, <2>5, <3>1, <3>2, <3>3 DEF Owes
  <2>9. QED
    BY <1>6, <2>8 DEF Owed
<1>13. QED
  BY <1>8, <1>9, <1>10, <1>11, <1>12 DEF Refresh

LEMMA NextOwed ==
  ASSUME Typed, Typed', Locked, Owed, [Next]_vars
  PROVE  Owed'
<1>1. CASE UNCHANGED vars
  BY <1>1 DEF vars, dbVars, procVars, reqVars, Owed, Owes, Has
<1>2. QED
  BY <1>1, Steps, BootOwed, StopsOwed, OutsideOwed, RefreshOwed

LEMMA OwedAlways == Spec => []Owed
<1>1. Init => Owed
  <2>1. ASSUME Init, NEW w \in Workers PROVE Owes(w)
    BY <2>1 DEF Init, Owes
  <2>2. QED
    BY <2>1 DEF Owed
<1>2. Typed /\ Typed' /\ Locked /\ Owed /\ [Next]_vars => Owed'
  BY NextOwed
<1>3. QED
  BY <1>1, <1>2, TypedAlways, LockedAlways, PTL DEF Spec

\* An edit answered "ok" has been in both maps of the process that answered,
\* but for a map whose refresh gave up or lost its rows, however the refreshes
\* of other edits overlap with its own.
THEOREM AckedShown == Spec => []AckedDeviceShown
<1>1. Typed /\ Owed => AckedDeviceShown
  BY DEF AckedDeviceShown, Owed, Owes, Has
<1>2. QED
  BY <1>1, TypedAlways, OwedAlways, PTL

-----------------------------------------------------------------------------
(* Every step of DeviceCaches is a step of DeviceView or a stutter.        *)

DueNow == [w \in Workers |-> Due(w)]

LEMMA Stutters ==
  ASSUME Len(log') = Len(log), ver' = ver, mine' = mine, \A w \in Workers : Due(w)' = Due(w)
  PROVE  UNCHANGED View!view_vars
<1>1. DueNow' = DueNow
  BY DEF DueNow
<1>2. QED
  BY <1>1 DEF View!view_vars, DueNow

\* What is due to the clients that a step is not about.
LEMMA DueStays ==
  ASSUME NEW v, pc'[v] = pc[v], which'[v] = which[v], mine'[v] = mine[v]
  PROVE  Due(v)' = Due(v)
BY DEF Due

LEMMA DueTypes ==
  ASSUME Typed, Owed, NEW w \in Workers
  PROVE  /\ Maps = {"byId", "byIp"} /\ Home[w] \in Instances
         /\ Len(log) \in Nat /\ mine[w] \in 0 .. Len(log)
         /\ which[w] \in Maps /\ Owes(w)
         /\ pc \in [Workers -> {"idle", "read", "wait", "fill", "inserting", "naming", "reply"}]
         /\ which \in [Workers -> Maps] /\ mine \in [Workers -> Versions]
         /\ ver \in [Instances -> [Maps -> Versions]]
         /\ scan \in [Workers -> [rows: SUBSET Row, left: SUBSET Row, version: Versions]]
<1>1. Home[w] \in Instances /\ Maps = {"byId", "byIp"}
  BY DevicesAssumption DEF Maps
<1>2. Owes(w) /\ mine[w] \in 0 .. Len(log)
  BY DEF Owed, Owes
<1>3. QED
  BY <1>1, <1>2 DEF Typed, TypeOK

LEMMA StopsRefines ==
  ASSUME NEW i \in Instances, NEW why, Stops(i, why)
  PROVE  View!Stop(i)
<1>1. /\ log' = log /\ ver' = [ver EXCEPT ![i] = [m \in Maps |-> 0]]
      /\ mine' = [w \in Workers |-> IF Home[w] = i THEN 0 ELSE mine[w]]
  BY DEF Stops, Reset, dbVars
<1>2. ASSUME NEW w \in Workers PROVE Due(w)' = IF Home[w] = i THEN {} ELSE Due(w)
  BY DEF Stops, Reset, Due
<1>3. DueNow' = [w \in Workers |-> IF Home[w] = i THEN {} ELSE DueNow[w]]
  BY <1>2 DEF DueNow
<1>4. QED
  BY <1>1, <1>3 DEF View!Stop, View!Nothing, DueNow

LEMMA BootRefines ==
  ASSUME Typed, Locked, Committed, NEW i \in Instances, Boot(i)
  PROVE  View!Load(i) \/ UNCHANGED View!view_vars
<1>1. UNCHANGED <<log, mine, pc, which>>
  BY DEF Boot, dbVars, reqVars
<1>2. \A w \in Workers : Due(w)' = Due(w)
  BY <1>1, DueStays
<1>3. CASE ver' = ver
  BY <1>1, <1>2, <1>3, Stutters
<1>4. CASE ver' = [ver EXCEPT ![i]["byIp"] = Len(log)]
  <2>1. ver[i] \in [Maps -> Versions] /\ \A m \in Maps : ver[i][m] = 0
    BY DEF Typed, TypeOK, Committed, Dated, Boot
  <2>2. ver[i] = [m \in Maps |-> 0]
    BY <2>1
  <2>3. DueNow' = DueNow
    BY <1>2 DEF DueNow
  <2>4. QED
    BY <1>1, <1>4, <2>2, <2>3 DEF View!Load, View!Nothing, DueNow
<1>5. QED
  BY <1>3, <1>4 DEF Boot

LEMMA EditRefines ==
  ASSUME Typed, Owed, NEW w \in Workers, Edit(w)
  PROVE  View!Write(w) \/ UNCHANGED View!view_vars
<1>1. Owes(w) /\ TypeOK
  BY DueTypes DEF Typed
<1>2. UNCHANGED <<ver, which>> /\ \A v \in Workers \ {w} : Due(v)' = Due(v)
  <2>1. \A v \in Workers \ {w} : Due(v)' = Due(v)
    BY OutsideStep, DueStays DEF Outside
  <2>2. QED
    BY <2>1, EditTable DEF RejectRequest, Commits, procVars
<1>3. pc[w] = "idle" /\ mine[w] = 0 /\ which[w] = "byId" /\ Due(w) = {}
  BY <1>1, EditTable DEF RejectRequest, Idle, Owes, Due
<1>4. CASE RejectRequest(w)
  <2>1. Due(w)' = Due(w) /\ UNCHANGED <<log, mine>>
    BY <1>3, <1>4 DEF RejectRequest, Due, dbVars
  <2>2. QED
    BY <1>2, <2>1, Stutters
<1>5. ASSUME NEW newTable, Commits(w, newTable) PROVE View!Write(w)
  <2>1. Len(log') = Len(log) + 1
    BY <1>1, <1>5, LogGrows DEF Commits
  <2>2. CASE mine' = mine
    <3>1. Due(w)' = Due(w)
      BY <1>3, <2>2 DEF Due
    <3>2. DueNow' = DueNow
      BY <1>2, <3>1 DEF DueNow
    <3>3. QED
      BY <1>2, <1>3, <2>1, <2>2, <3>2 DEF View!Write, DueNow
  <2>3. CASE mine' = [mine EXCEPT ![w] = Len(log) + 1] /\ pc' = [pc EXCEPT ![w] = "read"]
    <3>1. mine'[w] = Len(log) + 1 /\ mine'[w] # 0 /\ pc'[w] = "read"
      BY <2>3, DueTypes
    <3>2. Due(w)' = Maps
      BY <1>2, <1>3, <3>1 DEF Due
    <3>3. DueNow' = [DueNow EXCEPT ![w] = Maps]
      BY <1>2, <3>2 DEF DueNow
    <3>4. QED
      BY <1>2, <1>3, <2>1, <2>3, <3>3 DEF View!Write, DueNow
  <2>4. QED
    BY <1>5, <2>2, <2>3 DEF Commits
<1>6. QED
  BY <1>4, <1>5, EditTable

\* The answer of an edit is the only other step outside of the refreshes that
\* the view sees.
LEMMA OutsideRefines ==
  ASSUME Typed, Owed, NEW w \in Workers, Outside(w)
  PROVE  View!Write(w) \/ View!Answer(w) \/ UNCHANGED View!view_vars
<1>1. Owes(w) /\ ver' = ver /\ \A v \in Workers \ {w} : Due(v)' = Due(v)
  BY OutsideStep, DueTypes, DueStays DEF procVars
<1>2. CASE Edit(w)
  BY <1>2, EditRefines
<1>3. CASE Outside(w) /\ ~ Edit(w) /\ ~ Reply(w)
  <2>1. UNCHANGED <<log, mine>> /\ pc[w] \in {"idle", "inserting", "naming"}
    BY <1>3 DEF Outside, BeginReport, SendMessage, Finish, StoreMessage, NameRow, EndReport,
                Idle, dbVars
  <2>2. Due(w) = {} /\ Due(w)' = {}
    BY <1>1, <2>1 DEF Owes, Due
  <2>3. QED
    BY <1>1, <2>1, <2>2, Stutters
<1>4. CASE Reply(w)
  <2>1. /\ log' = log /\ mine \in [Workers -> Versions]
        /\ mine' = [v \in Workers |-> IF v \in {w} THEN 0 ELSE mine[v]]
    BY <1>4, DueTypes DEF Reply, Reset, dbVars
  <2>2. mine' = [mine EXCEPT ![w] = 0]
    BY <2>1
  <2>3. Due(w) = {} /\ Due(w)' = {}
    BY <1>4, <2>1 DEF Reply, Due
  <2>4. DueNow' = DueNow
    BY <1>1, <2>3 DEF DueNow
  <2>5. CASE mine[w] = 0
    <3>1. mine' = mine
      BY <2>1, <2>2, <2>5
    <3>2. QED
      BY <1>1, <2>1, <2>3, <3>1, Stutters
  <2>6. CASE mine[w] > 0
    <3>1. DueNow[w] = {}
      BY <2>3 DEF DueNow
    <3>2. QED
      BY <1>1, <2>1, <2>2, <2>4, <2>6, <3>1 DEF View!Answer, DueNow
  <2>7. QED
    BY <2>5, <2>6, DueTypes
<1>5. QED
  BY <1>2, <1>3, <1>4

\* A handler is through with the map it refreshes.
LEMMA UpdateRefines ==
  ASSUME Typed, Owed, NEW w \in Workers, AfterUpdate(w), UNCHANGED <<log, mine>>,
         pc[w] \in {"read", "fill"}
  PROVE  View!Through(w, which[w])
<1>1. /\ Maps = {"byId", "byIp"} /\ which[w] \in Maps /\ mine[w] > 0
      /\ pc \in [Workers -> {"idle", "read", "wait", "fill", "inserting", "naming", "reply"}]
      /\ which \in [Workers -> Maps]
  BY DueTypes DEF Owes
<1>2. \A v \in Workers \ {w} : pc'[v] = pc[v] /\ which'[v] = which[v]
  BY <1>1 DEF AfterUpdate
<1>3. which[w] \in Due(w) /\ Due(w)' = Due(w) \ {which[w]}
  <2>1. CASE which[w] = "byId"
    <3>1. pc'[w] = "read" /\ which'[w] = "byIp"
      BY <1>1, <2>1 DEF AfterUpdate
    <3>2. QED
      BY <1>1, <2>1, <3>1 DEF Due
  <2>2. CASE which[w] = "byIp"
    <3>1. pc'[w] = "reply"
      BY <1>1, <2>2 DEF AfterUpdate
    <3>2. QED
      BY <1>1, <2>2, <3>1 DEF Due
  <2>3. QED
    BY <1>1, <2>1, <2>2
<1>4. which[w] \in DueNow[w] /\ DueNow' = [DueNow EXCEPT ![w] = @ \ {which[w]}]
  BY <1>2, <1>3, DueStays DEF DueNow
<1>5. QED
  BY <1>4 DEF View!Through, DueNow

LEMMA RefreshRefines ==
  ASSUME Typed, Committed, Owed, NEW w \in Workers, LockDevices(w) \/ Refresh(w)
  PROVE  \/ View!Lose(w) \/ \E m \in Maps : View!Install(w, m) \/ View!Miss(w, m)
         \/ UNCHANGED View!view_vars
<1>1. /\ Owes(w) /\ which[w] \in Maps /\ Maps = {"byId", "byIp"} /\ Home[w] \in Instances
      /\ Len(log) \in Nat /\ mine[w] \in 0 .. Len(log)
  BY DueTypes
<1>2. CASE ReadDevices(w) \/ ReadLost(w) \/ LockDevices(w) \/ AddDevice(w)
  <2>1. UNCHANGED <<log, ver, mine, which>>
    BY <1>2 DEF ReadDevices, ReadLost, LockDevices, AddDevice, dbVars, procVars
  <2>2. /\ \A v \in Workers \ {w} : pc'[v] = pc[v]
        /\ pc[w] \in {"read", "wait", "fill"} /\ pc'[w] \in {"wait", "fill"}
    BY <1>2, DueTypes DEF ReadDevices, ReadLost, LockDevices, AddDevice
  <2>3. \A v \in Workers : Due(v)' = Due(v)
    BY <2>1, <2>2 DEF Due
  <2>4. QED
    BY <2>1, <2>3, Stutters
<1>3. CASE GiveUp(w)
  <2>1. View!Through(w, which[w])
    BY <1>3, UpdateRefines DEF GiveUp, dbVars
  <2>2. View!Miss(w, which[w])
    BY <1>3, <2>1 DEF GiveUp, procVars, View!Miss
  <2>3. QED
    BY <1>1, <2>2
<1>4. CASE UnlockDevices(w)
  <2> DEFINE v == scan[w].version
  <2>1. View!Through(w, which[w])
    BY <1>4, UpdateRefines DEF UnlockDevices, dbVars
  <2>2. v \in 0 .. Len(log) /\ pc[w] = "fill" /\ ver' = [ver EXCEPT ![Home[w]][which[w]] = v]
    BY <1>4 DEF UnlockDevices, Committed, Scanned
  <2>3. CASE v >= mine[w]
    <3>1. v \in mine[w] .. Len(log)
      BY <1>1, <2>2, <2>3
    <3>2. View!Install(w, which[w])
      BY <2>1, <2>2, <3>1 DEF View!Install
    <3>3. QED
      BY <1>1, <3>2
  <2>4. CASE which[w] = "byId" /\ v = 0
    <3>1. View!Lose(w)
      BY <2>1, <2>2, <2>4 DEF View!Lose
    <3>2. QED
      BY <3>1
  <2>5. QED
    BY <1>1, <2>2, <2>3, <2>4 DEF Owes
<1>5. QED
  BY <1>2, <1>3, <1>4 DEF Refresh

\* The two maps of every deployment keep the promise of DeviceView: only the
\* handler of an edit moves the view of a process, once for each map, and to a
\* state that is not older than its edit.
THEOREM CachesImplementView == Spec => ImplementsDeviceView
<1>1. Init => View!Init
  <2> SUFFICES ASSUME Init PROVE View!Init
    OBVIOUS
  <2>1. Len(log) = 1 /\ ver = [i \in Instances |-> [m \in Maps |-> 0]]
        /\ mine = [w \in Workers |-> 0]
    BY DEF Init
  <2>2. DueNow = [w \in Workers |-> {}]
    BY <2>1 DEF DueNow, Due
  <2>3. QED
    BY <2>1, <2>2 DEF View!Init, View!Nothing, DueNow
<1>2. Typed /\ Locked /\ Committed /\ Owed /\ [Next]_vars => [View!Next]_(View!view_vars)
  <2> SUFFICES ASSUME Typed, Locked, Committed, Owed, [Next]_vars
               PROVE  [View!Next]_(View!view_vars)
    OBVIOUS
  <2>1. CASE UNCHANGED vars
    <3>1. UNCHANGED <<log, ver, mine, pc, which>>
      BY <2>1 DEF vars, dbVars, procVars, reqVars
    <3>2. QED
      BY <3>1, DueStays, Stutters
  <2>2. ASSUME NEW i \in Instances, Boot(i) \/ \E why \in {"off", "fatal"} : Stops(i, why)
        PROVE  [View!Next]_(View!view_vars)
    BY <2>2, BootRefines, StopsRefines DEF View!Next
  <2>3. ASSUME NEW w \in Workers, Outside(w) \/ LockDevices(w) \/ Refresh(w)
        PROVE  [View!Next]_(View!view_vars)
    BY <2>3, OutsideRefines, RefreshRefines DEF View!Next
  <2>4. QED
    BY <2>1, <2>2, <2>3, Steps
<1>3. QED
  BY <1>1, <1>2, CommittedAlways, OwedAlways, PTL DEF Spec, ImplementsDeviceView, View!Spec
=============================================================================
