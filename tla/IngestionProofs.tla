-------------------------- MODULE IngestionProofs --------------------------
(***************************************************************************)
(* The way of a message through a whole process, for every instance.       *)
(*                                                                         *)
(* Every step of Ingestion is a step or a stutter of TagCache, and one of  *)
(* DeviceCaches.  So what is proved of the two parts alone, in             *)
(* TagCacheProofs and DeviceCacheProofs, holds of them here, and the two   *)
(* end-to-end properties need only what ties the parts together: the       *)
(* device that the lookup gave is the one whose rules judge the text.      *)
(***************************************************************************)
EXTENDS Ingestion, TagCacheProofs

DP == INSTANCE DeviceCacheProofs WITH
        messages <- dMessages, proc <- dProc, cache <- dCache, holder <- dHolder,
        pc <- dPc, scan <- dScan, status <- dStatus, mine <- dMine,
        missed <- dMissed, job <- dJob, MaxCommits <- MaxDeviceStates

-----------------------------------------------------------------------------
(* DP is D with its theorems: the same definitions under other names.      *)

LEMMA DeviceAssumptions == DP!DevicesAssumption
  BY IngestionAssumption, CacheAssumption DEF DP!DevicesAssumption

LEMMA SameSize == \A S : D!Cardinality(S) = DP!Cardinality(S)
  BY Zenon DEF D!Cardinality, DP!Cardinality

LEMMA SameInit == D!Init => DP!Init
  BY Zenon DEF D!Init, D!Maps, D!NoScan, D!NoJob, D!NoReport,
     DP!Init, DP!Maps, DP!NoScan, DP!NoJob, DP!NoReport

LEMMA SameStops ==
  ASSUME NEW i, NEW why, D!Stops(i, why)
  PROVE  DP!Stops(i, why)
  BY Zenon DEF D!Stops, D!Reset, D!NoScan, D!NoJob, D!NoReport, D!Maps, D!dbVars,
     DP!Stops, DP!Reset, DP!NoScan, DP!NoJob, DP!NoReport, DP!Maps, DP!dbVars

LEMMA SameProcess ==
  ASSUME NEW i, D!Boot(i) \/ D!Kill(i)
  PROVE  DP!Boot(i) \/ DP!Kill(i)
<1>1. D!Kill(i) => DP!Kill(i)
  BY SameStops, Zenon DEF D!Kill, DP!Kill
<1>2. D!Boot(i) => DP!Boot(i)
  BY Zenon DEF D!Boot, D!Filled, D!SameKey, D!Live, D!dbVars, D!reqVars,
     DP!Boot, DP!Filled, DP!SameKey, DP!Live, DP!dbVars, DP!reqVars
<1>3. QED
  BY <1>1, <1>2

LEMMA SameEdit ==
  ASSUME NEW w, D!Edit(w)
  PROVE  DP!Edit(w)
<1>1. \A t : D!Commits(w, t) => DP!Commits(w, t)
  BY Zenon DEF D!Commits, D!procVars, DP!Commits, DP!procVars
<1>2. \A name, id : D!NameFree(name, id) => DP!NameFree(name, id)
  BY DEF D!NameFree, D!devices, DP!NameFree, DP!devices
<1>3. \A name, address : D!CreateDevice(w, name, address) => DP!CreateDevice(w, name, address)
  BY <1>1, <1>2, SameSize, Zenon DEF D!CreateDevice, D!Idle, D!devices, DP!CreateDevice, DP!Idle, DP!devices
<1>4. \A id, name, address :
        D!UpdateDevice(w, id, name, address) => DP!UpdateDevice(w, id, name, address)
  BY <1>1, <1>2, Zenon DEF D!UpdateDevice, D!Idle, D!devices, DP!UpdateDevice, DP!Idle, DP!devices
<1>5. \A id : D!DeleteDevice(w, id) => DP!DeleteDevice(w, id)
  BY <1>1, Zenon DEF D!DeleteDevice, D!Deleted, D!Idle, D!devices,
     DP!DeleteDevice, DP!Deleted, DP!Idle, DP!devices
<1>6. D!RejectRequest(w) => DP!RejectRequest(w)
  BY Zenon DEF D!RejectRequest, D!Idle, D!dbVars, D!procVars,
     DP!RejectRequest, DP!Idle, DP!dbVars, DP!procVars
<1>7. QED
  BY <1>3, <1>4, <1>5, <1>6, Zenon DEF D!Edit, D!Ids, DP!Edit, DP!Ids

LEMMA SameRefresh ==
  ASSUME NEW w, D!LockDevices(w) \/ D!Refresh(w)
  PROVE  DP!LockDevices(w) \/ DP!Refresh(w)
  BY Zenon DEF D!LockDevices, D!NewMap, D!Refresh, D!ReadDevices, D!GiveUp, D!ReadLost,
     D!AddDevice, D!UnlockDevices, D!Put, D!SameKey, D!AfterUpdate, D!Live, D!NoScan,
     D!Released, D!dbVars, D!procVars,
     DP!LockDevices, DP!NewMap, DP!Refresh, DP!ReadDevices, DP!GiveUp, DP!ReadLost,
     DP!AddDevice, DP!UnlockDevices, DP!Put, DP!SameKey, DP!AfterUpdate, DP!Live, DP!NoScan,
     DP!Released, DP!dbVars, DP!procVars

LEMMA SameLookup ==
  /\ \A i, address : D!DeviceOf(i, address) = DP!DeviceOf(i, address)
  /\ \A i, d : D!NameOf(i, d) = DP!NameOf(i, d)
  /\ \A i, m : D!Gap(i, m) = DP!Gap(i, m) /\ D!Shows(i, m) = DP!Shows(i, m)
  BY Zenon DEF D!DeviceOf, D!NameOf, D!Gap, D!Shows, D!Unknown,
     DP!DeviceOf, DP!NameOf, DP!Gap, DP!Shows, DP!Unknown

LEMMA SameQuery ==
  ASSUME NEW w, D!Query(w)
  PROVE  DP!Query(w)
<1>1. \A address : D!SendMessage(w, address) => DP!SendMessage(w, address)
  BY SameSize, Zenon DEF D!SendMessage, D!DeviceOf, D!Gap, D!Shows, D!Idle, D!dbVars, D!procVars,
     DP!SendMessage, DP!DeviceOf, DP!Gap, DP!Shows, DP!Idle, DP!dbVars, DP!procVars
<1>2. D!BeginReport(w) => DP!BeginReport(w)
  BY Zenon DEF D!BeginReport, D!Idle, D!dbVars, D!procVars,
     DP!BeginReport, DP!Idle, DP!dbVars, DP!procVars
<1>3. \A m : D!MapRace(w, m) => DP!MapRace(w, m)
  BY SameStops, Zenon DEF D!MapRace, DP!MapRace
<1>4. QED
  BY <1>1, <1>2, <1>3, Zenon DEF D!Query, D!Idle, DP!Query, DP!Idle

LEMMA SameFinish ==
  ASSUME NEW w, D!Finish(w)
  PROVE  DP!Finish(w)
  BY SameLookup, Zenon DEF D!Finish, D!StoreMessage, D!NameRow, D!EndReport, D!Reply, D!Reset,
     D!NoScan, D!NoJob, D!NoReport, D!dbVars, D!procVars,
     DP!Finish, DP!StoreMessage, DP!NameRow, DP!EndReport, DP!Reply, DP!Reset,
     DP!NoScan, DP!NoJob, DP!NoReport, DP!dbVars, DP!procVars

LEMMA SameSpec == D!Spec => DP!Spec
<1>1. D!Next => DP!Next
  <2>1. \A i : D!Boot(i) \/ D!Kill(i) => DP!Boot(i) \/ DP!Kill(i)
    BY SameProcess, Zenon
  <2>2. \A w : D!Edit(w) \/ D!LockDevices(w) \/ D!Refresh(w) \/ D!Query(w) \/ D!Finish(w)
                 => DP!Edit(w) \/ DP!LockDevices(w) \/ DP!Refresh(w) \/ DP!Query(w) \/ DP!Finish(w)
    BY SameEdit, SameRefresh, SameQuery, SameFinish, Zenon
  <2>3. QED
    BY <2>1, <2>2, Zenon DEF D!Next, DP!Next
<1>2. [D!Next]_(D!vars) => [DP!Next]_(DP!vars)
  BY <1>1 DEF D!vars, D!dbVars, D!procVars, D!reqVars,
     DP!vars, DP!dbVars, DP!procVars, DP!reqVars
<1>3. QED
  BY <1>2, SameInit, PTL DEF D!Spec, DP!Spec

-----------------------------------------------------------------------------
(* The two parts.                                                          *)

LEMMA DeviceStep ==
  ASSUME [IngestionNext]_<<vars, dVars>>
  PROVE  [D!Next]_(D!vars)
<1>1. UNCHANGED dVars => UNCHANGED D!vars
  BY DEF dVars, D!vars, D!dbVars, D!procVars, D!reqVars
<1>2. ASSUME NEW i \in Instances, BootBoth(i) \/ KillBoth(i) PROVE D!Next
  BY <1>2 DEF BootBoth, KillBoth, D!Next
<1>3. \A w \in Workers : Home[w] \in Instances
  BY CacheAssumption
<1>4. \A w \in Workers : D!Kill(Home[w]) => D!Next
  BY <1>3 DEF D!Next
<1>5. ASSUME NEW w \in Workers, TagRequest(w) PROVE UNCHANGED D!vars
  BY <1>1, <1>5 DEF TagRequest
<1>6. ASSUME NEW w \in Workers, DeviceRequest(w) PROVE D!Next
  BY <1>6 DEF DeviceRequest, D!Next, D!Finish
<1>7. ASSUME NEW w \in Workers, NEW address \in Written, Lookup(w, address) PROVE D!Next
  BY <1>7 DEF Lookup, D!Next, D!Query
<1>8. ASSUME NEW w \in Workers, NEW text, Classify(w, text) PROVE [D!Next]_(D!vars)
  BY <1>1, <1>4, <1>8 DEF Classify
<1>9. ASSUME NEW w \in Workers, Insert(w) \/ ReplyMessage(w) PROVE D!Next
  BY <1>9 DEF Insert, ReplyMessage, D!Next, D!Finish
<1>10. ASSUME NEW w \in Workers, Races(w) PROVE D!Next
  BY <1>4, <1>10 DEF Races, D!Next, D!Query
<1>11. CASE UNCHANGED <<vars, dVars>>
  BY <1>1, <1>11
<1>12. QED
  BY <1>2, <1>5, <1>6, <1>7, <1>8, <1>9, <1>10, <1>11 DEF IngestionNext

\* A state's device ids are among those that can be asked for their rules.
JudgedDevices == \A w \in Workers : dJob[w].device \in 0 .. MaxDeviceStates

LEMMA TagStep ==
  ASSUME JudgedDevices, [IngestionNext]_<<vars, dVars>>
  PROVE  [Next]_vars
<1>1. ASSUME NEW i \in Instances, BootBoth(i) \/ KillBoth(i) PROVE Next
  BY <1>1 DEF BootBoth, KillBoth, Next
<1>2. \A w \in Workers : Home[w] \in Instances
  BY CacheAssumption
<1>3. ASSUME NEW w \in Workers, TagRequest(w) PROVE Next
  BY <1>3 DEF TagRequest, Next, Finish
<1>4. ASSUME NEW w \in Workers, DeviceRequest(w) PROVE UNCHANGED vars
  BY <1>4 DEF DeviceRequest
<1>5. ASSUME NEW w \in Workers, NEW address \in Written, Lookup(w, address) PROVE UNCHANGED vars
  BY <1>5 DEF Lookup
<1>6. ASSUME NEW w \in Workers, NEW m \in Arrivals, Classify(w, m.text) PROVE Next
  <2> DEFINE d == dJob[w].device
             judged == [m EXCEPT !.device = d]
  <2>1. judged \in Arrivals
    BY IngestionAssumption DEF JudgedDevices
  <2>2. judged.device = d /\ judged.text = m.text
    BY CacheAssumption
  <2>3. ReceiveMessage(w, d, m.text)
    BY <1>6 DEF Classify, JudgedDevice
  <2> HIDE DEF judged
  <2>4. ReceiveMessage(w, judged.device, judged.text)
    BY <2>2, <2>3
  <2>5. Message(w)
    BY <2>1, <2>4 DEF Message
  <2>6. QED
    BY <2>5 DEF Next
<1>7. ASSUME NEW w \in Workers, Insert(w) \/ ReplyMessage(w) PROVE Next
  BY <1>7 DEF Insert, ReplyMessage, Next, Finish
<1>8. ASSUME NEW w \in Workers, Races(w) PROVE Next
  BY <1>2, <1>8 DEF Races, Next, Message
<1>9. CASE UNCHANGED <<vars, dVars>>
  BY <1>9
<1>10. QED
  BY <1>1, <1>3, <1>4, <1>5, <1>6, <1>7, <1>8, <1>9 DEF IngestionNext

\* The devices part of Ingestion is DeviceCaches, so its theorems hold.
THEOREM ImplementsDevices == IngestionSpec => D!Spec
<1>1. IngestionInit => D!Init
  BY DEF IngestionInit
<1>2. QED
  BY <1>1, DeviceStep, PTL DEF IngestionSpec, D!Spec

LEMMA DeviceInvariants ==
  IngestionSpec => [](DP!Typed /\ DP!Locked /\ DP!Committed /\ DP!AttributionSound)
  BY ImplementsDevices, SameSpec, DeviceAssumptions, DP!CommittedAlways,
     DP!MessagesAttributed, PTL

LEMMA DevicesJudge == DP!Typed => JudgedDevices
<1>1. SUFFICES ASSUME DP!Typed, NEW w \in Workers PROVE dJob[w].device \in 0 .. MaxDeviceStates
  BY DEF JudgedDevices
<1>2. dJob[w].device \in DP!Ids \cup {0}
  BY <1>1 DEF DP!Typed, DP!TypeOK, DP!Messages
<1>3. MaxDeviceStates \in Nat
  BY IngestionAssumption
<1>4. QED
  BY <1>2, <1>3 DEF DP!Ids

\* The tags part of Ingestion is TagCache, so its theorems hold.
THEOREM ImplementsTags == IngestionSpec => Spec
<1>1. IngestionInit => Init
  BY DEF IngestionInit
<1>2. DP!Typed /\ [IngestionNext]_<<vars, dVars>> => [Next]_vars
  BY DevicesJudge, TagStep
<1>3. QED
  BY <1>1, <1>2, DeviceInvariants, PTL DEF IngestionSpec, Spec

LEMMA TagInvariants == IngestionSpec => [](Typed /\ Loading /\ Sourced /\ AllRuled /\ OrderOnlyPicks)
  BY ImplementsTags, TypedAlways, LoadingAlways, SourcedAlways, RuledAlways, OrderPicks, PTL

-----------------------------------------------------------------------------
(* The two views of a message are of the same message.                     *)

SameMessage(w) == pc[w] = "inserting" =>
  dPc[w] = "inserting" /\ job[w].device = dJob[w].device

Paired ==
  /\ \A w \in Workers : SameMessage(w)
  /\ Len(messages) = Len(dMessages)
  /\ \A k \in DOMAIN messages : messages[k].device = dMessages[k].device

LEMMA PairTypes ==
  ASSUME Typed, DP!Typed
  PROVE  /\ pc \in [Workers -> Stages] /\ job \in [Workers -> Jobs] /\ messages \in Seq(Jobs)
         /\ dPc \in [Workers -> {"idle", "read", "wait", "fill", "inserting", "naming", "reply"}]
         /\ dJob \in [Workers -> DP!Messages] /\ dMessages \in Seq(DP!Messages)
  BY DEF Typed, TypeOK, DP!Typed, DP!TypeOK

LEMMA SeqDomain ==
  ASSUME NEW S, NEW list \in Seq(S)
  PROVE  DOMAIN list = 1 .. Len(list)
  OBVIOUS

\* Nobody starts an insert, and who is at one goes on with its message.
LEMMA PairedStays ==
  ASSUME Paired, UNCHANGED <<messages, dMessages>>,
         \A w \in Workers : pc'[w] = "inserting" =>
           /\ pc[w] = "inserting" /\ job'[w] = job[w]
           /\ dPc'[w] = dPc[w] /\ dJob'[w] = dJob[w]
  PROVE  Paired'
  BY DEF Paired, SameMessage

\* A process ends in both parts.
LEMMA KillPaired ==
  ASSUME Paired, NEW i \in Instances, NEW why, Stops(i, why), D!Kill(i)
  PROVE  Paired'
<1>1. UNCHANGED <<messages, dMessages>>
  BY DEF Stops, D!Kill, D!Stops, D!dbVars
<1>2. ASSUME NEW w \in Workers, pc'[w] = "inserting"
      PROVE  pc[w] = "inserting" /\ job'[w] = job[w] /\ dPc'[w] = dPc[w] /\ dJob'[w] = dJob[w]
  <2>1. Home[w] # i /\ pc[w] = "inserting" /\ job'[w] = job[w]
    BY <1>2 DEF Stops
  <2>2. dPc'[w] = dPc[w] /\ dJob'[w] = dJob[w]
    BY <2>1 DEF D!Kill, D!Stops, D!Reset
  <2>3. QED
    BY <2>1, <2>2
<1>3. QED
  BY <1>1, <1>2, PairedStays

LEMMA TagRequestPaired ==
  ASSUME Typed, DP!Typed, Paired, NEW w \in Workers, TagRequest(w)
  PROVE  Paired'
<1>1. pc[w] # "inserting" /\ UNCHANGED <<dMessages, dPc, dJob>>
  BY DEF TagRequest, dVars, Paired, SameMessage
<1>2. /\ UNCHANGED messages
      /\ pc' = pc \/ \E stage \in Stages \ {"inserting"} : pc' = [pc EXCEPT ![w] = stage]
      /\ job' = job \/ job' = [job EXCEPT ![w] = NoJob]
  <2>1. CASE Edit(w)
    BY <2>1 DEF Edit, CreateTag, UpdateTag, DeleteTag, RejectTag, EditTags, Stages, Refreshing
  <2>2. CASE LockTags(w) \/ Refresh(w)
    BY <2>2 DEF Refresh, LockTags, BeginRefresh, BeginFails, ReadTags, ReadFails,
       AppendTag, Unlock, EndRefresh, Stages, Refreshing
  <2>3. CASE Reply(w)
    BY <2>3 DEF Reply, Fresh, Stages
  <2>4. QED
    BY <2>1, <2>2, <2>3 DEF TagRequest
<1>3. ASSUME NEW v \in Workers, pc'[v] = "inserting"
      PROVE  pc[v] = "inserting" /\ job'[v] = job[v]
  BY <1>1, <1>2, <1>3, PairTypes
<1>4. QED
  BY <1>1, <1>2, <1>3, PairedStays

LEMMA DeviceRequestPaired ==
  ASSUME Typed, DP!Typed, Paired, NEW w \in Workers,
         DeviceRequest(w) \/ \E address \in Written : Lookup(w, address)
  PROVE  Paired'
<1>1. pc[w] = "idle" /\ UNCHANGED <<messages, pc, job>>
  BY DEF DeviceRequest, Lookup, vars
<1>2. /\ UNCHANGED dMessages
      /\ \A v \in Workers : v # w => dPc'[v] = dPc[v] /\ dJob'[v] = dJob[v]
  <2>1. CASE D!Edit(w)
    BY <2>1, PairTypes DEF D!Edit, D!CreateDevice, D!UpdateDevice, D!DeleteDevice,
       D!RejectRequest, D!Commits, D!dbVars, D!procVars
  <2>2. CASE D!LockDevices(w) \/ D!Refresh(w)
    BY <2>2, PairTypes DEF D!LockDevices, D!Refresh, D!ReadDevices, D!GiveUp, D!ReadLost,
       D!AddDevice, D!UnlockDevices, D!AfterUpdate, D!dbVars, D!procVars
  <2>3. CASE D!Reply(w)
    BY <2>3 DEF D!Reply, D!Reset, D!dbVars
  <2>4. CASE \E address : D!SendMessage(w, address)
    BY <2>4, PairTypes DEF D!SendMessage, D!dbVars
  <2>5. QED
    BY <2>1, <2>2, <2>3, <2>4 DEF DeviceRequest, Lookup
<1>3. QED
  BY <1>1, <1>2, PairedStays

LEMMA ClassifyPaired ==
  ASSUME Typed, DP!Typed, Paired, NEW w \in Workers, NEW text, Classify(w, text)
  PROVE  Paired'
<1> DEFINE d == dJob[w].device
           verdict == HandleMessage(cache[Home[w]][d], text)
<1>1. /\ Home[w] \in Instances /\ d \in DeviceIds /\ proc \in [Instances -> Down \cup {"up"}]
      /\ cache \in [Instances -> [DeviceIds -> Seq(Row)]]
  BY DevicesJudge, IngestionAssumption, MapTypes, CacheAssumption DEF JudgedDevices, Typed, TypeOK
<1>2. verdict \in Verdicts
  BY <1>1, VerdictType
<1>3. ReceiveMessage(w, d, text) /\ dPc[w] = "inserting"
  BY DEF Classify, JudgedDevice
<1>4. CASE verdict.end = "stored"
  <2>1. /\ pc' = [pc EXCEPT ![w] = "inserting"] /\ messages' = messages /\ proc' = proc
        /\ job' = [job EXCEPT ![w] =
             [device |-> d, text |-> text, verdict |-> verdict,
              complete |-> HandleMessage(Grouped(Snapshot(Home[w]))[d], text),
              overlap |-> InRefresh(Home[w])]]
        /\ proc[Home[w]] = "up"
    BY <1>3, <1>4 DEF ReceiveMessage, Idle
  <2>2. UNCHANGED <<dMessages, dPc, dJob>>
    BY <2>1 DEF Classify, dVars
  <2> HIDE DEF verdict
  <2>3. pc'[w] = "inserting" /\ job'[w].device = d
    BY <2>1, PairTypes
  <2>4. \A v \in Workers : v # w => pc'[v] = pc[v] /\ job'[v] = job[v]
    BY <2>1, PairTypes
  <2>5. \A v \in Workers : SameMessage(v)'
    BY <1>3, <2>2, <2>3, <2>4 DEF Paired, SameMessage
  <2>6. QED
    BY <2>1, <2>2, <2>5 DEF Paired
<1>5. CASE verdict.end # "stored"
  <2>1. Stops(Home[w], verdict.end)
    BY <1>3, <1>5 DEF ReceiveMessage
  <2>2. verdict.end # "up"
    BY <1>2 DEF Verdicts
  <2> HIDE DEF verdict
  <2>3. proc'[Home[w]] = verdict.end
    BY <1>1, <2>1 DEF Stops
  <2>4. D!Kill(Home[w])
    BY <2>2, <2>3 DEF Classify
  <2>5. QED
    BY <1>1, <2>1, <2>4, KillPaired
<1>6. QED
  BY <1>4, <1>5

LEMMA InsertPaired ==
  ASSUME Typed, DP!Typed, Paired, NEW w \in Workers, Insert(w)
  PROVE  Paired'
<1>1. /\ pc' = [pc EXCEPT ![w] = "reply"] /\ UNCHANGED <<job, dJob>> /\ pc[w] = "inserting"
      /\ dPc' = [dPc EXCEPT ![w] = "reply"]
  BY DEF Insert, StoreFails, StoreMessage, D!StoreMessage
<1>2. \A v \in Workers : SameMessage(v)'
  BY <1>1, PairTypes DEF Paired, SameMessage
<1>3. messages \in Seq(Jobs) /\ dMessages \in Seq(DP!Messages) /\ Len(messages) = Len(dMessages)
  BY PairTypes DEF Paired
<1>4. CASE dMessages' = dMessages
  <2>1. messages' = messages
    BY <1>4 DEF Insert, StoreFails
  <2>2. QED
    BY <1>2, <1>4, <2>1 DEF Paired
<1>5. CASE dMessages' # dMessages
  <2>1. messages' = Append(messages, job[w]) /\ dMessages' = Append(dMessages, dJob[w])
    BY <1>5 DEF Insert, StoreMessage, D!StoreMessage
  <2>2. job[w].device = dJob[w].device
    BY <1>1 DEF Paired, SameMessage
  <2>3. /\ Len(messages') = Len(messages) + 1 /\ Len(dMessages') = Len(dMessages) + 1
        /\ \A k \in 1 .. Len(messages) : messages'[k] = messages[k] /\ dMessages'[k] = dMessages[k]
        /\ messages'[Len(messages) + 1] = job[w] /\ dMessages'[Len(messages) + 1] = dJob[w]
        /\ DOMAIN messages' = 1 .. Len(messages) + 1 /\ DOMAIN messages = 1 .. Len(messages)
    BY <1>3, <2>1, PairTypes
  <2>4. ASSUME NEW k \in DOMAIN messages' PROVE messages'[k].device = dMessages'[k].device
    <3>1. Len(messages) \in Nat
      BY <1>3
    <3>2. k \in 1 .. Len(messages) \/ k = Len(messages) + 1
      BY <2>3, <2>4, <3>1
    <3>3. QED
      BY <2>2, <2>3, <3>2 DEF Paired
  <2>5. QED
    BY <1>2, <1>3, <2>3, <2>4 DEF Paired
<1>6. QED
  BY <1>4, <1>5

LEMMA ReplyPaired ==
  ASSUME Typed, DP!Typed, Paired, NEW w \in Workers, ReplyMessage(w)
  PROVE  Paired'
<1>1. /\ pc' = [pc EXCEPT ![w] = "idle"] /\ job' = [job EXCEPT ![w] = NoJob]
      /\ UNCHANGED <<messages, dMessages>>
      /\ \A v \in Workers : v # w => dPc'[v] = dPc[v] /\ dJob'[v] = dJob[v]
  BY DEF ReplyMessage, Reply, Fresh, D!Reply, D!Reset, D!dbVars
<1>2. QED
  BY <1>1, PairTypes, PairedStays

LEMMA NextPaired ==
  ASSUME Typed, DP!Typed, Paired, [IngestionNext]_<<vars, dVars>>
  PROVE  Paired'
<1>1. CASE UNCHANGED <<vars, dVars>>
  BY <1>1, PairedStays DEF vars, dVars
<1>2. ASSUME NEW i \in Instances, BootBoth(i) PROVE Paired'
  BY <1>2, PairedStays DEF BootBoth, Boot, D!Boot, D!dbVars, D!reqVars
<1>3. ASSUME NEW i \in Instances, KillBoth(i) PROVE Paired'
  BY <1>3, KillPaired DEF KillBoth, Kill
<1>4. ASSUME NEW w \in Workers, Races(w) PROVE Paired'
  <2>1. CASE MapRace(w) /\ D!Kill(Home[w])
    BY <2>1, CacheAssumption, KillPaired DEF MapRace
  <2>2. CASE D!MapRace(w, "byIp") /\ Kill(Home[w])
    <3>1. UNCHANGED <<messages, dMessages>>
      BY <2>2 DEF D!MapRace, D!Stops, D!dbVars, Kill, Stops
    <3>2. ASSUME NEW v \in Workers, pc'[v] = "inserting"
          PROVE  pc[v] = "inserting" /\ job'[v] = job[v] /\ dPc'[v] = dPc[v] /\ dJob'[v] = dJob[v]
      <4>1. Home[v] # Home[w] /\ pc[v] = "inserting" /\ job'[v] = job[v]
        BY <2>2, <3>2 DEF Kill, Stops
      <4>2. dPc'[v] = dPc[v] /\ dJob'[v] = dJob[v]
        BY <2>2, <4>1 DEF D!MapRace, D!Stops, D!Reset
      <4>3. QED
        BY <4>1, <4>2
    <3>3. QED
      BY <3>1, <3>2, PairedStays
  <2>3. QED
    BY <1>4, <2>1, <2>2 DEF Races
<1>5. QED
  BY <1>1, <1>2, <1>3, <1>4, TagRequestPaired, DeviceRequestPaired, ClassifyPaired,
     InsertPaired, ReplyPaired DEF IngestionNext

LEMMA PairedAlways == IngestionSpec => []Paired
<1>1. IngestionInit => Paired
  BY DEF IngestionInit, Init, D!Init, Paired, SameMessage
<1>2. Typed /\ DP!Typed /\ Paired /\ [IngestionNext]_<<vars, dVars>> => Paired'
  BY NextPaired
<1>3. QED
  BY <1>1, <1>2, TagInvariants, DeviceInvariants, PTL DEF IngestionSpec

-----------------------------------------------------------------------------
(* End to end.                                                             *)

\* A severity comes from a rule of a device that had the sender's address in
\* one committed state; or the sender is nobody's, and an update of a tag that
\* leaves the device out has made the rule one of device 0.
THEOREM Classified == IngestionSpec => []ClassifiedHadOwner
<1>1. ASSUME Typed, DP!Typed, Paired, AllRuled, DP!AttributionSound PROVE ClassifiedHadOwner
  <2> SUFFICES ASSUME NEW k \in DOMAIN messages, messages[k].verdict.severity # ""
               PROVE  \/ \E r \in D!Live(dMessages[k].version) : r.address = dMessages[k].address
                      \/ /\ messages[k].device = 0
                         /\ \E t \in Edits : t.device = 0 /\ t.severity = messages[k].verdict.severity
    BY DEF ClassifiedHadOwner
  <2>1. k \in DOMAIN dMessages /\ messages[k].device = dMessages[k].device
    <3>1. DOMAIN messages = 1 .. Len(messages) /\ DOMAIN dMessages = 1 .. Len(dMessages)
      BY <1>1, PairTypes, SeqDomain
    <3>2. QED
      BY <1>1, <3>1 DEF Paired
  <2>2. PICK t \in Creates \cup Edits :
          t.device = messages[k].device /\ t.severity = messages[k].verdict.severity
    BY <1>1 DEF AllRuled, Ruled
  <2>3. CASE messages[k].device = 0
    <3>1. t \in Edits
      BY <2>2, <2>3, CacheAssumption DEF ValidCreate
    <3>2. QED
      BY <2>2, <2>3, <3>1
  <2>4. CASE messages[k].device # 0
    <3>1. dMessages[k].device \in
            {r.id : r \in {s \in DP!Live(dMessages[k].version) : s.address = dMessages[k].address}}
      BY <1>1, <2>1, <2>4 DEF DP!AttributionSound, DP!Attributed
    <3>2. QED
      BY <3>1 DEF D!Live, DP!Live
  <2>5. QED
    BY <2>3, <2>4
<1>2. QED
  BY <1>1, PairedAlways, TagInvariants, DeviceInvariants, PTL

\* A map that shows the table turns an address into a live device that has it,
\* and into 0 only if there is none.
LEMMA FreshLookup ==
  ASSUME DP!Typed, DP!Committed, NEW i \in Instances, NEW address,
         dHolder[i]["byIp"] = NoWorker, ver[i]["byIp"] = Len(log)
  PROVE  LET owners == {r.id : r \in {s \in D!Live(Len(log)) : s.address = address}}
         IN \E d \in IF owners = {} THEN {0} ELSE owners : D!DeviceOf(i, address) = {d}
<1> DEFINE map == dCache[i]["byIp"]
           rows == DP!Live(Len(log))
           found == {r \in map : r.address = address}
<1>1. map \in DP!Filled("byIp", rows)
  BY DEF DP!Committed, DP!Holds, DP!Maps
<1> HIDE DEF map, rows
<1>2. /\ map \subseteq rows
      /\ \A r \in rows : \E s \in map : r.address = s.address
      /\ \A r, s \in map : r.address = s.address => r = s
  BY <1>1 DEF DP!Filled, DP!SameKey
<1>3. CASE found = {}
  <2>1. {s \in rows : s.address = address} = {}
    BY <1>2, <1>3
  <2>2. D!DeviceOf(i, address) = {0}
    BY <1>3 DEF D!DeviceOf, map
  <2>3. QED
    BY <2>1, <2>2 DEF rows, D!Live, DP!Live
<1>4. CASE found # {}
  <2>1. PICK r \in map : r.address = address
    BY <1>4
  <2>2. found = {r}
    BY <1>2, <2>1
  <2>3. D!DeviceOf(i, address) = {r.id}
    BY <2>2 DEF D!DeviceOf, map
  <2>4. r \in {s \in rows : s.address = address}
    BY <1>2, <2>1
  <2>5. QED
    BY <2>3, <2>4 DEF rows, D!Live, DP!Live
<1>5. QED
  BY <1>3, <1>4

\* Once both maps show the tables as they are, a message is judged by a rule
\* of a device that has its sender's address, if one matches, and by no other.
THEOREM FreshClassify == IngestionSpec => []FreshMapsClassify
<1>1. ASSUME DP!Typed, DP!Committed, Typed, Sourced, OrderOnlyPicks PROVE FreshMapsClassify
  <2> SUFFICES ASSUME NEW i \in Instances, NEW address \in Written, NEW text \in Texts, UpToDate(i)
               PROVE  LET owners == {r.id : r \in {s \in D!Live(Len(log)) : s.address = address}}
                      IN \E d \in IF owners = {} THEN {0} ELSE owners :
                           LET rules   == {r \in table : r \in Deciders(<<r>>, d, text)}
                               verdict == HandleMessage(cache[i][d], text)
                           IN /\ D!DeviceOf(i, address) = {d}
                              /\ IF rules = {} THEN verdict = Unmatched
                                 ELSE verdict \in {Judge(r.tag, Found(r, text)) : r \in rules}
    BY DEF FreshMapsClassify
  <2> DEFINE owners == {r.id : r \in {s \in D!Live(Len(log)) : s.address = address}}
             choices == IF owners = {} THEN {0} ELSE owners
  <2>1. PICK d \in choices : D!DeviceOf(i, address) = {d}
    BY <1>1, FreshLookup DEF UpToDate
  <2>2. d \in DeviceIds
    <3>1. MaxDeviceStates \in Nat /\ 0 .. MaxDeviceStates \subseteq DeviceIds
      BY IngestionAssumption
    <3>2. \A r \in DP!Live(Len(log)) : r.id \in 1 .. MaxDeviceStates
      BY <1>1 DEF DP!Typed, DP!TypeOK, DP!Live, DP!Row, DP!Ids
    <3>3. D!Live(Len(log)) = DP!Live(Len(log))
      BY DEF D!Live, DP!Live
    <3>4. d = 0 \/ \E r \in D!Live(Len(log)) : d = r.id
      BY <2>1
    <3> HIDE DEF choices, owners
    <3>5. QED
      BY <3>1, <3>2, <3>3, <3>4
  <2>3. ~ InRefresh(i) /\ ToSet(shown[i].rows) = table
    BY <1>1 DEF UpToDate, Sourced, ReadOf
  <2> DEFINE rules   == {r \in table : r \in Deciders(<<r>>, d, text)}
             verdict == HandleMessage(cache[i][d], text)
  <2>4. rules = Deciders(shown[i].rows, d, text)
    <3>1. \A r : ToSet(<<r>>) = {r}
      BY DEF ToSet
    <3>2. QED
      BY <2>3, <3>1 DEF Deciders
  <2>5. IF rules = {} THEN verdict = Unmatched
        ELSE verdict \in {Judge(r.tag, Found(r, text)) : r \in rules}
    <3> HIDE DEF rules
    <3>1. QED
      BY <1>1, <2>2, <2>3, <2>4 DEF OrderOnlyPicks
  <2> HIDE DEF choices, rules, verdict
  <2>6. QED
    BY <2>1, <2>5 DEF choices, rules, verdict
<1>2. QED
  BY <1>1, TagInvariants, DeviceInvariants, PTL
=============================================================================
