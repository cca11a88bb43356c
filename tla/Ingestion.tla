----------------------------- MODULE Ingestion -----------------------------
(***************************************************************************)
(* The whole way of a message through a process: POST /messages/send_msg   *)
(* turns the sender's address into a device id with the devices map of     *)
(* DeviceCaches, judges the text by that device's rules with the tags map  *)
(* of TagCache, and inserts the row.  Both maps are edited and refreshed   *)
(* meanwhile, each by its own handlers, and are lost together.             *)
(*                                                                         *)
(* The module extends TagCache, whose variables keep their names, and      *)
(* instantiates DeviceCaches with variables of its own.  A worker that     *)
(* serves a message is in both; with any other request it is in one and    *)
(* idle in the other.  Every step is one of each part, or a stutter of it: *)
(* what holds of a part alone holds of it here.  A panic or a map race     *)
(* ends a process for both; the part it is not in sees the process killed. *)
(***************************************************************************)
EXTENDS TagCache

CONSTANTS
  Names, Written, Inet,  \* of DeviceCaches
  MaxDeviceStates        \* bound: states of the devices table

\* An id that the devices table may give, or 0, can be asked for its rules; the
\* sender chooses the text, whatever device its address turns out to be.
ASSUME IngestionAssumption ==
  /\ "" \in Names /\ "" \notin Written
  /\ Inet \in [Written -> Written] /\ \A a \in Written : Inet[Inet[a]] = Inet[a]
  /\ MaxDeviceStates \in Nat \ {0} /\ 0 .. MaxDeviceStates \subseteq DeviceIds
  /\ \A m \in Arrivals, d \in 0 .. MaxDeviceStates : [m EXCEPT !.device = d] \in Arrivals

VARIABLES
  log, dMessages, dProc, dCache, dHolder, ver, peak,
  dPc, which, dScan, dStatus, dMine, dMissed, dJob, report

D == INSTANCE DeviceCaches WITH
       messages <- dMessages, proc <- dProc, cache <- dCache, holder <- dHolder,
       pc <- dPc, scan <- dScan, status <- dStatus, mine <- dMine,
       missed <- dMissed, job <- dJob, MaxCommits <- MaxDeviceStates

dVars == <<log, dMessages, dProc, dCache, dHolder, ver, peak,
           dPc, which, dScan, dStatus, dMine, dMissed, dJob, report>>

IngestionInit == Init /\ D!Init

-----------------------------------------------------------------------------
(* The process.                                                            *)

BootBoth(i) == Boot(i) /\ D!Boot(i)
KillBoth(i) == Kill(i) /\ D!Kill(i)

\* A request that concerns one table only.
TagRequest(w) ==
  /\ dPc[w] = "idle"
  /\ Edit(w) \/ LockTags(w) \/ Refresh(w) \/ Reply(w)
  /\ UNCHANGED dVars

DeviceRequest(w) ==
  /\ pc[w] = "idle"
  /\ D!Edit(w) \/ D!LockDevices(w) \/ D!Refresh(w) \/ D!Reply(w)
  /\ UNCHANGED vars

-----------------------------------------------------------------------------
(* A message.                                                              *)

Lookup(w, address) == pc[w] = "idle" /\ D!SendMessage(w, address) /\ UNCHANGED vars

\* The rules of the device that the lookup gave, which may be 0, or a former
\* owner of the address by now; not those of any device.
AnyDevice(w)    == CHOOSE d \in DeviceIds : d # 0
JudgedDevice(w) == dJob[w].device

Classify(w, text) ==
  /\ dPc[w] = "inserting"
  /\ ReceiveMessage(w, JudgedDevice(w), text)
  /\ IF proc'[Home[w]] = "up" THEN UNCHANGED dVars ELSE D!Kill(Home[w])

Insert(w) ==
  /\ D!StoreMessage(w)
  /\ IF dMessages' = dMessages THEN StoreFails(w) ELSE StoreMessage(w)

ReplyMessage(w) == Reply(w) /\ D!Reply(w)

\* Either map is read while it is written: the process ends.
Races(w) ==
  \/ dPc[w] = "inserting" /\ MapRace(w) /\ D!Kill(Home[w])
  \/ pc[w] = "idle" /\ D!Idle(w) /\ D!MapRace(w, "byIp") /\ Kill(Home[w])

-----------------------------------------------------------------------------

IngestionNext ==
  \/ \E i \in Instances : BootBoth(i) \/ KillBoth(i)
  \/ \E w \in Workers :
       \/ TagRequest(w) \/ DeviceRequest(w)
       \/ \E address \in Written : Lookup(w, address)
       \/ \E m \in Arrivals : Classify(w, m.text)
       \/ Insert(w) \/ ReplyMessage(w) \/ Races(w)

IngestionSpec == IngestionInit /\ [][IngestionNext]_<<vars, dVars>>

-----------------------------------------------------------------------------
(* Properties.                                                             *)

\* Through both unlocked lookups, with either map stale, empty or half full:
\* a message is given a severity only if a device had its sender's address in
\* one committed state, or if it is nobody's and an update of a tag, one that
\* leaves its device out, has made a rule of device 0 with that severity.
ClassifiedHadOwner ==
  \A k \in DOMAIN messages :
    messages[k].verdict.severity # "" =>
      \/ \E r \in D!Live(dMessages[k].version) : r.address = dMessages[k].address
      \/ /\ messages[k].device = 0
         /\ \E t \in Edits : t.device = 0 /\ t.severity = messages[k].verdict.severity

\* The process shows the tables as they are, and no refresh is under way.
UpToDate(i) ==
  /\ proc[i] = "up" /\ ~ InRefresh(i) /\ shown[i].version = version
  /\ dHolder[i]["byIp"] = NoWorker /\ ver[i]["byIp"] = Len(log)

\* End to end: once both maps show the tables as they are, a message from the
\* address of a live device is judged by a rule that the tags table now has
\* for a device of that address, if one matches, and by none that it had.
FreshMapsClassify ==
  \A i \in Instances, address \in Written, text \in Texts : UpToDate(i) =>
    LET owners == {r.id : r \in {s \in D!Live(Len(log)) : s.address = address}}
    IN \E d \in IF owners = {} THEN {0} ELSE owners :
         LET rules   == {r \in table : r \in Deciders(<<r>>, d, text)}
             verdict == HandleMessage(cache[i][d], text)
         IN /\ D!DeviceOf(i, address) = {d}
            /\ IF rules = {} THEN verdict = Unmatched
               ELSE verdict \in {Judge(r.tag, Found(r, text)) : r \in rules}
=============================================================================
