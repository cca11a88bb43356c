---------------------------- MODULE MCIngestion ----------------------------
(* One process, two requests at a time: a device and its rule come and go     *)
(* while a message from its address, then perhaps nobody's, is on its way.    *)
EXTENDS Ingestion

CONSTANTS i1, w1, w2

MCInstances == {i1}
MCWorkers   == {w1, w2}
MCHome      == [w \in Workers |-> i1]
Clones      == Permutations(Workers)

MCTexts    == {"", "a", "b", "e", "crit"}
MCDevices  == {0, 1, 2}
MCCompiles == {"e"}
MCFind     == [p \in MCCompiles |-> [t \in MCTexts |-> IF t = p THEN <<p, p>> ELSE <<>>]]
MCFloat    == [t \in MCTexts |-> 0]

MCCreates  == {[name |-> "a", device |-> 1, pattern |-> "e", cmp |-> "=", value |-> "e",
                index |-> 1, severity |-> "crit"]}
MCEdits    == {[name |-> "a", device |-> 0, pattern |-> "e", cmp |-> "=", value |-> "e",
                index |-> 1, severity |-> "crit"]}
MCArrivals == [device: MCDevices, text: {"e"}]

MCNames    == {"", "a"}
MCWritten  == {"::1"}
MCInet     == [a \in Written |-> a]

\* What the two properties and the guards read.  Left out are history variables
\* that only their own updates read: the promises to clients and their refreshes.
Observed == <<table, version, messages, proc, cache, holder, shown, wiped,
              pc, todo, scan, status, job,
              log, dMessages, dProc, dCache, dHolder, ver,
              dPc, which, dScan, dStatus, dJob, report>>
=============================================================================
