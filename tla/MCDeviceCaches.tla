--------------------------- MODULE MCDeviceCaches ---------------------------
(* Finite instances of DeviceCaches: two spellings of one address, devices    *)
(* that may share it, and edits that overlap.                                 *)
EXTENDS DeviceCaches, TLC

CONSTANTS i1, w1, w2

OneProcess   == {i1}
TwoWorkers   == {w1, w2}
HomeOne == [w \in Workers |-> i1]
Clones  == Permutations(Workers)

MCNames   == {"", "router", Unknown}
OneName   == {"", "router"}
MCWritten == {"::1", "0:0::1"}
MCInet    == [a \in Written |-> "::1"]
OneSpelling == {"::1"}
=============================================================================
