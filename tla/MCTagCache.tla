----------------------------- MODULE MCTagCache -----------------------------
(* Finite instances of TagCache: two devices' rules that overlap on the same  *)
(* text, edits that make a rule unusable or make it crash its process.        *)
EXTENDS TagCache

CONSTANTS i1, i2, w1, w2, w3

OneProcess  == {i1}
TwoProcess  == {i1, i2}
TwoWorkers  == {w1, w2}
ThreeWorkers == {w1, w2, w3}
HomeOne == [w \in Workers |-> i1]
HomeTwo == [w \in Workers |-> IF w = w3 THEN i2 ELSE i1]
Clones  == Permutations(Workers)

MCTexts    == {"", "a", "b", "(e)", "e", "down", "e down", "warn", "crit"}
MCDevices  == {0, 1}
MCCompiles == {"", "(e)", "down"}

\* "(e)" captures one group, "down" none; the empty pattern matches everything.
MCFind ==
  [p \in MCCompiles |-> [t \in MCTexts |->
     IF p = "" THEN <<"">>
     ELSE IF p = "(e)" /\ t \in {"e", "e down"} THEN <<"e", "e">>
     ELSE IF p = "down" /\ t \in {"down", "e down"} THEN <<"down">>
     ELSE <<>>]]

MCFloat == [t \in MCTexts |-> 0]

Rule(name, pattern, cmp, value, index, severity) ==
  [name |-> name, device |-> 1, pattern |-> pattern, cmp |-> cmp,
   value |-> value, index |-> index, severity |-> severity]

\* Two rules that match the same message and disagree on its severity.
MCCreates == {Rule("a", "(e)", "=", "e", 1, "crit"), Rule("b", "(e)", "=", "e", 1, "warn")}

\* An edit of the name alone empties the rest.
Renamed == [name |-> "a", device |-> 0, pattern |-> "", cmp |-> "", value |-> "",
            index |-> 0, severity |-> ""]
\* A capture group that the regexp does not have.
Ungrouped == Rule("b", "down", "=", "e", 1, "warn")
MCEdits == {Renamed, Ungrouped}

MCArrivals == {[device |-> 1, text |-> "e down"]}

\* A threshold: captured text above the value.
MCThreshold == {Rule("a", "(e)", ">", "a", 1, "crit")}
MCFloatE    == [t \in MCTexts |-> IF t = "e" THEN 1 ELSE 0]
None    == {}
OneEdit == {Renamed}
OneRule == {Rule("a", "(e)", "=", "e", 1, "crit")}
=============================================================================
