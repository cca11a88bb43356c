----------------------------- MODULE MCReports -----------------------------
(* A month of one day of two ticks, so that its edges are soon reached.    *)
EXTENDS Reports, TLC

Interchangeable == Permutations(Devices) \cup Permutations(Types) \cup Permutations(Components)
=============================================================================
