---------------------------- MODULE MCLifeCycle ----------------------------
(* Two requests and the countdowns of a stop, for TLC.                     *)
EXTENDS LifeCycle
=============================================================================
