--------------------------- MODULE MCMigrations ---------------------------
(* Two processes that start together, with a backend each.                 *)
EXTENDS Migrations

CONSTANTS p1, p2, b1, b2

MCProcesses == {p1, p2}
MCBackends  == {b1, b2}
MCOwn       == [p \in MCProcesses |-> IF p = p1 THEN b1 ELSE b2]
=============================================================================
