----------------------------- MODULE MCCloser -----------------------------
(* The closer with three functions, of which any may fail or hang.         *)
EXTENDS Closer

MCFuncs == <<"f1", "f2", "f3">>
=============================================================================
