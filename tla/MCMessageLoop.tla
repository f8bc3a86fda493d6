--------------------------- MODULE MCMessageLoop ----------------------------
(* Model-checking instance of MessageLoop.                                   *)
EXTENDS MessageLoop
=============================================================================
