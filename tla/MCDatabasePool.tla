--------------------------- MODULE MCDatabasePool ---------------------------
(* One or two asynchronous connections. *)
EXTENDS DatabasePool

CONSTANTS w1, w2
=============================================================================
