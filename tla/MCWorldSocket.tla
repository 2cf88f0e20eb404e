--------------------------- MODULE MCWorldSocket ---------------------------
(* Which packets do not fit in a send buffer, and which memories. *)
EXTENDS WorldSocket

CONSTANTS s1

MCSettings == {[big |-> {3}, late |-> TRUE], [big |-> {}, late |-> FALSE]}
MCInOrder  == {[big |-> {}, late |-> FALSE]}
MCLate     == {[big |-> {}, late |-> TRUE]}
=============================================================================
