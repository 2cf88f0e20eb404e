---------------------------- MODULE MCLoginQueue ----------------------------
(* Small instances of LoginQueue.  The account a can reconnect once; b1    *)
(* and c1 are the only sessions of theirs.                                 *)
EXTENDS LoginQueue, TLC

CONSTANTS a, b, c, a1, a2, b1, c1

MCSessions == {a1, a2, b1, c1}
MCAccountOf == (a1 :> a) @@ (a2 :> a) @@ (b1 :> b) @@ (c1 :> c)
(* Players only, or the account that reconnects is the staff's.           *)
MCStaffSets == {{}, {a}}

(* The players b and c are interchangeable, with their sessions.           *)
Symmetry == {(b :> c) @@ (c :> b) @@ (b1 :> c1) @@ (c1 :> b1)}
=============================================================================
