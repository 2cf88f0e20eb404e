---------------------------- MODULE MCMPSCQueue ----------------------------
(* Three producers over a heap of four nodes: addresses are reused. *)
EXTENDS MPSCQueue, TLC

CONSTANTS p1, p2, p3, n1, n2, n3, n4, v1, v2

MCProducers == {p1, p2, p3}
MCNodes     == {n1, n2, n3, n4}
MCValues    == {v1, v2}
=============================================================================
