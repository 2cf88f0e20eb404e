-------------------------- MODULE MCThreadPoolMap --------------------------
(* Two workers of one map and a handful of tasks. *)
EXTENDS ThreadPoolMap, TLC

CONSTANTS w1, w2

MCWorkers == {w1, w2}
=============================================================================
