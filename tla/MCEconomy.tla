------------------------------ MODULE MCEconomy ------------------------------
(* Two or three players; the scenarios differ in what may happen, so that   *)
(* each handler meets the others, the pending transactions, a logout and a  *)
(* crash.  All of them start with the same total of money.                  *)
EXTENDS Economy, TLC
CONSTANTS p1, p2, p3, i1, i2, a1, a2

MCPlayers == {p1, p2, p3}
MCItems == {i1, i2}
MCMailIds == 1..3
MCLots == {a1, a2}
MCSpace == p1 :> 2 @@ p2 :> 1 @@ p3 :> 1
MCGold == {0, 1}
MCDemands == {0, 1, 3}
MCGameMasters == {p2}

MCSteps(trade_, mail_, auction_, world_, login_, logout_, crash_) ==
    [trade |-> trade_, mail |-> mail_, auction |-> auction_, world |-> world_,
     login |-> login_, logout |-> logout_, crash |-> crash_]
MCStart(in, m1, m2, its, left_) ==
    [online |-> in, money |-> p1 :> m1 @@ p2 :> m2 @@ p3 :> 7 - m1 - m2,
     owner |-> [i \in MCItems |-> IF i \in its THEN p1 ELSE p2],
     left |-> left_]
MCStarts ==
    {MCStart({p1, p2}, 4, 1, {i1, i2}, MCSteps(6, 0, 0, 0, 0, 0, 0)),
     MCStart({p1, p2}, 2, 1, {i1}, MCSteps(4, 1, 0, 0, 0, 0, 0)),
     MCStart({p1, p2}, 2, 1, {i1}, MCSteps(3, 0, 0, 1, 0, 1, 1)),
     MCStart({p1, p2}, 3, 1, {i1}, MCSteps(0, 3, 0, 0, 0, 0, 0)),
     MCStart({p1, p2}, 1, 3, {i1}, MCSteps(0, 2, 0, 0, 0, 0, 0)),
     MCStart({p1, p2}, 3, 1, {i1}, MCSteps(0, 2, 0, 0, 1, 1, 0)),
     MCStart({p1, p2}, 3, 1, {i1}, MCSteps(0, 2, 0, 0, 1, 0, 1)),
     MCStart({p1, p2, p3}, 2, 2, {i1}, MCSteps(0, 0, 3, 0, 0, 0, 0)),
     MCStart({p1, p2}, 2, 2, {i1}, MCSteps(0, 1, 2, 0, 0, 0, 0)),
     MCStart({p1, p2}, 2, 2, {i1}, MCSteps(0, 0, 2, 0, 1, 1, 1))}
=============================================================================
