-------------------------- MODULE MCDungeonFinder --------------------------
(* Three players, a tank and two others, and two dungeons that take one of  *)
(* each.  They start alone, with the tank in both queues and each of the    *)
(* others in one of them, or all in one queue, so that a group is filled up *)
(* again with somebody else; or two of them start as a party.               *)
EXTENDS DungeonFinder, TLC
CONSTANTS p1, p2, p3, qA, qB, party

MCPlayers == {p1, p2, p3}
MCQueueOrder == <<qA, qB>>
MCOpen(a, b, c) == p1 :> a @@ p2 :> b @@ p3 :> c
MCStarts ==
    {[party |-> {}, open |-> MCOpen({qA, qB}, {qB}, {qA}), joins |-> 4, trips |-> 0],
     [party |-> {}, open |-> MCOpen({qA}, {qA}, {qA}), joins |-> 4, trips |-> 0],
     [party |-> {p1, p2}, open |-> MCOpen({qA, qB}, {qA, qB}, {qA}), joins |-> 2,
      trips |-> 1]}
MCRole == [p \in MCPlayers |-> IF p = p1 THEN "tank" ELSE "dps"]
MCNeeded == [tank |-> 1, dps |-> 1]
=============================================================================
