---------------------------- MODULE MCTaskBoard ----------------------------
(***************************************************************************)
(* Values of the constants of TaskBoard for the model checker: two goals   *)
(* with a milestone each, a task and its subtask, which has the same name, *)
(* and a task without a milestone.                                         *)
(***************************************************************************)
EXTENDS TaskBoard

CONSTANTS g1, g2, m1, m2, t1, t2, t3, n1

MCRows ==
    {Row(g1, NoId, NoId, n1), [Row(g2, NoId, NoId, n1) EXCEPT !.pos = 1],
     Row(m1, g1, NoId, n1), [Row(m2, g2, NoId, n1) EXCEPT !.pos = 1],
     Row(t1, m1, NoId, n1), [Row(t2, m1, t1, n1) EXCEPT !.pos = 1],
     [Row(t3, NoId, NoId, n1) EXCEPT !.pos = 2]}
=============================================================================
