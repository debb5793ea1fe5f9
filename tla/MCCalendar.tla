---------------------------- MODULE MCCalendar ----------------------------
(***************************************************************************)
(* Values of the constants of Calendar for the model checker.              *)
(***************************************************************************)
EXTENDS Calendar

CONSTANTS b1, b2, e1, t1

MCRows == {Row(b1, LocalToUtc(0, 485), LocalToUtc(0, 560), t1, t1)}
MCEstimate == [t \in Tasks |-> 30]
=============================================================================
