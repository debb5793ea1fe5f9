---------------------------- MODULE MCAssistant ----------------------------
(***************************************************************************)
(* Values of the constants of Assistant for the model checker.  Today is a *)
(* Sunday, the last day of its week.  A response proposes a block today and *)
(* a task, or blocks of this week and of the next one, in two proportions.  *)
(***************************************************************************)
EXTENDS Assistant

Standup == Action("standup", 6, 540, 555)
Reading1 == Action("reading", 7, 1380, 1440)
Plan == Action("plan", 9, 0, 60)
NewTask == Action("task", None, 0, 0)

MCProposals == {{Standup, NewTask}, {Standup, Reading1}, {Standup, Reading1, Plan}}
MCExisting == {Action("lunch", 6, 720, 780)}
=============================================================================
