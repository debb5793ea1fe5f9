---------------------------- MODULE MCPromptPage ----------------------------
(***************************************************************************)
(* Values of the constants of PromptPage for the model checker: two        *)
(* contexts, one of them with a candidate and with one that was rejected,  *)
(* which split a line and change words, the other with one version.        *)
(***************************************************************************)
EXTENDS PromptPage

CONSTANTS c1, c2, be, kind, brief, gap, t1, t2

Old == << <<be, gap, kind>>, <<be>> >>
New == << <<be, gap, brief>>, <<be, gap>>, <<kind>> >>
Typed == << <<be>> >>
Improved == << <<brief>>, <<be, gap, kind, gap>> >>

MCTexts == {Typed}

MCRows ==
    LET old == [text |-> Old, tools |-> <<t1>>, params |-> 1]
        other == [old EXCEPT !.tools = <<t2, t1>>]
    IN  c1 :> [now |-> old, active |-> 1,
               versions |-> <<Version(old, "none"),
                              Version([old EXCEPT !.text = New], "pending"),
                              Version([old EXCEPT !.text = Improved], "rejected")>>]
        @@ c2 :> [now |-> other, active |-> 1, versions |-> <<Version(other, "none")>>]

MCTools == <<t1, t2>>
MCCategory == [t \in {t1, t2} |-> "db"]
MCSubGroups == {<<t2>>, <<t1>>}
=============================================================================
