----------------------------- MODULE MCNotePage -----------------------------
(***************************************************************************)
(* Values of the constants of NotePage for the model checker: a review that *)
(* belongs to a goal and has a tag and a drawing, a diary with a mind map,  *)
(* and room for two more notes.                                             *)
(***************************************************************************)
EXTENDS NotePage

CONSTANTS n1, n2, c1, c2, c3, c4, g1, m1, t1, x1, diary, review, memo, a, b, d1, big

MCGoalOf == [m \in {m1} |-> g1]
MCMilestoneOf == [t \in {t1} |-> m1]

MCRows ==
    {[Row(n1, review) EXCEPT !.title = a, !.text = Body(a), !.meta = a, !.goal = g1, !.tags = {x1}],
     [Row(n2, diary) EXCEPT !.title = b, !.text = Body(b), !.date = d1]}
MCContents ==
    <<Content(c1, n1, "markdown", Body(a)), Content(c2, n1, "drawio", Body(a)),
      Content(c3, n2, "markdown", Body(b)), Content(c4, n2, "mindmap", Body(b))>>
MCLarge ==
    <<Content(c1, n1, "markdown", Body(a)), Content(c2, n1, "drawio", Body(big)),
      Content(c3, n2, "markdown", Body(b))>>
=============================================================================
