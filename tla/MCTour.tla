------------------------------- MODULE MCTour -------------------------------
(***************************************************************************)
(* Values of the constants of Tour for the model checker: two users who    *)
(* register, or get an account by a demo login, and come back, both in the *)
(* default time zone; of the tour the step without a part, the one that    *)
(* switches the tab of the page and the one whose part is on that tab.     *)
(***************************************************************************)
EXTENDS Tour

MCZones == [u \in Users |-> Default]
MCStops == <<DemoTourSteps[7], DemoTourSteps[10], DemoTourSteps[11]>>
=============================================================================
