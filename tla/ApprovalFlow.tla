---------------------------- MODULE ApprovalFlow ----------------------------
(***************************************************************************)
(* What the agent's approval flow promises of every write action, whatever *)
(* the endpoints, the store and the browser do to provide it: it is        *)
(* proposed once; it is executed at most once, after the user selected it; *)
(* and one that was refused stays refused.                                 *)
(***************************************************************************)
CONSTANT Action

VARIABLES
  status,    \* the stage each action has reached
  consent    \* the actions the user selected and approved

Stage == {"new", "proposed", "approved", "executed", "failed", "dropped"}

Init ==
  /\ status = [a \in Action |-> "new"]
  /\ consent = {}

Move(S, from, to) ==
  /\ S # {} /\ \A a \in S : status[a] = from
  /\ status' = [a \in Action |-> IF a \in S THEN to ELSE status[a]]

Propose(S) == Move(S, "new", "proposed") /\ UNCHANGED consent

Consent(S) ==
  /\ \A a \in S : status[a] # "new"
  /\ consent' = consent \cup S
  /\ UNCHANGED status

Accept(S) == S \subseteq consent /\ Move(S, "proposed", "approved") /\ UNCHANGED consent

Execute(a) == Move({a}, "approved", "executed") /\ UNCHANGED consent

Fail(a) == Move({a}, "approved", "failed") /\ UNCHANGED consent

Drop(S) == Move(S, "proposed", "dropped") /\ UNCHANGED consent

Next ==
  \/ \E S \in SUBSET Action : Propose(S) \/ Consent(S) \/ Accept(S) \/ Drop(S)
  \/ \E a \in Action : Execute(a) \/ Fail(a)

Spec == Init /\ [][Next]_<<status, consent>>
=============================================================================
