-------------------------- MODULE BaselineRegister --------------------------
(***************************************************************************)
(* What docs/baseline-decisions.md promises of baselines, with no database *)
(* and no threads: an environment has at most one active baseline, and     *)
(* once it has one it always has one; a promotion replaces it in one step  *)
(* and retires the previous one for good; only an acceptable promotion     *)
(* gets in.                                                                *)
(***************************************************************************)

CONSTANTS
  Environment,
  Promotion,        \* promotions: what is recorded of one
  Acceptable(_),    \* those that may become a baseline
  EnvironmentOf(_)  \* where a promotion takes effect

VARIABLES
  active,           \* active[e]: the set of the active promotions of e
  retired           \* the promotions that were replaced

vars == <<active, retired>>

Init ==
  /\ active = [e \in Environment |-> {}]
  /\ retired = {}

Promote(p) ==
  LET e == EnvironmentOf(p)
  IN  /\ Acceptable(p)
      /\ p \notin retired
      /\ p \notin active[e]
      /\ active' = [active EXCEPT ![e] = {p}]
      /\ retired' = retired \cup active[e]

(* Every promotion changes what is active, which tells it from a stutter.  *)
Next ==
  /\ active' # active
  /\ \E p \in Promotion : Promote(p)

Spec == Init /\ [][Next]_vars

=============================================================================
