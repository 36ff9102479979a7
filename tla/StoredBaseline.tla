--------------------------- MODULE StoredBaseline ---------------------------
(***************************************************************************)
(* PerformanceBaseline.save_baseline (baseline.py): it reads the stats     *)
(* file, taking a missing one for an empty run, and writes the baseline in *)
(* place.  _resolve_baseline (intelligence.py) reads it.                   *)
(***************************************************************************)
EXTENDS RunFiles

VARIABLE saver   \* where the call is, and what it read

SaverInit == saver = [at |-> "idle", endpoints |-> None]

SaveReads ==
  /\ saver.at = "idle"
  /\ StartCommand
  /\ saver' = [at |-> "open", endpoints |-> IF csv = None THEN {} ELSE {csv}]

SaveTruncates ==
  /\ saver.at = "open"
  /\ Put("baseline", Torn, FALSE)
  /\ saver' = [saver EXCEPT !.at = "dump"]

SaveFills ==
  /\ saver.at = "dump"
  /\ Put("baseline", [endpoints |-> saver.endpoints], FALSE)
  /\ saver' = [saver EXCEPT !.at = "ended"]

(* The call is killed, or open or json.dump raises.                        *)
SaveStops ==
  /\ saver.at \in {"open", "dump"}
  /\ saver' = [saver EXCEPT !.at = "ended"]
  /\ UNCHANGED fileVars

=============================================================================
