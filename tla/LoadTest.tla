------------------------------ MODULE LoadTest ------------------------------
(***************************************************************************)
(* A load test: the users of LocustUsers and the observers of              *)
(* RunObservation.  What a user does reaches an observer only as the       *)
(* requests and rows that RunObservation takes from a set, so the two run  *)
(* side by side: a behaviour is of one or the other.                       *)
(***************************************************************************)
EXTENDS RunObservation, LocustUsers

VARIABLE part  \* "users" or "observer"

observationVars == <<observer, vars, historyVars>>

LoadTestInit ==
  \/ part = "users" /\ UserInit /\ LiveInit /\ dedup
  \/ part = "observer" /\ ObservationInit /\ UserInit /\ kind = "LocustFile"

LoadTestNext ==
  \/ part = "users" /\ UserNext /\ UNCHANGED <<part, observationVars>>
  \/ part = "observer" /\ ObservationNext /\ UNCHANGED <<part, userVars>>

LoadTestSpec == LoadTestInit /\ [][LoadTestNext]_<<part, userVars, observationVars>>

=============================================================================
