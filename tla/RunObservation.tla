--------------------------- MODULE RunObservation ---------------------------
(***************************************************************************)
(* The two ways in which the kit observes a load test: live, through a     *)
(* MetricsCollector, the dashboard and the alerts (LiveMonitor), and from  *)
(* the CSV history that Locust writes (RunHistory, RunAnalysis).  Neither  *)
(* sees the other: a behavior is one or the other.                         *)
(***************************************************************************)
EXTENDS LiveMonitor, RunAnalysis

VARIABLE observer

LiveInit ==
  /\ observer = "live"
  /\ Init
  /\ shape = (CHOOSE s \in Shape : TRUE)
  /\ pace = (CHOOSE p \in Pace : TRUE)
  /\ full = FALSE
  /\ elapsed = 0
  /\ users = Stop
  /\ rows = <<>>

CsvInit == observer = "csv" /\ HistoryInit /\ Init /\ dedup

ObservationInit == LiveInit \/ CsvInit

ObservationNext ==
  \/ observer = "live" /\ Next /\ UNCHANGED <<observer, historyVars>>
  \/ observer = "csv" /\ HistoryNext /\ UNCHANGED <<observer, vars>>

ObservationSpec == ObservationInit /\ [][ObservationNext]_<<observer, vars, historyVars>>

=============================================================================
