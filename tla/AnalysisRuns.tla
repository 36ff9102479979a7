---------------------------- MODULE AnalysisRuns ----------------------------
(***************************************************************************)
(* The table analysis_runs of PerformanceWorkspace (product_workspace.py), *)
(* which campaigns and baselines refer to, and the clients (request        *)
(* threads of the workspace server, or scripts using the library) that     *)
(* call its methods.                                                       *)
(***************************************************************************)

CONSTANTS
  Client,        \* concurrent callers
  Run,           \* ids of analysis runs
  RunInfo,       \* RunInfo[r]: what analysis_runs holds of run r, immutable
  Nothing        \* no row, no projection, nothing on a client's screen

VARIABLE
  saved          \* runs present in analysis_runs

(* save_analysis_run: one INSERT, never updated or deleted afterwards.     *)
SaveAnalysisRun(r) ==
  /\ r \notin saved
  /\ saved' = saved \cup {r}

=============================================================================
