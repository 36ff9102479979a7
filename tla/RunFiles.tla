------------------------------ MODULE RunFiles ------------------------------
(***************************************************************************)
(* The files that the commands of the kit share: the CSV files of a run,   *)
(* which Locust goes on rewriting while the run lasts, those of another    *)
(* run and a baseline stored by PerformanceBaseline (baseline.py), which   *)
(* one name finds, and the artifacts that the commands write.  And what    *)
(* analyze_run and build_decision conclude from them, as far as the        *)
(* commands depend on it (RunAnalysis has the algorithms).  An analysis    *)
(* reads its inputs at one point of time.                                  *)
(***************************************************************************)
EXTENDS Naturals

CONSTANTS
  Content,     \* the contents the CSV files of the run take on
  PriorRuns,   \* those of them that the CSV files of the other run take on
  MaxRewrites, \* bound: how often Locust rewrites files
  MaxStarts,   \* bound: how many commands are started
  MaxLosses,   \* bound: how often the power fails
  None,        \* no file, nothing computed
  Torn         \* a file that is truncated or half written

(* p95 is that of the Aggregated row against the SLO: "absent" when there  *)
(* is no such row, as in a file that Locust is rewriting (it is the last). *)
ASSUME FilesAssumption ==
  /\ Content \subseteq [p95 : {"low", "high", "absent"}, rows : Nat]
  /\ PriorRuns \subseteq Content
  /\ {None, Torn} \cap Content = {}
  /\ None # Torn
  /\ {MaxRewrites, MaxStarts, MaxLosses} \subseteq Nat

Path == {"json", "markdown", "bundle", "output", "baseline", "verification"}

VARIABLES
  csv,       \* {prefix}_stats.csv and {prefix}_stats_history.csv
  prior,     \* {baseline}_stats.csv and {baseline}_stats_history.csv
  files,     \* the artifacts
  remains,   \* what a power failure may leave of each of them
  rewrites,  \* how often the CSV files were rewritten
  starts,    \* how many commands were started
  losses     \* how often the power failed

fileVars == <<csv, prior, files, remains, rewrites, starts, losses>>

FilesInit ==
  /\ csv \in Content \cup {None}
  /\ prior \in PriorRuns \cup {None}
  /\ files = [path \in Path |-> None]
  /\ remains = [path \in Path |-> {None}]
  /\ rewrites = 0
  /\ starts = 0
  /\ losses = 0

StartCommand ==
  /\ starts < MaxStarts
  /\ starts' = starts + 1
  /\ UNCHANGED <<csv, prior, files, remains, rewrites, losses>>

(* Locust's writer.                                                        *)
Rewrite(content) ==
  /\ rewrites < MaxRewrites
  /\ content # csv
  /\ csv' = content
  /\ rewrites' = rewrites + 1
  /\ UNCHANGED <<prior, files, remains, starts, losses>>

(* The other run is under way as well, or its prefix is used again.        *)
RewritePrior(content) ==
  /\ rewrites < MaxRewrites
  /\ content # prior
  /\ prior' = content
  /\ rewrites' = rewrites + 1
  /\ UNCHANGED <<csv, files, remains, starts, losses>>

(* A file gets a new content.  No directory is ever flushed, so a power    *)
(* failure may bring back what was there before; if the data is not        *)
(* flushed either, it may leave a torn file.                               *)
Put(path, content, flushed) ==
  /\ files' = [files EXCEPT ![path] = content]
  /\ remains' = [remains EXCEPT ![path] = @ \cup {content} \cup (IF flushed THEN {} ELSE {Torn})]
  /\ UNCHANGED <<csv, prior, rewrites, starts, losses>>

(* It damages one file: no property compares two.                          *)
PowerFails ==
  /\ losses < MaxLosses
  /\ losses' = losses + 1
  /\ \E path \in Path : \E left \in remains[path] :
       files' = [files EXCEPT ![path] = left]
  /\ UNCHANGED <<csv, prior, remains, rewrites, starts>>

-----------------------------------------------------------------------------
(* check_slos, for one SLO on p95: there is a result for it only if the    *)
(* run has the Aggregated row.                                             *)
SloResults(report) ==
  IF ~report.slo \/ report.of.p95 = "absent" THEN {}
  ELSE IF report.of.p95 = "high" THEN {"violated"} ELSE {"passed"}

(* The end of analyze_run.                                                 *)
ReportExitCode(report) == IF "violated" \in SloResults(report) THEN 2 ELSE 0

(* _resolve_baseline: the name of a baseline is taken for the CSV prefix   *)
(* of a run, and if there is no such run, for a stored baseline.           *)
Baseline(withBaseline) ==
  IF ~withBaseline THEN None
  ELSE IF prior # None THEN [csv |-> prior] ELSE files["baseline"]

(* What analyze_run needs; otherwise it raises FileNotFoundError (no stats *)
(* file) or ValueError (no baseline, or one that is not JSON).             *)
CanAnalyze(withBaseline) ==
  /\ csv # None
  /\ withBaseline => Baseline(withBaseline) \notin {None, Torn}

Report(withBaseline, slo) ==
  [of |-> csv, baseline |-> Baseline(withBaseline), slo |-> slo]

(* The CSV files that are packed with it: those that the name of the       *)
(* baseline is a prefix of, and never a stored baseline.                   *)
Sources(withBaseline) ==
  [current |-> csv, baseline |-> IF withBaseline THEN prior ELSE None]

(* The CSV files that a report or a decision was made from.                *)
MadeFrom(report) ==
  [current |-> report.of,
   baseline |-> IF report.baseline \in [csv : PriorRuns] THEN report.baseline.csv ELSE None]

(* build_decision.  "slos" names only the SLOs that have a result, the     *)
(* findings have a projection for every one of them.                       *)
Decision(report) ==
  [of |-> report.of, baseline |-> report.baseline,
   slos |-> SloResults(report) # {}, projections |-> report.slo,
   status |-> IF ReportExitCode(report) = 2 THEN "FAIL"
              ELSE IF SloResults(report) # {} THEN "PASS" ELSE "ADVISORY"]

=============================================================================
