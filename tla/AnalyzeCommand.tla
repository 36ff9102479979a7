--------------------------- MODULE AnalyzeCommand ---------------------------
(***************************************************************************)
(* "locust-kit analyze" (cli_analyze.py, main): it analyses the CSV files, *)
(* writes the artifacts it is asked for, one after the other, and exits 0, *)
(* 1 (an error) or 2 (an SLO was violated).  Several may run at a time on  *)
(* the same paths.  A decision or a bundle is written to a temporary file  *)
(* that then replaces the artifact (decision_artifact.py, atomic_write,    *)
(* and evidence_bundle.py, which does not flush it); the output is written *)
(* in place.  Any write may fail, and a command may be killed at any step. *)
(***************************************************************************)
EXTENDS RunFiles

CONSTANTS
  Analyst,   \* the analyze commands
  ArgLists   \* the arguments they are given

ASSUME ArgumentsAssumption ==
  ArgLists \subseteq
    [wanted : SUBSET {"json", "markdown", "bundle", "output"},
     slo : BOOLEAN, baseline : BOOLEAN]

VARIABLE
  analyses   \* the state of each analyze command

-----------------------------------------------------------------------------
(* "steady" is a history variable: since the command began, neither the    *)
(* CSV files of the two runs nor the stored baseline have changed.         *)
AnalyzeInit ==
  analyses = [c \in Analyst |->
    [at |-> "idle", args |-> None, report |-> None, bundled |-> None,
     published |-> {}, exitCode |-> None, steady |-> TRUE]]

Running(c) == analyses[c].at \notin {"idle", "exited", "killed"}

(* The artifacts wanted and not yet in place, and the order of main.       *)
Left(c) == analyses[c].args.wanted \ analyses[c].published

Rank == [json |-> 1, markdown |-> 2, bundle |-> 3, output |-> 4]

Writes(c, path) ==
  /\ analyses[c].at = "write"
  /\ path \in Left(c)
  /\ \A other \in Left(c) : Rank[path] <= Rank[other]

Start(c, args) ==
  /\ analyses[c].at = "idle"
  /\ StartCommand
  /\ analyses' = [analyses EXCEPT ![c].at = "analyze", ![c].args = args]

(* Variant of Fail: the error is printed, and main goes on to its return.  *)
FailQuietly(c) ==
  /\ analyses' = [analyses EXCEPT ![c].at = "exited", ![c].exitCode = 0]
  /\ UNCHANGED fileVars

(* The handlers of main: the error is printed and the exit code is 1.      *)
Fail(c) ==
  /\ analyses' = [analyses EXCEPT ![c].at = "exited", ![c].exitCode = 1]
  /\ UNCHANGED fileVars

Analyze(c) ==
  LET args == analyses[c].args
  IN  /\ analyses[c].at = "analyze"
      /\ IF CanAnalyze(args.baseline)
         THEN /\ analyses' = [analyses EXCEPT ![c].at = "write",
                                 ![c].report = Report(args.baseline, args.slo)]
              /\ UNCHANGED fileVars
         ELSE Fail(c)

(* Variant of PutDecision: the decision is written in place.               *)
PutDecisionInPlace(c, path) ==
  /\ Writes(c, path) \/ analyses[c].at = "fill"
  /\ IF analyses[c].at = "fill"
     THEN /\ Put(path, Decision(analyses[c].report), TRUE)
          /\ analyses' = [analyses EXCEPT ![c].at = "write", ![c].published = @ \cup {path}]
     ELSE /\ Put(path, Torn, TRUE)
          /\ analyses' = [analyses EXCEPT ![c].at = "fill"]

(* atomic_write of the decision, which comes from the report of Analyze:   *)
(* the temporary file is written and flushed, and replaces the artifact.   *)
PutDecision(c, path) ==
  /\ Writes(c, path)
  /\ Put(path, Decision(analyses[c].report), TRUE)
  /\ analyses' = [analyses EXCEPT ![c].published = @ \cup {path}]

(* create_evidence_bundle makes an analysis of its own.                    *)
Reanalyze(c) ==
  LET args == analyses[c].args
  IN  /\ Writes(c, "bundle")
      /\ IF CanAnalyze(args.baseline)
         THEN /\ analyses' = [analyses EXCEPT ![c].at = "collect",
                   ![c].bundled = [report |-> Report(args.baseline, args.slo), sources |-> None]]
              /\ UNCHANGED fileVars
         ELSE Fail(c)

(* It then reads the CSV files again, to pack them.                        *)
Collect(c) ==
  /\ analyses[c].at = "collect"
  /\ analyses' = [analyses EXCEPT ![c].at = "pack",
                    ![c].bundled.sources = Sources(analyses[c].args.baseline)]
  /\ UNCHANGED fileVars

PutBundle(c) ==
  /\ analyses[c].at = "pack"
  /\ Put("bundle", analyses[c].bundled, FALSE)
  /\ analyses' = [analyses EXCEPT ![c].at = "write", ![c].published = @ \cup {"bundle"}]

(* write_text: the output is truncated, then written.                      *)
Truncate(c) ==
  /\ Writes(c, "output")
  /\ Put("output", Torn, FALSE)
  /\ analyses' = [analyses EXCEPT ![c].at = "fill"]

Fill(c) ==
  /\ analyses[c].at = "fill"
  /\ Put("output", analyses[c].report, FALSE)
  /\ analyses' = [analyses EXCEPT ![c].at = "write", ![c].published = @ \cup {"output"}]

(* OSError from a write, a rename or a directory.                          *)
WriteFails(c) ==
  /\ \/ analyses[c].at \in {"collect", "pack", "fill"}
     \/ \E path \in {"json", "markdown", "output"} : Writes(c, path)
  /\ Fail(c)

Exit(c) ==
  /\ analyses[c].at = "write"
  /\ Left(c) = {}
  /\ analyses' = [analyses EXCEPT ![c].at = "exited",
                    ![c].exitCode = ReportExitCode(analyses[c].report)]
  /\ UNCHANGED fileVars

(* SIGKILL, or a KeyboardInterrupt, which "except Exception" lets through. *)
Kill(c) ==
  /\ Running(c)
  /\ analyses' = [analyses EXCEPT ![c].at = "killed"]
  /\ UNCHANGED fileVars

AnalyzeStep ==
  \E c \in Analyst :
    \/ \E args \in ArgLists : Start(c, args)
    \/ Analyze(c)
    \/ \E path \in {"json", "markdown"} : PutDecision(c, path)
    \/ Reanalyze(c)
    \/ Collect(c)
    \/ PutBundle(c)
    \/ Truncate(c)
    \/ Fill(c)
    \/ WriteFails(c)
    \/ Exit(c)
    \/ Kill(c)

(* A step of someone else that changes the CSV files or a baseline.        *)
InputsChange ==
  analyses' = [c \in Analyst |-> [analyses[c] EXCEPT !.steady = @ /\ ~Running(c)]]

AnalysesStop ==
  analyses' = [c \in Analyst |->
                 [analyses[c] EXCEPT !.at = IF Running(c) THEN "killed" ELSE @]]

-----------------------------------------------------------------------------
(* The exit code and the artifacts tell one story, although the bundle is  *)
(* made by a second analysis, commands overlap on the same paths and every *)
(* write may fail (cli_analyze.py, line 178):                              *)
(*   - a command exits 1 exactly if something it was asked for is missing; *)
(*   - otherwise it exits 2 exactly if the run violates the SLO (and so 0  *)
(*     also if the run has no result for it, against ZeroMeansPassed);     *)
(*   - and then, unless its inputs changed under it, its bundle reports    *)
(*     what the decision says, and contains the files that it came from.   *)
ExitCodeMatchesArtifacts ==
  \A c \in Analyst :
    LET a == analyses[c]
    IN  a.at = "exited" =>
          /\ a.exitCode = 1 <=> (a.report = None \/ a.published # a.args.wanted)
          /\ a.exitCode # 1 =>
               /\ a.exitCode = 2 <=> a.args.slo /\ a.report.of.p95 = "high"
               /\ "bundle" \in a.published /\ a.steady =>
                    a.bundled = [report |-> a.report, sources |-> MadeFrom(a.report)]

(* What the docs make of exit code 0 (docs/ci-cd-gates.md, line 163): "no  *)
(* SLOs configured (advisory) or every configured SLO passed".             *)
(* MCAnalyzeExitCode.cfg shows that it does not hold: a run without the    *)
(* Aggregated row has no result for its SLO (intelligence.py, check_slos), *)
(* and analyze_run takes that for no violation.                            *)
ZeroMeansPassed ==
  \A c \in Analyst :
    analyses[c].at = "exited" /\ analyses[c].exitCode = 0 /\ analyses[c].args.slo =>
      SloResults(analyses[c].report) = {"passed"}

=============================================================================
