---------------------- MODULE EvidencePipeline_proofs ----------------------
(***************************************************************************)
(* Proofs about EvidencePipeline, for any number of commands, any contents *)
(* of the CSV files and any number of rewrites, starts and power failures. *)
(***************************************************************************)
EXTENDS EvidencePipeline, TLAPS

-----------------------------------------------------------------------------
(* Reports, decisions and what the paths hold.                             *)

Baselines == [endpoints : SUBSET Content]

Packages == [decision : Decisions, sources : PackedSources]

(* What the files of each path may contain.                                *)
LEMMA WhatPathsHold ==
  /\ Contents["json"] = Decisions
  /\ Contents["markdown"] = Decisions
  /\ Contents["output"] = Reports \cup {Torn}
  /\ Contents["bundle"] = Bundles \cup {Torn}
  /\ Contents["baseline"] = Baselines \cup {Torn}
  /\ Contents["verification"] = Packages \cup {Torn}
BY DEF Contents, Baselines, Packages

(* The decision on a report is one of the decisions.                       *)
LEMMA ReportsAreDecided ==
  ASSUME NEW report \in Reports
  PROVE  Decision(report) \in Decisions
BY DEF Decisions

(* A stored baseline is told from the CSV files of a run.                  *)
LEMMA BaselinesDiffer ==
  /\ None \notin [csv : PriorRuns]
  /\ \A stored \in Baselines \cup {Torn} : stored \notin [csv : PriorRuns]
<1>1. \A stored \in Baselines : stored \notin [csv : PriorRuns]
  BY DEF Baselines
<1> QED
  BY <1>1, ContentsAssumption

-----------------------------------------------------------------------------
(* The files.                                                              *)

AnyContent == {None} \cup UNION {Contents[path] : path \in Path}

FilesInv ==
  /\ csv \in Content \cup {None}
  /\ prior \in PriorRuns \cup {None}
  /\ files \in [Path -> AnyContent]
  /\ remains \in [Path -> SUBSET AnyContent]
  /\ \A path \in Path : /\ files[path] \in remains[path]
                        /\ remains[path] \subseteq Contents[path] \cup {None}

(* There are no files at first.                                            *)
LEMMA FilesStart == FilesInit => FilesInv
<1> SUFFICES ASSUME FilesInit PROVE FilesInv
  OBVIOUS
<1>1. None \in AnyContent
  BY DEF AnyContent
<1>2. files \in [Path -> AnyContent] /\ remains \in [Path -> SUBSET AnyContent]
  BY <1>1 DEF FilesInit
<1>3. \A path \in Path : /\ files[path] \in remains[path]
                         /\ remains[path] \subseteq Contents[path] \cup {None}
  BY DEF FilesInit
<1> QED
  BY <1>2, <1>3 DEF FilesInit, FilesInv

(* A write of what its path may hold.                                      *)
LEMMA PutKeepsFiles ==
  ASSUME FilesInv, NEW path \in Path, NEW content \in Contents[path],
         NEW flushed \in BOOLEAN, flushed \/ Torn \in Contents[path],
         Put(path, content, flushed)
  PROVE  FilesInv'
<1>1. content \in AnyContent
  BY DEF AnyContent
<1>2. flushed \/ Torn \in AnyContent
  BY DEF AnyContent
<1>3. files' \in [Path -> AnyContent] /\ remains' \in [Path -> SUBSET AnyContent]
  BY <1>1, <1>2 DEF Put, FilesInv
<1>4. \A p \in Path : files'[p] \in remains'[p] /\ remains'[p] \subseteq Contents[p] \cup {None}
  BY DEF Put, FilesInv
<1> QED
  BY <1>3, <1>4 DEF Put, FilesInv

(* What a power failure leaves of a file was there before.                 *)
LEMMA PowerFailureKeepsFiles ==
  ASSUME FilesInv, PowerFails
  PROVE  FilesInv'
<1>1. PICK path \in Path : \E left \in remains[path] :
        files' = [files EXCEPT ![path] = left]
  BY DEF PowerFails
<1> QED
  BY <1>1 DEF PowerFails, FilesInv

(* Locust rewriting CSV files leaves the artifacts as they are.            *)
LEMMA RewriteKeepsFiles ==
  ASSUME FilesInv,
         \/ \E content \in Content : Rewrite(content)
         \/ \E content \in PriorRuns : RewritePrior(content)
  PROVE  FilesInv' /\ (csv \in Content => csv' \in Content)
BY DEF Rewrite, RewritePrior, FilesInv

(* Nothing of the files changes.                                           *)
LEMMA FilesFrame ==
  ASSUME FilesInv, UNCHANGED <<csv, prior, files, remains>>
  PROVE  FilesInv'
BY DEF FilesInv

(* An analysis that is possible makes a report of the files as they are.   *)
LEMMA AnalysisReports ==
  ASSUME FilesInv, NEW withBaseline \in BOOLEAN, NEW slo \in BOOLEAN,
         CanAnalyze(withBaseline)
  PROVE  /\ csv \in Content
         /\ Report(withBaseline, slo) \in Reports
         /\ Report(withBaseline, slo) # None
<1>1. csv \in Content
  BY DEF CanAnalyze, FilesInv
<1>2. Baseline(withBaseline) \in {None} \cup [csv : PriorRuns] \cup Baselines
  <2>1. CASE ~withBaseline
    BY <2>1 DEF Baseline
  <2>2. CASE withBaseline /\ prior # None
    <3>1. prior \in PriorRuns /\ Baseline(withBaseline) = [csv |-> prior]
      BY <2>2 DEF FilesInv, Baseline
    <3> QED
      BY <3>1
  <2>3. CASE withBaseline /\ prior = None
    <3>1. Baseline(withBaseline) = files["baseline"] /\ files["baseline"] \notin {None, Torn}
      BY <2>3 DEF Baseline, CanAnalyze
    <3> QED
      BY <3>1, WhatPathsHold DEF FilesInv, Path
  <2> QED
    BY <2>1, <2>2, <2>3
<1>3. Report(withBaseline, slo) \in Reports
  BY <1>1, <1>2 DEF Report, Reports, Baselines
<1> QED
  BY <1>1, <1>3, ContentsAssumption

(* What is packed with it, whichever baseline is asked for.                *)
LEMMA SourcesArePacked ==
  ASSUME FilesInv, csv \in Content, NEW withBaseline \in BOOLEAN
  PROVE  Sources(withBaseline) \in PackedSources /\ Sources(withBaseline) # None
BY ContentsAssumption DEF FilesInv, Sources, PackedSources

-----------------------------------------------------------------------------
(* The analyze commands.                                                   *)

Artifact == {"json", "markdown", "bundle", "output"}

AnalysisPlace ==
  {"idle", "analyze", "write", "collect", "pack", "fill", "exited", "killed"}

AnalysisType ==
  [at : AnalysisPlace, args : ArgLists \cup {None}, report : Reports \cup {None},
   bundled : {None} \cup [report : Reports, sources : PackedSources \cup {None}],
   published : SUBSET Artifact, exitCode : {None, 0, 1, 2}, steady : BOOLEAN]

(* What a command has at each place.                                       *)
HasWhatItNeeds(a) ==
  /\ a.at \in {"idle", "analyze"} => a.report = None /\ a.published = {}
  /\ a.at # "idle" => a.args \in ArgLists
  /\ a.at \in {"write", "collect", "pack", "fill"} => a.report # None
  /\ a.at \in {"collect", "pack"} => a.bundled # None
  /\ a.at = "pack" => a.bundled \in Bundles

AnalysesInv ==
  /\ analyses \in [Analyst -> AnalysisType]
  /\ \A c \in Analyst :
       HasWhatItNeeds(analyses[c]) /\ (analyses[c].report # None => csv \in Content)

(* No command has been started at first.                                   *)
LEMMA AnalysesStart == AnalyzeInit => AnalysesInv
BY DEF AnalyzeInit, AnalysesInv, AnalysisType, AnalysisPlace, HasWhatItNeeds

(* One command steps from its state to another; no CSV file is lost.       *)
LEMMA CommandSteps ==
  ASSUME AnalysesInv, NEW c \in Analyst, NEW a,
         analyses' = [analyses EXCEPT ![c] = a],
         a \in AnalysisType, HasWhatItNeeds(a),
         csv \in Content => csv' \in Content,
         a.report = analyses[c].report \/ csv' \in Content
  PROVE  AnalysesInv'
<1>1. analyses' \in [Analyst -> AnalysisType]
  BY DEF AnalysesInv
<1>2. ASSUME NEW d \in Analyst
      PROVE  HasWhatItNeeds(analyses'[d]) /\ (analyses'[d].report # None => csv' \in Content)
  <2>1. CASE d = c
    <3>1. analyses'[d] = a
      BY <2>1 DEF AnalysesInv
    <3> QED
      BY <2>1, <3>1 DEF AnalysesInv
  <2>2. CASE d # c
    <3>1. analyses'[d] = analyses[d]
      BY <2>2 DEF AnalysesInv
    <3> QED
      BY <3>1 DEF AnalysesInv
  <2> QED
    BY <2>1, <2>2
<1> QED
  BY <1>1, <1>2 DEF AnalysesInv

(* What the argument lists of a command contain.                           *)
LEMMA ArgumentsHaveTypes ==
  ASSUME NEW args \in ArgLists
  PROVE  args.wanted \subseteq Artifact /\ args.slo \in BOOLEAN /\ args.baseline \in BOOLEAN
BY ArgumentsAssumption DEF Artifact

(* Each step of an analyze command keeps the files and the commands well   *)
(* formed.                                                                 *)
LEMMA AnalyzeStepKeeps ==
  ASSUME FilesInv, AnalysesInv, AnalyzeStep
  PROVE  FilesInv' /\ AnalysesInv'
<1> PICK c \in Analyst :
      \/ \E args \in ArgLists : Start(c, args)
      \/ Analyze(c)
      \/ \E path \in {"json", "markdown"} : PutDecision(c, path)
      \/ Reanalyze(c)
      \/ Collect(c)
      \/ PutBundle(c)
      \/ Truncate(c)
      \/ Fill(c)
      \/ WriteFails(c)
      \/ Exit(c)
      \/ Kill(c)
  BY DEF AnalyzeStep
<1>t. /\ analyses[c] \in AnalysisType /\ HasWhatItNeeds(analyses[c])
      /\ analyses[c].report # None => csv \in Content
      /\ analyses \in [Analyst -> AnalysisType]
  BY DEF AnalysesInv
<1> DEFINE a == analyses[c]
<1>1. ASSUME NEW args \in ArgLists, Start(c, args) PROVE FilesInv' /\ AnalysesInv'
  <2> DEFINE b == [a EXCEPT !.at = "analyze", !.args = args]
  <2>1. b \in AnalysisType /\ HasWhatItNeeds(b) /\ b.report = a.report
    BY <1>t, <1>1 DEF Start, AnalysisType, AnalysisPlace, HasWhatItNeeds
  <2>2. analyses' = [analyses EXCEPT ![c] = b] /\ UNCHANGED <<csv, prior, files, remains>>
    BY <1>t, <1>1 DEF Start, StartCommand, AnalysisType
  <2> HIDE DEF b
  <2> QED
    BY <2>1, <2>2, FilesFrame, CommandSteps
<1>2. ASSUME Fail(c), analyses[c].at # "idle" PROVE FilesInv' /\ AnalysesInv'
  <2> DEFINE b == [a EXCEPT !.at = "exited", !.exitCode = 1]
  <2>1. b \in AnalysisType /\ HasWhatItNeeds(b) /\ b.report = a.report
    BY <1>t, <1>2 DEF AnalysisType, AnalysisPlace, HasWhatItNeeds
  <2>2. analyses' = [analyses EXCEPT ![c] = b] /\ UNCHANGED <<csv, prior, files, remains>>
    BY <1>t, <1>2 DEF Fail, fileVars, AnalysisType
  <2> HIDE DEF b
  <2> QED
    BY <2>1, <2>2, FilesFrame, CommandSteps
<1>3. CASE Analyze(c)
  <2>1. a.args \in ArgLists /\ a.at = "analyze"
    BY <1>t, <1>3 DEF Analyze, HasWhatItNeeds
  <2>2. CASE CanAnalyze(a.args.baseline)
    <3> DEFINE report == Report(a.args.baseline, a.args.slo)
               b == [a EXCEPT !.at = "write", !.report = report]
    <3>1. report \in Reports /\ report # None /\ csv \in Content
      BY <2>1, <2>2, ArgumentsHaveTypes, AnalysisReports
    <3>2. analyses' = [analyses EXCEPT ![c] = b] /\ UNCHANGED <<csv, prior, files, remains>>
      BY <1>t, <1>3, <2>2 DEF Analyze, fileVars, AnalysisType
    <3> HIDE DEF report
    <3>3. b \in AnalysisType /\ HasWhatItNeeds(b)
      BY <1>t, <2>1, <3>1 DEF AnalysisType, AnalysisPlace, HasWhatItNeeds
    <3> HIDE DEF b
    <3> QED
      BY <3>1, <3>2, <3>3, FilesFrame, CommandSteps
  <2>3. CASE ~CanAnalyze(a.args.baseline)
    BY <1>2, <1>3, <2>1, <2>3 DEF Analyze
  <2> QED
    BY <2>2, <2>3
<1>4. ASSUME NEW path \in {"json", "markdown"}, PutDecision(c, path)
      PROVE  FilesInv' /\ AnalysesInv'
  <2>1. a.at = "write" /\ a.report \in Reports
    BY <1>t, <1>4 DEF PutDecision, Writes, AnalysisType, HasWhatItNeeds
  <2>2. Decision(a.report) \in Contents[path] /\ path \in Path
    BY <2>1, ReportsAreDecided, WhatPathsHold DEF Path
  <2>3. FilesInv'
    BY <1>4, <2>2, PutKeepsFiles DEF PutDecision
  <2> DEFINE b == [a EXCEPT !.published = @ \cup {path}]
  <2>4. b \in AnalysisType /\ HasWhatItNeeds(b) /\ b.report = a.report
    BY <1>t, <2>1 DEF AnalysisType, AnalysisPlace, HasWhatItNeeds, Artifact
  <2>5. csv' = csv /\ analyses' = [analyses EXCEPT ![c] = b]
    BY <1>t, <1>4 DEF PutDecision, Put, AnalysisType
  <2> HIDE DEF b
  <2> QED
    BY <2>3, <2>4, <2>5, CommandSteps
<1>5. CASE Reanalyze(c)
  <2>1. a.args \in ArgLists /\ a.at = "write" /\ csv \in Content
    BY <1>t, <1>5 DEF Reanalyze, Writes, HasWhatItNeeds
  <2>2. CASE CanAnalyze(a.args.baseline)
    <3> DEFINE bundled == [report |-> Report(a.args.baseline, a.args.slo), sources |-> None]
               b == [a EXCEPT !.at = "collect", !.bundled = bundled]
    <3>1. Report(a.args.baseline, a.args.slo) \in Reports
      BY <2>1, <2>2, ArgumentsHaveTypes, AnalysisReports
    <3>2. bundled \in [report : Reports, sources : PackedSources \cup {None}] /\ bundled # None
      BY <3>1, ContentsAssumption
    <3>3. analyses' = [analyses EXCEPT ![c] = b] /\ UNCHANGED <<csv, prior, files, remains>>
      BY <1>t, <1>5, <2>2 DEF Reanalyze, fileVars, AnalysisType
    <3> HIDE DEF bundled
    <3>4. b \in AnalysisType /\ HasWhatItNeeds(b) /\ b.report = a.report
      BY <1>t, <2>1, <3>2 DEF AnalysisType, AnalysisPlace, HasWhatItNeeds
    <3> HIDE DEF b
    <3> QED
      BY <3>3, <3>4, FilesFrame, CommandSteps
  <2>3. CASE ~CanAnalyze(a.args.baseline)
    BY <1>2, <1>5, <2>1, <2>3 DEF Reanalyze
  <2> QED
    BY <2>2, <2>3
<1>6. CASE Collect(c)
  <2>1. /\ a.at = "collect" /\ csv \in Content /\ a.args \in ArgLists
        /\ a.bundled \in [report : Reports, sources : PackedSources \cup {None}]
    BY <1>t, <1>6 DEF Collect, AnalysisType, HasWhatItNeeds
  <2> DEFINE sources == Sources(a.args.baseline)
             bundled == [a.bundled EXCEPT !.sources = sources]
             b == [a EXCEPT !.at = "pack", !.bundled = bundled]
  <2>6. sources \in PackedSources
    BY <2>1, ArgumentsHaveTypes, SourcesArePacked
  <2> HIDE DEF sources
  <2>2. bundled \in Bundles /\ bundled \in [report : Reports, sources : PackedSources \cup {None}]
    BY <2>1, <2>6 DEF Bundles
  <2>3. bundled # None
    BY <2>2, ContentsAssumption
  <2>4. analyses' = [analyses EXCEPT ![c] = b] /\ UNCHANGED <<csv, prior, files, remains>>
    BY <1>t, <1>6 DEF Collect, fileVars, AnalysisType, sources
  <2> HIDE DEF bundled
  <2>5. b \in AnalysisType /\ HasWhatItNeeds(b) /\ b.report = a.report
    BY <1>t, <2>1, <2>2, <2>3 DEF AnalysisType, AnalysisPlace, HasWhatItNeeds
  <2> HIDE DEF b
  <2> QED
    BY <2>4, <2>5, FilesFrame, CommandSteps
<1>7. CASE PutBundle(c)
  <2>1. a.bundled \in Contents["bundle"] /\ Torn \in Contents["bundle"] /\ a.at = "pack"
    BY <1>t, <1>7, WhatPathsHold DEF PutBundle, HasWhatItNeeds
  <2>2. FilesInv'
    BY <1>7, <2>1, PutKeepsFiles DEF PutBundle, Path
  <2> DEFINE b == [a EXCEPT !.at = "write", !.published = @ \cup {"bundle"}]
  <2>3. b \in AnalysisType /\ HasWhatItNeeds(b) /\ b.report = a.report
    BY <1>t, <2>1 DEF AnalysisType, AnalysisPlace, HasWhatItNeeds, Artifact
  <2>4. csv' = csv /\ analyses' = [analyses EXCEPT ![c] = b]
    BY <1>t, <1>7 DEF PutBundle, Put, AnalysisType
  <2> HIDE DEF b
  <2> QED
    BY <2>2, <2>3, <2>4, CommandSteps
<1>8. CASE Truncate(c)
  <2>1. FilesInv'
    BY <1>8, WhatPathsHold, PutKeepsFiles DEF Truncate, Path
  <2> DEFINE b == [a EXCEPT !.at = "fill"]
  <2>2. b \in AnalysisType /\ HasWhatItNeeds(b) /\ b.report = a.report
    BY <1>t, <1>8 DEF Truncate, Writes, AnalysisType, AnalysisPlace, HasWhatItNeeds
  <2>3. csv' = csv /\ analyses' = [analyses EXCEPT ![c] = b]
    BY <1>t, <1>8 DEF Truncate, Put, AnalysisType
  <2> HIDE DEF b
  <2> QED
    BY <2>1, <2>2, <2>3, CommandSteps
<1>9. CASE Fill(c)
  <2>1. a.report \in Contents["output"] /\ Torn \in Contents["output"] /\ a.at = "fill"
    BY <1>t, <1>9, WhatPathsHold DEF Fill, AnalysisType, HasWhatItNeeds
  <2>2. FilesInv'
    BY <1>9, <2>1, PutKeepsFiles DEF Fill, Path
  <2> DEFINE b == [a EXCEPT !.at = "write", !.published = @ \cup {"output"}]
  <2>3. b \in AnalysisType /\ HasWhatItNeeds(b) /\ b.report = a.report
    BY <1>t, <2>1 DEF AnalysisType, AnalysisPlace, HasWhatItNeeds, Artifact
  <2>4. csv' = csv /\ analyses' = [analyses EXCEPT ![c] = b]
    BY <1>t, <1>9 DEF Fill, Put, AnalysisType
  <2> HIDE DEF b
  <2> QED
    BY <2>2, <2>3, <2>4, CommandSteps
<1>10. CASE WriteFails(c)
  BY <1>2, <1>10 DEF WriteFails, Writes
<1>11. CASE Exit(c)
  <2> DEFINE b == [a EXCEPT !.at = "exited", !.exitCode = ReportExitCode(a.report)]
  <2>1. ReportExitCode(a.report) \in {0, 2}
    BY DEF ReportExitCode
  <2>2. b \in AnalysisType /\ HasWhatItNeeds(b) /\ b.report = a.report
    BY <1>t, <1>11, <2>1 DEF Exit, AnalysisType, AnalysisPlace, HasWhatItNeeds
  <2>3. analyses' = [analyses EXCEPT ![c] = b] /\ UNCHANGED <<csv, prior, files, remains>>
    BY <1>t, <1>11 DEF Exit, fileVars, AnalysisType
  <2> HIDE DEF b
  <2> QED
    BY <2>2, <2>3, FilesFrame, CommandSteps
<1>12. CASE Kill(c)
  <2> DEFINE b == [a EXCEPT !.at = "killed"]
  <2>1. b \in AnalysisType /\ HasWhatItNeeds(b) /\ b.report = a.report
    BY <1>t, <1>12 DEF Kill, Running, AnalysisType, AnalysisPlace, HasWhatItNeeds
  <2>2. analyses' = [analyses EXCEPT ![c] = b] /\ UNCHANGED <<csv, prior, files, remains>>
    BY <1>t, <1>12 DEF Kill, fileVars, AnalysisType
  <2> HIDE DEF b
  <2> QED
    BY <2>1, <2>2, FilesFrame, CommandSteps
<1> QED
  BY <1>1, <1>3, <1>4, <1>5, <1>6, <1>7, <1>8, <1>9, <1>10, <1>11, <1>12

(* Changed inputs and a power failure concern every command.               *)
LEMMA EveryCommandSteps ==
  ASSUME AnalysesInv, csv \in Content => csv' \in Content,
         DOMAIN analyses' = Analyst, analyses' = [c \in Analyst |-> analyses'[c]],
         \A c \in Analyst : /\ analyses'[c] \in AnalysisType
                            /\ HasWhatItNeeds(analyses'[c])
                            /\ analyses'[c].report = analyses[c].report
  PROVE  AnalysesInv'
BY DEF AnalysesInv

(* A change of the inputs only ends that commands are steady.              *)
LEMMA InputsChangeKeeps ==
  ASSUME AnalysesInv, InputsChange, csv \in Content => csv' \in Content
  PROVE  AnalysesInv'
<1>1. ASSUME NEW c \in Analyst
      PROVE  /\ analyses'[c] \in AnalysisType
             /\ HasWhatItNeeds(analyses'[c])
             /\ analyses'[c].report = analyses[c].report
  <2>1. analyses'[c] = [analyses[c] EXCEPT !.steady = @ /\ ~Running(c)]
    BY DEF InputsChange
  <2>2. analyses[c] \in AnalysisType /\ HasWhatItNeeds(analyses[c])
    BY DEF AnalysesInv
  <2> QED
    BY <2>1, <2>2 DEF AnalysisType, HasWhatItNeeds
<1> QED
  BY <1>1, EveryCommandSteps DEF InputsChange

(* Commands that are killed keep what they have computed.                  *)
LEMMA AnalysesStopKeeps ==
  ASSUME AnalysesInv, AnalysesStop, csv' = csv
  PROVE  AnalysesInv'
<1>1. ASSUME NEW c \in Analyst
      PROVE  /\ analyses'[c] \in AnalysisType
             /\ HasWhatItNeeds(analyses'[c])
             /\ analyses'[c].report = analyses[c].report
  <2>1. analyses'[c] = [analyses[c] EXCEPT !.at = IF Running(c) THEN "killed" ELSE @]
    BY DEF AnalysesStop
  <2>2. analyses[c] \in AnalysisType /\ HasWhatItNeeds(analyses[c])
    BY DEF AnalysesInv
  <2> QED
    BY <2>1, <2>2 DEF Running, AnalysisType, AnalysisPlace, HasWhatItNeeds
<1> QED
  BY <1>1, EveryCommandSteps DEF AnalysesStop

(* A step that leaves the commands alone.                                  *)
LEMMA AnalysesFrame ==
  ASSUME AnalysesInv, UNCHANGED analyses, csv \in Content => csv' \in Content
  PROVE  AnalysesInv'
BY DEF AnalysesInv, HasWhatItNeeds

-----------------------------------------------------------------------------
(* Saving a baseline.                                                      *)

SaverInv ==
  /\ saver \in [at : {"idle", "open", "dump", "ended"}, endpoints : {None} \cup SUBSET Content]
  /\ saver.at \in {"open", "dump"} => saver.endpoints \in SUBSET Content

(* Saving a baseline touches the baseline and nothing else.                *)
LEMMA SaveStepKeeps ==
  ASSUME FilesInv, SaverInv, SaveStep
  PROVE  FilesInv' /\ SaverInv' /\ csv' = csv
<1>1. CASE SaveReads
  BY <1>1, FilesFrame DEF SaveReads, StartCommand, FilesInv, SaverInv
<1>2. CASE SaveTruncates
  <2>1. FilesInv'
    BY <1>2, WhatPathsHold, PutKeepsFiles DEF SaveTruncates, Path
  <2> QED
    BY <1>2, <2>1 DEF SaveTruncates, Put, SaverInv
<1>3. CASE SaveFills
  <2>1. [endpoints |-> saver.endpoints] \in Contents["baseline"] /\ Torn \in Contents["baseline"]
    BY <1>3, WhatPathsHold DEF SaveFills, SaverInv, Baselines
  <2>2. FilesInv'
    BY <1>3, <2>1, PutKeepsFiles DEF SaveFills, Path
  <2> QED
    BY <1>3, <2>2 DEF SaveFills, Put, SaverInv
<1>4. CASE SaveStops
  BY <1>4, FilesFrame DEF SaveStops, fileVars, SaverInv
<1> QED
  BY <1>1, <1>2, <1>3, <1>4 DEF SaveStep

-----------------------------------------------------------------------------
(* Building and verifying bundles.                                         *)

BuilderInv ==
  /\ builder \in [at : {"idle", "pack", "open", "write"},
                 packed : {None} \cup [decision : Decisions, sources : PackedSources \cup {None}]]
  /\ builder.at = "pack" =>
       /\ csv \in Content
       /\ builder.packed \in [decision : Decisions, sources : PackedSources \cup {None}]
  /\ builder.at \in {"open", "write"} => builder.packed \in Packages

VerifyType ==
  [at : {"idle", "verify", "verifyAgain", "unpack", "repeat", "ended"},
   path : {None, "bundle", "verification"}, reproduce : BOOLEAN,
   verified : {None, "INVALID", "VALID", "UNSUPPORTED"},
   unpacked : {None} \cup Packages,
   status : {None, "INVALID", "VALID", "UNSUPPORTED", "UNREPRODUCIBLE", "crash", "MATCH", "DRIFT"},
   quiet : BOOLEAN]

(* A command that has found a ZIP valid is not at the ZIP of "analyze      *)
(* --bundle".                                                              *)
VerifyHasWhatItNeeds(v) ==
  /\ v.at = "verify" => v.path # None
  /\ v.at \in {"verifyAgain", "unpack"} => v.path = "verification"
  /\ v.at = "repeat" => v.unpacked \in Packages

VerifiesInv ==
  /\ verifies \in [Verifier -> VerifyType]
  /\ \A v \in Verifier : VerifyHasWhatItNeeds(verifies[v])

(* What verify_bundle says.                                                *)
LEMMA VerdictTypes ==
  ASSUME NEW zip
  PROVE  Verdict(zip) \in {"INVALID", "VALID", "UNSUPPORTED"}
BY DEF Verdict

(* Only a package of the builder is VALID, no ZIP of "analyze --bundle".   *)
LEMMA ValidIsPackage ==
  ASSUME FilesInv, NEW path \in {"bundle", "verification"}, Verdict(files[path]) = "VALID"
  PROVE  path = "verification" /\ files[path] \in Packages
<1>1. files[path] \notin {None, Torn} /\ "decision" \in DOMAIN files[path]
  BY DEF Verdict
<1>2. files[path] \in Contents[path] \cup {None}
  BY DEF FilesInv, Path
<1>3. path # "bundle"
  <2> SUFFICES ASSUME path = "bundle" PROVE FALSE
    OBVIOUS
  <2>1. files[path] \in Bundles
    BY <1>1, <1>2, WhatPathsHold
  <2> QED
    BY <1>1, <2>1 DEF Bundles
<1> QED
  BY <1>1, <1>2, <1>3, WhatPathsHold

Packs == \E withBaseline \in BOOLEAN : Pack(withBaseline)

(* The steps of the builder.                                               *)
LEMMA BuilderStepKeeps ==
  ASSUME FilesInv, BuilderInv,
         \/ \E args \in BuildArgs : Decide(args.baseline, args.slo)
         \/ Packs \/ TruncateBundle \/ FillBundle \/ BuilderStops
  PROVE  FilesInv' /\ BuilderInv' /\ csv' = csv
<1>1. ASSUME NEW args \in BuildArgs, Decide(args.baseline, args.slo)
      PROVE  FilesInv' /\ BuilderInv' /\ csv' = csv
  <2> DEFINE baseline == args.baseline
             slo == args.slo
  <2>0. baseline \in BOOLEAN /\ slo \in BOOLEAN /\ Decide(baseline, slo)
    BY <1>1, BuildArgsAssumption
  <2> HIDE DEF baseline, slo
  <2>1. csv \in Content /\ Decision(Report(baseline, slo)) \in Decisions
    BY <2>0, AnalysisReports, ReportsAreDecided DEF Decide
  <2>2. UNCHANGED <<csv, prior, files, remains>>
    BY <2>0 DEF Decide, StartCommand
  <2>3. builder' = [at |-> "pack",
          packed |-> [decision |-> Decision(Report(baseline, slo)), sources |-> None]]
    BY <2>0 DEF Decide
  <2> QED
    BY <2>1, <2>2, <2>3, FilesFrame DEF BuilderInv
<1>2. CASE Packs
  <2>0. PICK withBaseline \in BOOLEAN : Pack(withBaseline)
    BY <1>2 DEF Packs
  <2>1. UNCHANGED <<csv, prior, files, remains>>
    BY <2>0 DEF Pack, fileVars
  <2>4. Sources(withBaseline) \in PackedSources
    BY <2>0, SourcesArePacked DEF Pack, BuilderInv
  <2> DEFINE packed == [builder.packed EXCEPT !.sources = Sources(withBaseline)]
  <2>2. /\ packed \in Packages
        /\ packed \in [decision : Decisions, sources : PackedSources \cup {None}]
    BY <2>0, <2>4 DEF Pack, BuilderInv, Packages
  <2>3. builder' = [builder EXCEPT !.at = "open", !.packed = packed]
    BY <2>0 DEF Pack, BuilderInv
  <2> HIDE DEF packed
  <2> QED
    BY <2>1, <2>2, <2>3, FilesFrame DEF BuilderInv
<1>3. CASE TruncateBundle
  <2>1. FilesInv'
    BY <1>3, WhatPathsHold, PutKeepsFiles DEF TruncateBundle, Path
  <2> QED
    BY <1>3, <2>1 DEF TruncateBundle, Put, BuilderInv
<1>4. CASE FillBundle
  <2>1. builder.packed \in Contents["verification"] /\ Torn \in Contents["verification"]
    BY <1>4, WhatPathsHold DEF FillBundle, BuilderInv
  <2>2. FilesInv'
    BY <1>4, <2>1, PutKeepsFiles DEF FillBundle, Path
  <2> QED
    BY <1>4, <2>2 DEF FillBundle, Put, BuilderInv
<1>5. CASE BuilderStops
  BY <1>5, FilesFrame DEF BuilderStops, fileVars, BuilderInv
<1> QED
  BY <1>1, <1>2, <1>3, <1>4, <1>5

(* A step that leaves the builder alone.                                   *)
LEMMA BuilderFrame ==
  ASSUME BuilderInv, builder' = builder, csv \in Content => csv' \in Content
  PROVE  BuilderInv'
BY DEF BuilderInv

(* A verify command steps from its state to another.                       *)
LEMMA VerifierSteps ==
  ASSUME VerifiesInv, NEW v \in Verifier, NEW b,
         verifies' = [verifies EXCEPT ![v] = b],
         b \in VerifyType, VerifyHasWhatItNeeds(b)
  PROVE  VerifiesInv'
BY DEF VerifiesInv

(* The steps of a verify command.                                          *)
LEMMA VerifierStepKeeps ==
  ASSUME FilesInv, VerifiesInv, NEW v \in Verifier,
         \/ \E path \in {"bundle", "verification"}, reproduce \in BOOLEAN :
              StartVerify(v, path, reproduce)
         \/ VerifyFirst(v) \/ VerifyAgain(v) \/ Unpack(v) \/ Repeat(v)
  PROVE  VerifiesInv' /\ UNCHANGED <<csv, prior, files, remains, builder>>
<1> DEFINE c == verifies[v]
<1>t. c \in VerifyType /\ VerifyHasWhatItNeeds(c) /\ verifies \in [Verifier -> VerifyType]
  BY DEF VerifiesInv
<1>1. ASSUME NEW path \in {"bundle", "verification"}, NEW reproduce \in BOOLEAN,
             StartVerify(v, path, reproduce)
      PROVE  VerifiesInv' /\ UNCHANGED <<csv, prior, files, remains, builder>>
  <2> DEFINE b == [c EXCEPT !.at = "verify", !.path = path, !.reproduce = reproduce]
  <2>1. b \in VerifyType /\ VerifyHasWhatItNeeds(b)
    BY <1>t, <1>1, NullAssumption DEF VerifyType, VerifyHasWhatItNeeds
  <2>2. verifies' = [verifies EXCEPT ![v] = b] /\ UNCHANGED <<csv, prior, files, remains, builder>>
    BY <1>t, <1>1 DEF StartVerify, StartCommand, VerifyType
  <2> HIDE DEF b
  <2> QED
    BY <2>1, <2>2, VerifierSteps
<1>2. ASSUME NEW status \in {"INVALID", "VALID", "UNSUPPORTED", "UNREPRODUCIBLE", "crash",
                            "MATCH", "DRIFT"}, Ends(v, status)
      PROVE  VerifiesInv'
  <2> DEFINE b == [c EXCEPT !.at = "ended", !.status = status]
  <2>1. b \in VerifyType /\ VerifyHasWhatItNeeds(b)
    BY <1>t DEF VerifyType, VerifyHasWhatItNeeds
  <2>2. verifies' = [verifies EXCEPT ![v] = b]
    BY <1>t, <1>2 DEF Ends, VerifyType
  <2> HIDE DEF b
  <2> QED
    BY <2>1, <2>2, VerifierSteps
<1>3. CASE VerifyFirst(v)
  <2> DEFINE verdict == Verdict(files[c.path])
             next == IF c.reproduce /\ verdict = "VALID" THEN "verifyAgain" ELSE "ended"
             status == IF ~c.reproduce THEN verdict
                       ELSE IF verdict = "VALID" THEN c.status ELSE "UNREPRODUCIBLE"
             b == [c EXCEPT !.verified = verdict, !.at = next, !.status = status]
  <2>1. c.at = "verify" /\ c.path \in {"bundle", "verification"}
    BY <1>t, <1>3 DEF VerifyFirst, VerifyType, VerifyHasWhatItNeeds
  <2>2. verdict = "VALID" => c.path = "verification"
    BY <2>1, ValidIsPackage
  <2>3. verdict \in {"INVALID", "VALID", "UNSUPPORTED"}
    BY VerdictTypes
  <2>4. verifies' = [verifies EXCEPT ![v] = b] /\ UNCHANGED <<csv, prior, files, remains, builder>>
    BY <1>t, <1>3 DEF VerifyFirst, ZipOf, fileVars, VerifyType
  <2> HIDE DEF verdict
  <2>5. b \in VerifyType /\ VerifyHasWhatItNeeds(b)
    BY <1>t, <2>1, <2>2, <2>3 DEF VerifyType, VerifyHasWhatItNeeds
  <2> HIDE DEF b
  <2> QED
    BY <2>4, <2>5, VerifierSteps
<1>4. CASE VerifyAgain(v)
  <2> DEFINE b == [c EXCEPT !.at = "unpack"]
  <2>1. b \in VerifyType /\ VerifyHasWhatItNeeds(b)
    BY <1>t, <1>4 DEF VerifyAgain, VerifyType, VerifyHasWhatItNeeds
  <2>2. verifies' = [verifies EXCEPT ![v] = b] \/ Ends(v, "UNREPRODUCIBLE")
    BY <1>t, <1>4 DEF VerifyAgain, VerifyType
  <2>3. UNCHANGED <<csv, prior, files, remains, builder>>
    BY <1>4 DEF VerifyAgain, fileVars
  <2> HIDE DEF b
  <2> QED
    BY <1>2, <2>1, <2>2, <2>3, VerifierSteps
<1>5. CASE Unpack(v)
  <2>1. c.at = "unpack" /\ c.path = "verification"
    BY <1>t, <1>5 DEF Unpack, VerifyHasWhatItNeeds
  <2>2. UNCHANGED <<csv, prior, files, remains, builder>>
    BY <1>5 DEF Unpack, fileVars
  <2>3. CASE files["verification"] \in {Torn, None}
    <3>1. Ends(v, "crash") \/ Ends(v, "UNREPRODUCIBLE")
      BY <1>5, <2>1, <2>3, FilesAssumption DEF Unpack, ZipOf
    <3> QED
      BY <1>2, <2>2, <3>1
  <2>4. CASE files["verification"] \notin {Torn, None}
    <3> DEFINE b == [c EXCEPT !.at = "repeat", !.unpacked = files["verification"]]
    <3>1. files["verification"] \in Packages
      BY <2>4, WhatPathsHold DEF FilesInv, Path
    <3>2. b \in VerifyType /\ VerifyHasWhatItNeeds(b)
      BY <1>t, <3>1 DEF VerifyType, VerifyHasWhatItNeeds
    <3>3. verifies' = [verifies EXCEPT ![v] = b]
      BY <1>t, <1>5, <2>1, <2>4 DEF Unpack, ZipOf, VerifyType
    <3> HIDE DEF b
    <3> QED
      BY <2>2, <3>2, <3>3, VerifierSteps
  <2> QED
    BY <2>3, <2>4
<1>6. CASE Repeat(v)
  <2>1. Ends(v, "MATCH") \/ Ends(v, "DRIFT")
    BY <1>6 DEF Repeat
  <2> QED
    BY <1>2, <1>6, <2>1 DEF Repeat, fileVars
<1> QED
  BY <1>1, <1>3, <1>4, <1>5, <1>6

(* A write to the path and a power failure concern every verify command.   *)
LEMMA EveryVerifierSteps ==
  ASSUME VerifiesInv, PathIsWritten \/ VerifiesStop
  PROVE  VerifiesInv'
<1>1. ASSUME NEW v \in Verifier
      PROVE  verifies'[v] \in VerifyType /\ VerifyHasWhatItNeeds(verifies'[v])
  <2>1. verifies[v] \in VerifyType /\ VerifyHasWhatItNeeds(verifies[v])
    BY DEF VerifiesInv
  <2>2. CASE PathIsWritten
    <3>1. verifies'[v] =
            [verifies[v] EXCEPT !.quiet = @ /\ verifies[v].at \in {"idle", "ended"}]
      BY <2>2 DEF PathIsWritten
    <3> QED
      BY <2>1, <3>1 DEF VerifyType, VerifyHasWhatItNeeds
  <2>3. CASE VerifiesStop
    <3>1. verifies'[v] = [verifies[v] EXCEPT !.at = IF @ = "idle" THEN @ ELSE "ended"]
      BY <2>3 DEF VerifiesStop
    <3> QED
      BY <2>1, <3>1 DEF VerifyType, VerifyHasWhatItNeeds
  <2> QED
    BY <2>2, <2>3
<1>2. DOMAIN verifies' = Verifier /\ verifies' = [v \in Verifier |-> verifies'[v]]
  BY DEF PathIsWritten, VerifiesStop
<1> QED
  BY <1>1, <1>2 DEF VerifiesInv

-----------------------------------------------------------------------------
(* The pipeline.                                                           *)

Inv == FilesInv /\ AnalysesInv /\ SaverInv /\ BuilderInv /\ VerifiesInv

(* No command touches the CSV files.                                       *)
LEMMA AnalyzeStepKeepsCsv ==
  ASSUME AnalyzeStep
  PROVE  csv' = csv
BY DEF AnalyzeStep, Start, StartCommand, Analyze, Fail, PutDecision, Reanalyze, Collect,
       PutBundle, Truncate, Fill, WriteFails, Exit, Kill, Put, fileVars

(* The parts of the invariant hold initially.                              *)
LEMMA PipelineStarts == PipelineInit => Inv
<1> SUFFICES ASSUME PipelineInit PROVE Inv
  OBVIOUS
<1>1. FilesInv /\ AnalysesInv
  BY FilesStart, AnalysesStart DEF PipelineInit
<1>2. SaverInv
  BY DEF PipelineInit, SaverInit, SaverInv
<1>3. BuilderInv /\ VerifiesInv
  BY NullAssumption
  DEF PipelineInit, VerifyInit, BuilderInv, VerifiesInv, VerifyType, VerifyHasWhatItNeeds
<1> QED
  BY <1>1, <1>2, <1>3 DEF Inv

(* Every step keeps the invariant, command by command.                     *)
LEMMA PipelineSteps ==
  ASSUME Inv, [PipelineNext]_vars
  PROVE  Inv'
<1> USE DEF Inv
<1>1. CASE LocustRewrites
  <2>2. FilesInv' /\ (csv \in Content => csv' \in Content)
    BY <1>1, RewriteKeepsFiles DEF LocustRewrites
  <2>3. AnalysesInv' /\ BuilderInv'
    BY <1>1, <2>2, InputsChangeKeeps, BuilderFrame DEF LocustRewrites
  <2> QED
    BY <1>1, <2>2, <2>3 DEF LocustRewrites, SaverInv, VerifiesInv
<1>2. CASE AnalyzeStep /\ UNCHANGED <<saver, builder, verifies>>
  <2>1. FilesInv' /\ AnalysesInv' /\ BuilderInv'
    BY <1>2, AnalyzeStepKeeps, AnalyzeStepKeepsCsv, BuilderFrame
  <2> QED
    BY <1>2, <2>1 DEF SaverInv, VerifiesInv
<1>3. CASE SaveStep
  <2>1. FilesInv' /\ SaverInv' /\ csv' = csv
    BY <1>3, SaveStepKeeps
  <2>2. UNCHANGED analyses \/ InputsChange
    BY <1>3 DEF SaveStep
  <2>3. AnalysesInv' /\ BuilderInv'
    BY <1>3, <2>1, <2>2, InputsChangeKeeps, AnalysesFrame, BuilderFrame DEF SaveStep
  <2> QED
    BY <1>3, <2>1, <2>3 DEF SaveStep, VerifiesInv
<1>4. CASE VerifyStep /\ UNCHANGED <<analyses, saver>>
  <2>1. ASSUME \/ \E args \in BuildArgs : Decide(args.baseline, args.slo)
               \/ Packs \/ TruncateBundle \/ FillBundle \/ BuilderStops
        PROVE  Inv'
    <3>1. FilesInv' /\ BuilderInv' /\ csv' = csv
      BY <2>1, BuilderStepKeeps
    <3>2. UNCHANGED verifies \/ PathIsWritten
      BY <2>1 DEF Decide, Packs, Pack, TruncateBundle, FillBundle, BuilderStops
    <3>3. VerifiesInv'
      BY <3>2, EveryVerifierSteps DEF VerifiesInv
    <3> QED
      BY <1>4, <3>1, <3>3, AnalysesFrame DEF SaverInv
  <2>2. ASSUME NEW v \in Verifier,
               \/ \E path \in {"bundle", "verification"}, reproduce \in BOOLEAN :
                    StartVerify(v, path, reproduce)
               \/ VerifyFirst(v) \/ VerifyAgain(v) \/ Unpack(v) \/ Repeat(v)
        PROVE  Inv'
    <3>1. VerifiesInv' /\ UNCHANGED <<csv, prior, files, remains, builder>>
      BY <2>2, VerifierStepKeeps
    <3> QED
      BY <1>4, <3>1, FilesFrame, AnalysesFrame, BuilderFrame DEF SaverInv
  <2> QED
    BY <1>4, <2>1, <2>2 DEF VerifyStep, Packs
<1>5. CASE PowerFailure
  <2>1. FilesInv' /\ csv' = csv
    BY <1>5, PowerFailureKeepsFiles DEF PowerFailure, PowerFails
  <2>2. AnalysesInv' /\ VerifiesInv'
    BY <1>5, <2>1, AnalysesStopKeeps, EveryVerifierSteps DEF PowerFailure
  <2>3. SaverInv' /\ BuilderInv'
    BY <1>5 DEF PowerFailure, VerifiesStop, SaverInv, BuilderInv
  <2> QED
    BY <2>1, <2>2, <2>3
<1>6. CASE UNCHANGED vars
  BY <1>6, FilesFrame, AnalysesFrame, BuilderFrame DEF vars, fileVars, SaverInv, VerifiesInv
<1> QED
  BY <1>1, <1>2, <1>3, <1>4, <1>5, <1>6 DEF PipelineNext

(* Files, commands, saver, builder and verifiers are well formed, and each *)
(* of them has what its next step needs.                                   *)
THEOREM PipelineInvariant == PipelineSpec => []Inv
BY PipelineStarts, PipelineSteps, PTL DEF PipelineSpec

(* Every file has a content that its writers make; no decision is torn,    *)
(* although commands overlap, fail, are killed and the power fails         *)
(* (decision_artifact.py, line 149).                                       *)
THEOREM FilesAreWhole == PipelineSpec => []PipelineTypeOK
<1>1. Inv => PipelineTypeOK
  <2> SUFFICES ASSUME Inv PROVE PipelineTypeOK
    OBVIOUS
  <2>1. /\ csv \in Content \cup {None} /\ prior \in PriorRuns \cup {None}
        /\ \A path \in Path : /\ files[path] \in remains[path]
                              /\ remains[path] \subseteq Contents[path] \cup {None}
    BY DEF Inv, FilesInv
  <2>2. \A c \in Analyst :
          /\ analyses[c].report \in Reports \cup {None}
          /\ analyses[c].at \in {"write", "collect", "pack", "fill"} => analyses[c].report # None
          /\ analyses[c].at = "pack" => analyses[c].bundled \in Bundles
    BY DEF Inv, AnalysesInv, AnalysisType, HasWhatItNeeds
  <2>3. saver.at \in {"idle", "open", "dump", "ended"}
    BY DEF Inv, SaverInv
  <2>4. builder.at \in {"open", "write"} => builder.packed.sources # None
    BY ContentsAssumption DEF Inv, BuilderInv, Packages
  <2>5. \A v \in Verifier : verifies[v].at = "repeat" =>
          verifies[v].unpacked \in [decision : Decisions, sources : PackedSources]
    BY DEF Inv, VerifiesInv, VerifyHasWhatItNeeds, Packages
  <2> QED
    BY <2>1, <2>2, <2>3, <2>4, <2>5 DEF PipelineTypeOK
<1> QED
  BY <1>1, PipelineInvariant, PTL

-----------------------------------------------------------------------------
(* The decision JSON as a register.                                        *)

(* What a power failure may bring back was offered once.                   *)
RegisterInv == remains["json"] \subseteq Offered("json") \cup {None}

(* A report, once made, stays.                                             *)
LEMMA OfferedGrows ==
  ASSUME Inv, [PipelineNext]_vars
  PROVE  Offered("json") \subseteq Offered("json")'
<1> SUFFICES ASSUME NEW c \in Analyst, analyses[c].report # None
             PROVE  analyses'[c].report = analyses[c].report /\ analyses'[c].args = analyses[c].args
  BY DEF Offered
<1>t. /\ analyses \in [Analyst -> AnalysisType]
      /\ analyses[c].at \notin {"idle", "analyze"}
  BY DEF Inv, AnalysesInv, HasWhatItNeeds
<1>1. CASE analyses' = analyses
  BY <1>1
<1>2. CASE InputsChange \/ AnalysesStop
  <2>1. \/ analyses'[c] = [analyses[c] EXCEPT !.steady = @ /\ ~Running(c)]
        \/ analyses'[c] = [analyses[c] EXCEPT !.at = IF Running(c) THEN "killed" ELSE @]
    BY <1>2 DEF InputsChange, AnalysesStop
  <2> QED
    BY <1>t, <2>1 DEF AnalysisType
<1>3. CASE AnalyzeStep
  <2> USE DEF AnalysisType
  <2>1. ASSUME NEW d \in Analyst, NEW args \in ArgLists, Start(d, args)
        PROVE  analyses'[c].report = analyses[c].report /\ analyses'[c].args = analyses[c].args
    BY <1>t, <2>1 DEF Start
  <2>2. ASSUME NEW d \in Analyst, Analyze(d) \/ Reanalyze(d)
        PROVE  analyses'[c].report = analyses[c].report /\ analyses'[c].args = analyses[c].args
    BY <1>t, <2>2 DEF Analyze, Reanalyze, Fail
  <2>3. ASSUME NEW d \in Analyst, NEW path, PutDecision(d, path)
        PROVE  analyses'[c].report = analyses[c].report /\ analyses'[c].args = analyses[c].args
    <3>1. analyses' = [analyses EXCEPT ![d].published = @ \cup {path}]
      BY <2>3 DEF PutDecision
    <3> QED
      BY <1>t, <3>1
  <2>5. ASSUME NEW d \in Analyst, PutBundle(d) \/ Truncate(d) \/ Fill(d)
        PROVE  analyses'[c].report = analyses[c].report /\ analyses'[c].args = analyses[c].args
    <3>1. \/ analyses' = [analyses EXCEPT ![d].at = "write", ![d].published = @ \cup {"bundle"}]
          \/ analyses' = [analyses EXCEPT ![d].at = "write", ![d].published = @ \cup {"output"}]
          \/ analyses' = [analyses EXCEPT ![d].at = "fill"]
      BY <2>5 DEF PutBundle, Truncate, Fill
    <3> QED
      BY <1>t, <3>1
  <2>6. ASSUME NEW d \in Analyst, Collect(d)
        PROVE  analyses'[c].report = analyses[c].report /\ analyses'[c].args = analyses[c].args
    BY <1>t, <2>6 DEF Collect
  <2>4. ASSUME NEW d \in Analyst, WriteFails(d) \/ Exit(d) \/ Kill(d)
        PROVE  analyses'[c].report = analyses[c].report /\ analyses'[c].args = analyses[c].args
    BY <1>t, <2>4 DEF WriteFails, Exit, Kill, Fail
  <2> QED
    BY <1>3, <2>1, <2>2, <2>3, <2>4, <2>5, <2>6 DEF AnalyzeStep
<1> QED
  BY <1>1, <1>2, <1>3 DEF PipelineNext, LocustRewrites, SaveStep, PowerFailure, vars

(* Whatever else happens, only its own writers and power failures change   *)
(* the decision JSON.                                                      *)
LEMMA JsonFrame ==
  ASSUME Inv, [PipelineNext]_vars, ~PowerFailure,
         ~\E c \in Analyst : PutDecision(c, "json")
  PROVE  files'["json"] = files["json"] /\ remains'["json"] = remains["json"]
<1> DEFINE Same == files'["json"] = files["json"] /\ remains'["json"] = remains["json"]
<1>1. ASSUME NEW path \in Path \ {"json"}, NEW content, NEW flushed, Put(path, content, flushed)
      PROVE  Same
  BY <1>1 DEF Put, Inv, FilesInv, Path
<1>2. ASSUME UNCHANGED <<files, remains>> PROVE Same
  BY <1>2
<1>3. CASE AnalyzeStep
  <2>1. ASSUME NEW c \in Analyst, PutDecision(c, "markdown") PROVE Same
    BY <1>1, <2>1 DEF PutDecision, Path
  <2>2. ASSUME NEW c \in Analyst, PutBundle(c) \/ Truncate(c) \/ Fill(c) PROVE Same
    BY <1>1, <2>2 DEF PutBundle, Truncate, Fill, Path
  <2>3. ASSUME NEW c \in Analyst,
               \/ \E args \in ArgLists : Start(c, args)
               \/ Analyze(c) \/ Reanalyze(c) \/ Collect(c)
               \/ WriteFails(c) \/ Exit(c) \/ Kill(c)
        PROVE  Same
    BY <2>3 DEF Start, StartCommand, Analyze, Reanalyze, Collect, WriteFails, Exit, Kill, Fail,
                fileVars
  <2> QED
    BY <1>3, <2>1, <2>2, <2>3 DEF AnalyzeStep
<1>4. CASE SaveStep
  <2>1. CASE SaveTruncates \/ SaveFills
    BY <1>1, <2>1 DEF SaveTruncates, SaveFills, Path
  <2>2. CASE SaveReads \/ SaveStops
    BY <2>2 DEF SaveReads, StartCommand, SaveStops, fileVars
  <2> QED
    BY <1>4, <2>1, <2>2 DEF SaveStep
<1>5. CASE VerifyStep
  <2>1. CASE TruncateBundle \/ FillBundle
    BY <1>1, <2>1 DEF TruncateBundle, FillBundle, Path
  <2>2. ASSUME \/ \E args \in BuildArgs : Decide(args.baseline, args.slo)
               \/ Packs \/ BuilderStops
        PROVE  Same
    BY <2>2 DEF Decide, StartCommand, Packs, Pack, BuilderStops, fileVars
  <2>3. ASSUME NEW v \in Verifier,
               \/ \E path \in {"bundle", "verification"}, reproduce \in BOOLEAN :
                    StartVerify(v, path, reproduce)
               \/ VerifyFirst(v) \/ VerifyAgain(v) \/ Unpack(v) \/ Repeat(v)
        PROVE  Same
    BY <2>3 DEF StartVerify, StartCommand, VerifyFirst, VerifyAgain, Unpack, Repeat, fileVars
  <2> QED
    BY <1>5, <2>1, <2>2, <2>3 DEF VerifyStep, Packs
<1>6. CASE LocustRewrites
  BY <1>6 DEF LocustRewrites, Rewrite, RewritePrior
<1>7. CASE UNCHANGED vars
  BY <1>7 DEF vars, fileVars
<1> QED
  BY <1>3, <1>4, <1>5, <1>6, <1>7 DEF PipelineNext

(* A decision is published by the command that made it.                    *)
LEMMA DecisionIsOffered ==
  ASSUME Inv, NEW c \in Analyst, PutDecision(c, "json")
  PROVE  /\ files'["json"] \in Offered("json")
         /\ remains'["json"] = remains["json"] \cup {files'["json"]}
         /\ Offered("json")' = Offered("json")
<1>1. analyses[c].report # None /\ "json" \in analyses[c].args.wanted
  BY DEF PutDecision, Writes, Left, Inv, AnalysesInv, HasWhatItNeeds
<1>2. files'["json"] = Decision(analyses[c].report)
      /\ remains'["json"] = remains["json"] \cup {files'["json"]}
  BY DEF PutDecision, Put, Inv, FilesInv, Path
<1>3. \A d \in Analyst : analyses'[d].report = analyses[d].report
                       /\ analyses'[d].args = analyses[d].args
  BY DEF PutDecision, Inv, AnalysesInv, AnalysisType
<1>4. Offered("json")' = Offered("json")
  BY <1>3 DEF Offered
<1> QED
  BY <1>1, <1>2, <1>4 DEF Offered

(* After a power failure the decision is one that was offered, or missing: *)
(* atomic_write flushes what it renames.                                   *)
LEMMA PowerFailureRelapses ==
  ASSUME Inv, RegisterInv, PowerFailure
  PROVE  /\ files'["json"] \in Offered("json") \cup {None}
         /\ remains'["json"] = remains["json"]
         /\ Offered("json")' = Offered("json")
<1>1. files'["json"] \in remains["json"]
  <2>1. PICK path \in Path : \E left \in remains[path] : files' = [files EXCEPT ![path] = left]
    BY DEF PowerFailure, PowerFails
  <2> QED
    BY <2>1 DEF Inv, FilesInv, Path
<1>2. ASSUME NEW d \in Analyst
      PROVE  analyses'[d].report = analyses[d].report /\ analyses'[d].args = analyses[d].args
  <2>1. analyses'[d] = [analyses[d] EXCEPT !.at = IF Running(d) THEN "killed" ELSE @]
    BY DEF PowerFailure, AnalysesStop
  <2>2. analyses[d] \in AnalysisType
    BY DEF Inv, AnalysesInv
  <2> QED
    BY <2>1, <2>2 DEF AnalysisType
<1>3. Offered("json")' = Offered("json")
  BY <1>2 DEF Offered
<1> QED
  BY <1>1, <1>3 DEF RegisterInv, PowerFailure, PowerFails

(* A reader of the decision JSON finds nothing or one whole decision that  *)
(* a command made for it (atomic_write): the pipeline implements the       *)
(* register.  A power failure relapses to what RegisterInv says was        *)
(* offered; the other steps publish, offer or stutter.                     *)
THEOREM DecisionsImplementRegister == PipelineSpec => ImplementsRegister
<1>1. PipelineInit => JsonRegister!Init /\ RegisterInv
  <2> SUFFICES ASSUME PipelineInit PROVE JsonRegister!Init /\ RegisterInv
    OBVIOUS
  <2>1. files["json"] = None /\ remains["json"] = {None}
    BY DEF PipelineInit, FilesInit, Path
  <2>2. Offered("json") = {}
    BY DEF PipelineInit, AnalyzeInit, Offered
  <2> QED
    BY <2>1, <2>2 DEF JsonRegister!Init, RegisterInv
<1>2. Inv /\ RegisterInv /\ [PipelineNext]_vars =>
        RegisterInv' /\ [JsonRegister!Next]_<<files["json"], Offered("json")>>
  <2> SUFFICES ASSUME Inv, RegisterInv, [PipelineNext]_vars
               PROVE  RegisterInv' /\ [JsonRegister!Next]_<<files["json"], Offered("json")>>
    OBVIOUS
  <2>1. CASE PowerFailure
    BY <2>1, PowerFailureRelapses DEF RegisterInv, JsonRegister!Next, JsonRegister!Relapse
  <2>2. CASE \E c \in Analyst : PutDecision(c, "json")
    BY <2>2, DecisionIsOffered DEF RegisterInv, JsonRegister!Next, JsonRegister!Publish
  <2>3. CASE ~PowerFailure /\ ~\E c \in Analyst : PutDecision(c, "json")
    BY <2>3, JsonFrame, OfferedGrows DEF RegisterInv, JsonRegister!Next, JsonRegister!Offer
  <2> QED
    BY <2>1, <2>2, <2>3
<1> QED
  BY <1>1, <1>2, PipelineInvariant, PTL DEF PipelineSpec, ImplementsRegister, JsonRegister!Spec

-----------------------------------------------------------------------------
(* Exit codes.                                                             *)

(* What a command's exit code and bundle will rest on.                     *)
Consistent(a) ==
  /\ a.report # None => a.report.slo = a.args.slo
  /\ a.at # "idle" => a.published \subseteq a.args.wanted
  /\ a.at \in {"collect", "pack"} => "bundle" \in a.args.wanted \ a.published
  /\ a.at = "fill" => "output" \in a.args.wanted \ a.published
  /\ a.at = "exited" =>
       /\ a.exitCode = 1 <=> (a.report = None \/ a.published # a.args.wanted)
       /\ a.exitCode # 1 => (a.exitCode = 2 <=> a.args.slo /\ a.report.of.p95 = "high")
  /\ a.steady /\ a.at = "collect" => a.bundled.report = a.report
  /\ a.steady /\ (a.at = "pack" \/ "bundle" \in a.published) =>
       a.bundled = [report |-> a.report, sources |-> MadeFrom(a.report)]

(* As long as its inputs have not changed, a running command would make    *)
(* the same report again.                                                  *)
Fresh(a) ==
  a.steady /\ a.report # None /\ a.at \notin {"idle", "exited", "killed"} =>
    a.report = Report(a.args.baseline, a.args.slo)

ExitInv == \A c \in Analyst : Consistent(analyses[c]) /\ Fresh(analyses[c])

(* The exit code of a report: 2 exactly if the SLO is violated.            *)
LEMMA ExitCodes ==
  ASSUME NEW report \in Reports
  PROVE  /\ ReportExitCode(report) \in {0, 2}
         /\ ReportExitCode(report) = 2 <=> report.slo /\ report.of.p95 = "high"
BY DEF ReportExitCode, SloResults, Reports

(* What an analysis is made from is what would be packed with it: a stored *)
(* baseline is resolved only where there are no CSV files to pack.         *)
LEMMA MadeFromPacked ==
  ASSUME FilesInv, NEW withBaseline \in BOOLEAN, NEW slo \in BOOLEAN,
         Report(withBaseline, slo) \in Reports
  PROVE  MadeFrom(Report(withBaseline, slo)) = Sources(withBaseline)
<1> DEFINE report == Report(withBaseline, slo)
<1>1. report.of = csv /\ report.baseline = Baseline(withBaseline)
  BY DEF Report
<1>2. CASE ~withBaseline
  <2>1. report.baseline = None
    BY <1>1, <1>2 DEF Baseline
  <2>2. None \notin [csv : PriorRuns]
    BY BaselinesDiffer
  <2> QED
    BY <1>1, <1>2, <2>1, <2>2 DEF MadeFrom, Sources
<1>3. CASE withBaseline /\ prior # None
  <2>1. prior \in PriorRuns /\ report.baseline = [csv |-> prior]
    BY <1>1, <1>3 DEF Baseline, FilesInv
  <2>2. report.baseline \in [csv : PriorRuns] /\ report.baseline.csv = prior
    BY <2>1
  <2>3. MadeFrom(report) = [current |-> csv, baseline |-> prior]
    BY <1>1, <2>2 DEF MadeFrom
  <2> QED
    BY <1>3, <2>3 DEF Sources
<1>4. CASE withBaseline /\ prior = None
  <2>1. report.baseline = files["baseline"]
    BY <1>1, <1>4 DEF Baseline
  <2>2. files["baseline"] \in Baselines \cup {None, Torn}
    BY WhatPathsHold DEF FilesInv, Path
  <2>3. files["baseline"] \notin [csv : PriorRuns]
    BY <2>2, BaselinesDiffer
  <2> QED
    BY <1>1, <1>4, <2>1, <2>3 DEF MadeFrom, Sources
<1> QED
  BY <1>2, <1>3, <1>4

(* A command steps from its state to another and leaves the inputs alone.  *)
LEMMA ExitFrame ==
  ASSUME Inv, ExitInv, NEW c \in Analyst, NEW a,
         analyses' = [analyses EXCEPT ![c] = a],
         csv' = csv, prior' = prior, files'["baseline"] = files["baseline"],
         Consistent(a), Fresh(a)
  PROVE  ExitInv'
<1> SUFFICES ASSUME NEW d \in Analyst
             PROVE  Consistent(analyses'[d]) /\ Fresh(analyses[d])'
  BY DEF ExitInv
<1>1. analyses'[d] = IF d = c THEN a ELSE analyses[d]
  BY DEF Inv, AnalysesInv
<1>2. Consistent(analyses'[d]) /\ Fresh(analyses'[d])
  BY <1>1 DEF ExitInv
<1>3. Fresh(analyses[d])'
  BY <1>2 DEF Fresh, Report, Baseline
<1> QED
  BY <1>2, <1>3

(* A write of an artifact is no write of the baseline.                     *)
LEMMA PutLeavesInputs ==
  ASSUME Inv, NEW path \in Path \ {"baseline"}, NEW content, NEW flushed,
         Put(path, content, flushed)
  PROVE  csv' = csv /\ prior' = prior /\ files'["baseline"] = files["baseline"]
BY DEF Put, Inv, FilesInv, Path

(* Each step of an analyze command keeps its outcome consistent.           *)
LEMMA AnalyzeStepKeepsExit ==
  ASSUME Inv, ExitInv, AnalyzeStep
  PROVE  ExitInv'
<1> PICK c \in Analyst :
      \/ \E args \in ArgLists : Start(c, args)
      \/ Analyze(c)
      \/ \E path \in {"json", "markdown"} : PutDecision(c, path)
      \/ Reanalyze(c)
      \/ Collect(c)
      \/ PutBundle(c)
      \/ Truncate(c)
      \/ Fill(c)
      \/ WriteFails(c)
      \/ Exit(c)
      \/ Kill(c)
  BY DEF AnalyzeStep
<1> DEFINE a == analyses[c]
<1>t. /\ a \in AnalysisType /\ HasWhatItNeeds(a) /\ Consistent(a) /\ Fresh(a)
      /\ analyses \in [Analyst -> AnalysisType]
  BY DEF Inv, AnalysesInv, ExitInv
<1>1. ASSUME NEW args \in ArgLists, Start(c, args) PROVE ExitInv'
  <2> DEFINE b == [a EXCEPT !.at = "analyze", !.args = args]
  <2>1. Consistent(b) /\ Fresh(b)
    BY <1>t, <1>1 DEF Start, AnalysisType, HasWhatItNeeds, Consistent, Fresh
  <2>2. analyses' = [analyses EXCEPT ![c] = b] /\ csv' = csv /\ prior' = prior /\ files' = files
    BY <1>t, <1>1 DEF Start, StartCommand, AnalysisType
  <2> HIDE DEF b
  <2> QED
    BY <2>1, <2>2, ExitFrame
<1>2. ASSUME Fail(c), a.at # "idle", a.report = None \/ a.published # a.args.wanted
      PROVE  ExitInv'
  <2> DEFINE b == [a EXCEPT !.at = "exited", !.exitCode = 1]
  <2>1. Consistent(b) /\ Fresh(b)
    BY <1>t, <1>2 DEF AnalysisType, HasWhatItNeeds, Consistent, Fresh
  <2>2. analyses' = [analyses EXCEPT ![c] = b] /\ csv' = csv /\ prior' = prior /\ files' = files
    BY <1>t, <1>2 DEF Fail, fileVars, AnalysisType
  <2> HIDE DEF b
  <2> QED
    BY <2>1, <2>2, ExitFrame
<1>3. CASE Analyze(c)
  <2>1. a.args \in ArgLists /\ a.at = "analyze" /\ a.report = None /\ a.published = {}
    BY <1>t, <1>3 DEF Analyze, HasWhatItNeeds
  <2>2. CASE CanAnalyze(a.args.baseline)
    <3> DEFINE report == Report(a.args.baseline, a.args.slo)
               b == [a EXCEPT !.at = "write", !.report = report]
    <3>1. report.slo = a.args.slo
      BY DEF Report
    <3>2. analyses' = [analyses EXCEPT ![c] = b] /\ csv' = csv /\ prior' = prior /\ files' = files
      BY <1>t, <1>3, <2>2 DEF Analyze, fileVars, AnalysisType
    <3>3. b.at = "write" /\ b.report = report /\ b.args = a.args /\ b.published = {}
      BY <1>t, <2>1 DEF AnalysisType
    <3>4. Fresh(b)
      BY <3>3 DEF Fresh
    <3>5. Consistent(b)
      BY <3>1, <3>3 DEF Consistent
    <3> HIDE DEF b
    <3> QED
      BY <3>2, <3>4, <3>5, ExitFrame
  <2>3. CASE ~CanAnalyze(a.args.baseline)
    BY <1>2, <1>3, <2>1, <2>3 DEF Analyze
  <2> QED
    BY <2>2, <2>3
<1>4. ASSUME NEW path \in {"json", "markdown"}, PutDecision(c, path) PROVE ExitInv'
  <2>1. a.at = "write" /\ path \in a.args.wanted
    BY <1>4 DEF PutDecision, Writes, Left
  <2> DEFINE b == [a EXCEPT !.published = @ \cup {path}]
  <2>2. Consistent(b) /\ Fresh(b)
    BY <1>t, <2>1 DEF AnalysisType, Consistent, Fresh
  <2>3. csv' = csv /\ prior' = prior /\ files'["baseline"] = files["baseline"]
    BY <1>4, PutLeavesInputs DEF PutDecision, Path
  <2>4. analyses' = [analyses EXCEPT ![c] = b]
    BY <1>t, <1>4 DEF PutDecision, AnalysisType
  <2> HIDE DEF b
  <2> QED
    BY <2>2, <2>3, <2>4, ExitFrame
<1>5. CASE Reanalyze(c)
  <2>1. a.at = "write" /\ "bundle" \in a.args.wanted \ a.published /\ a.report # None
    BY <1>t, <1>5 DEF Reanalyze, Writes, Left, HasWhatItNeeds
  <2>2. CASE CanAnalyze(a.args.baseline)
    <3> DEFINE again == Report(a.args.baseline, a.args.slo)
               b == [a EXCEPT !.at = "collect", !.bundled = [report |-> again, sources |-> None]]
    <3>1. a.steady => again = a.report
      BY <1>t, <2>1 DEF Fresh
    <3>2. analyses' = [analyses EXCEPT ![c] = b] /\ csv' = csv /\ prior' = prior /\ files' = files
      BY <1>t, <1>5, <2>2 DEF Reanalyze, fileVars, AnalysisType
    <3>3. Fresh(b)
      BY <1>t, <2>1 DEF AnalysisType, Fresh
    <3> HIDE DEF again
    <3>4. Consistent(b)
      BY <1>t, <2>1, <3>1 DEF AnalysisType, Consistent
    <3> HIDE DEF b
    <3> QED
      BY <3>2, <3>3, <3>4, ExitFrame
  <2>3. CASE ~CanAnalyze(a.args.baseline)
    BY <1>2, <1>5, <2>1, <2>3 DEF Reanalyze
  <2> QED
    BY <2>2, <2>3
<1>6. CASE Collect(c)
  <2>1. /\ a.at = "collect" /\ a.report # None /\ a.args \in ArgLists
        /\ a.bundled \in [report : Reports, sources : PackedSources \cup {None}]
    BY <1>t, <1>6 DEF Collect, AnalysisType, HasWhatItNeeds
  <2> DEFINE sources == Sources(a.args.baseline)
             bundled == [a.bundled EXCEPT !.sources = sources]
             b == [a EXCEPT !.at = "pack", !.bundled = bundled]
  <2>2. a.steady => sources = MadeFrom(a.report)
    <3>1. SUFFICES ASSUME a.steady PROVE sources = MadeFrom(a.report)
      OBVIOUS
    <3>2. a.report = Report(a.args.baseline, a.args.slo) /\ a.report \in Reports
      BY <1>t, <2>1, <3>1 DEF Fresh, AnalysisType
    <3> QED
      BY <2>1, <3>2, ArgumentsHaveTypes, MadeFromPacked DEF Inv
  <2> HIDE DEF sources
  <2>3. a.steady => bundled = [report |-> a.report, sources |-> MadeFrom(a.report)]
    BY <1>t, <2>1, <2>2 DEF Consistent
  <2>4. analyses' = [analyses EXCEPT ![c] = b] /\ csv' = csv /\ prior' = prior /\ files' = files
    BY <1>t, <1>6 DEF Collect, fileVars, AnalysisType, sources
  <2> HIDE DEF bundled
  <2>5. Consistent(b) /\ Fresh(b)
    BY <1>t, <2>1, <2>3 DEF AnalysisType, Consistent, Fresh
  <2> HIDE DEF b
  <2> QED
    BY <2>4, <2>5, ExitFrame
<1>7. CASE PutBundle(c)
  <2> DEFINE b == [a EXCEPT !.at = "write", !.published = @ \cup {"bundle"}]
  <2>1. Consistent(b) /\ Fresh(b)
    BY <1>t, <1>7 DEF PutBundle, AnalysisType, Consistent, Fresh
  <2>2. csv' = csv /\ prior' = prior /\ files'["baseline"] = files["baseline"]
    BY <1>7, PutLeavesInputs DEF PutBundle, Path
  <2>3. analyses' = [analyses EXCEPT ![c] = b]
    BY <1>t, <1>7 DEF PutBundle, AnalysisType
  <2> HIDE DEF b
  <2> QED
    BY <2>1, <2>2, <2>3, ExitFrame
<1>8. CASE Truncate(c)
  <2> DEFINE b == [a EXCEPT !.at = "fill"]
  <2>1. Consistent(b) /\ Fresh(b)
    BY <1>t, <1>8 DEF Truncate, Writes, Left, AnalysisType, Consistent, Fresh
  <2>2. csv' = csv /\ prior' = prior /\ files'["baseline"] = files["baseline"]
    BY <1>8, PutLeavesInputs DEF Truncate, Path
  <2>3. analyses' = [analyses EXCEPT ![c] = b]
    BY <1>t, <1>8 DEF Truncate, AnalysisType
  <2> HIDE DEF b
  <2> QED
    BY <2>1, <2>2, <2>3, ExitFrame
<1>9. CASE Fill(c)
  <2> DEFINE b == [a EXCEPT !.at = "write", !.published = @ \cup {"output"}]
  <2>1. Consistent(b) /\ Fresh(b)
    BY <1>t, <1>9 DEF Fill, AnalysisType, Consistent, Fresh
  <2>2. csv' = csv /\ prior' = prior /\ files'["baseline"] = files["baseline"]
    BY <1>9, PutLeavesInputs DEF Fill, Path
  <2>3. analyses' = [analyses EXCEPT ![c] = b]
    BY <1>t, <1>9 DEF Fill, AnalysisType
  <2> HIDE DEF b
  <2> QED
    BY <2>1, <2>2, <2>3, ExitFrame
<1>10. CASE WriteFails(c)
  <2>1. a.at # "idle" /\ a.published # a.args.wanted /\ Fail(c)
    BY <1>t, <1>10 DEF WriteFails, Writes, Left, Consistent
  <2> QED
    BY <1>2, <2>1
<1>11. CASE Exit(c)
  <2> DEFINE b == [a EXCEPT !.at = "exited", !.exitCode = ReportExitCode(a.report)]
  <2>1. a.at = "write" /\ a.report \in Reports /\ a.report # None
        /\ a.args.wanted \ a.published = {}
    BY <1>t, <1>11 DEF Exit, Left, AnalysisType, HasWhatItNeeds
  <2>2. a.published = a.args.wanted
    BY <1>t, <2>1 DEF Consistent
  <2>3. /\ ReportExitCode(a.report) \in {0, 2}
        /\ ReportExitCode(a.report) = 2 <=> a.args.slo /\ a.report.of.p95 = "high"
    BY <1>t, <2>1, ExitCodes DEF Consistent
  <2>4. Consistent(b) /\ Fresh(b)
    BY <1>t, <2>1, <2>2, <2>3 DEF AnalysisType, Consistent, Fresh
  <2>5. analyses' = [analyses EXCEPT ![c] = b] /\ csv' = csv /\ prior' = prior /\ files' = files
    BY <1>t, <1>11 DEF Exit, fileVars, AnalysisType
  <2> HIDE DEF b
  <2> QED
    BY <2>4, <2>5, ExitFrame
<1>12. CASE Kill(c)
  <2> DEFINE b == [a EXCEPT !.at = "killed"]
  <2>1. Consistent(b) /\ Fresh(b)
    BY <1>t, <1>12 DEF Kill, Running, AnalysisType, Consistent, Fresh
  <2>2. analyses' = [analyses EXCEPT ![c] = b] /\ csv' = csv /\ prior' = prior /\ files' = files
    BY <1>t, <1>12 DEF Kill, fileVars, AnalysisType
  <2> HIDE DEF b
  <2> QED
    BY <2>1, <2>2, ExitFrame
<1> QED
  BY <1>1, <1>3, <1>4, <1>5, <1>6, <1>7, <1>8, <1>9, <1>10, <1>11, <1>12

(* The inputs change under the commands, or everything stops.              *)
LEMMA InputsChangeKeepsExit ==
  ASSUME Inv, ExitInv, InputsChange \/ AnalysesStop
  PROVE  ExitInv'
<1> SUFFICES ASSUME NEW c \in Analyst
             PROVE  Consistent(analyses'[c]) /\ Fresh(analyses[c])'
  BY DEF ExitInv
<1>1. analyses[c] \in AnalysisType /\ Consistent(analyses[c]) /\ HasWhatItNeeds(analyses[c])
  BY DEF Inv, AnalysesInv, ExitInv
<1>2. CASE InputsChange
  <2>1. analyses'[c] = [analyses[c] EXCEPT !.steady = @ /\ ~Running(c)]
    BY <1>2 DEF InputsChange
  <2> QED
    BY <1>1, <2>1 DEF AnalysisType, Consistent, Fresh, Running
<1>3. CASE AnalysesStop
  <2>1. analyses'[c] = [analyses[c] EXCEPT !.at = IF Running(c) THEN "killed" ELSE @]
    BY <1>3 DEF AnalysesStop
  <2> QED
    BY <1>1, <2>1 DEF AnalysisType, Consistent, Fresh, Running
<1> QED
  BY <1>2, <1>3

(* Steps of others that leave the inputs alone.                            *)
LEMMA ExitStays ==
  ASSUME ExitInv, analyses' = analyses,
         csv' = csv, prior' = prior, files'["baseline"] = files["baseline"]
  PROVE  ExitInv'
BY DEF ExitInv, Fresh, Report, Baseline

(* The exit code of analyze, its artifacts and its bundle tell one story   *)
(* (cli_analyze.py, line 178).  The invariant follows a command through    *)
(* its steps: what it would report again, and what it has bundled.         *)
THEOREM ExitCodesAreTrue == PipelineSpec => []ExitCodeMatchesArtifacts
<1>1. PipelineInit => ExitInv
  BY DEF PipelineInit, AnalyzeInit, ExitInv, Consistent, Fresh
<1>2. Inv /\ ExitInv /\ [PipelineNext]_vars => ExitInv'
  <2> SUFFICES ASSUME Inv, ExitInv, [PipelineNext]_vars PROVE ExitInv'
    OBVIOUS
  <2>1. CASE LocustRewrites \/ PowerFailure
    BY <2>1, InputsChangeKeepsExit DEF LocustRewrites, PowerFailure
  <2>2. CASE AnalyzeStep
    BY <2>2, AnalyzeStepKeepsExit
  <2>3. CASE SaveStep
    BY <2>3, InputsChangeKeepsExit, ExitStays
    DEF SaveStep, SaveReads, SaveStops, StartCommand, fileVars
  <2>4. CASE VerifyStep /\ UNCHANGED analyses
    <3>1. csv' = csv /\ prior' = prior /\ files'["baseline"] = files["baseline"]
      <4>1. CASE TruncateBundle \/ FillBundle
        BY <4>1, PutLeavesInputs DEF TruncateBundle, FillBundle, Path
      <4>2. ASSUME \/ \E args \in BuildArgs : Decide(args.baseline, args.slo)
                   \/ Packs \/ BuilderStops
            PROVE  csv' = csv /\ prior' = prior /\ files' = files
        BY <4>2 DEF Decide, StartCommand, Packs, Pack, BuilderStops, fileVars
      <4>3. ASSUME NEW v \in Verifier,
                   \/ \E path \in {"bundle", "verification"}, reproduce \in BOOLEAN :
                        StartVerify(v, path, reproduce)
                   \/ VerifyFirst(v) \/ VerifyAgain(v) \/ Unpack(v) \/ Repeat(v)
            PROVE  csv' = csv /\ prior' = prior /\ files' = files
        BY <4>3 DEF StartVerify, StartCommand, VerifyFirst, VerifyAgain, Unpack, Repeat, fileVars
      <4> QED
        BY <2>4, <4>1, <4>2, <4>3 DEF VerifyStep, Packs
    <3> QED
      BY <2>4, <3>1, ExitStays
  <2>5. CASE UNCHANGED vars
    BY <2>5, ExitStays DEF vars, fileVars
  <2> QED
    BY <2>1, <2>2, <2>3, <2>4, <2>5 DEF PipelineNext
<1>3. ExitInv => ExitCodeMatchesArtifacts
  BY DEF ExitInv, Consistent, ExitCodeMatchesArtifacts
<1> QED
  BY <1>1, <1>2, <1>3, PipelineInvariant, PTL DEF PipelineSpec

-----------------------------------------------------------------------------
(* Reproduction.                                                           *)

(* What was packed is what a decision was made from, exactly if it has the *)
(* run and the baseline of the decision.                                   *)
LEMMA PackedOrNot ==
  ASSUME NEW zip \in Packages
  PROVE  zip.sources = MadeFrom(zip.decision)
             /\ zip.decision.baseline \in {None} \cup [csv : PriorRuns]
           <=> /\ zip.decision.of = zip.sources.current
               /\ zip.decision.baseline = PackedBaseline(zip)
<1>1. zip.sources \in PackedSources
  BY DEF Packages
<1>2. PICK current \in Content, baseline \in PriorRuns \cup {None} :
        zip.sources = [current |-> current, baseline |-> baseline]
  BY <1>1 DEF PackedSources
<1>3. None \notin PriorRuns /\ None \notin [csv : PriorRuns]
  BY BaselinesDiffer, FilesAssumption
<1>4. PackedBaseline(zip) = IF baseline = None THEN None ELSE [csv |-> baseline]
  BY <1>2 DEF PackedBaseline
<1> DEFINE d == zip.decision
           from == IF d.baseline \in [csv : PriorRuns] THEN d.baseline.csv ELSE None
<1>5. zip.sources = MadeFrom(d) <=> d.of = current /\ from = baseline
  BY <1>2 DEF MadeFrom
<1>6. CASE d.baseline \in [csv : PriorRuns]
  <2>1. PICK run \in PriorRuns : d.baseline = [csv |-> run]
    BY <1>6
  <2>2. from = run
    BY <1>6, <2>1
  <2>3. run # None
    BY <1>3
  <2>4. d.baseline = PackedBaseline(zip) <=> run = baseline
    BY <1>3, <1>4, <1>6, <2>1, <2>3
  <2> QED
    BY <1>2, <1>5, <1>6, <2>2, <2>4
<1>7. CASE d.baseline = None
  <2>1. from = None
    BY <1>3, <1>7
  <2>2. d.baseline = PackedBaseline(zip) <=> baseline = None
    BY <1>2, <1>3, <1>4, <1>7
  <2> QED
    BY <1>2, <1>5, <1>7, <2>1, <2>2
<1>8. CASE d.baseline \notin {None} \cup [csv : PriorRuns]
  <2>1. d.baseline # PackedBaseline(zip)
    BY <1>2, <1>4, <1>8
  <2> QED
    BY <1>8, <2>1
<1> QED
  BY <1>6, <1>7, <1>8

(* A decision is made again from what was packed exactly if that is what   *)
(* Reproducible says: the two directions of Repeat.                        *)
LEMMA ReproducedIffReproducible ==
  ASSUME NEW zip \in Packages
  PROVE  Decision([of |-> zip.sources.current, baseline |-> PackedBaseline(zip),
                   slo |-> zip.decision.slos]) = zip.decision
           <=> Reproducible(zip)
<1>1. PICK report \in Reports : zip.decision = Decision(report)
  BY DEF Packages, Decisions
<1>2. report.slo \in BOOLEAN /\ report.of \in Content
  BY DEF Reports
<1> DEFINE slos == SloResults(report) # {}
           packed == PackedBaseline(zip)
           again == [of |-> zip.sources.current, baseline |-> packed, slo |-> slos]
<1>3. slos <=> report.slo /\ report.of.p95 # "absent"
  BY <1>2 DEF SloResults
<1>4. /\ zip.decision.of = report.of /\ zip.decision.baseline = report.baseline
      /\ zip.decision.slos = slos /\ zip.decision.projections = report.slo
  BY <1>1 DEF Decision
<1>5. zip.sources = MadeFrom(zip.decision)
          /\ zip.decision.baseline \in {None} \cup [csv : PriorRuns]
        <=> report.of = zip.sources.current /\ report.baseline = packed
  BY <1>4, PackedOrNot
<1> HIDE DEF packed
<1>6. /\ Decision(again).of = zip.sources.current /\ Decision(again).baseline = packed
      /\ Decision(again).projections = slos
  BY DEF Decision
<1>7. ASSUME Decision(again) = zip.decision PROVE Reproducible(zip)
  BY <1>4, <1>5, <1>6, <1>7 DEF Reproducible
<1>8. ASSUME Reproducible(zip) PROVE Decision(again) = zip.decision
  <2>1. report.of = zip.sources.current /\ report.baseline = packed /\ report.slo = slos
    BY <1>2, <1>3, <1>4, <1>5, <1>8 DEF Reproducible
  <2>2. SloResults(again) = SloResults(report)
    BY <2>1 DEF SloResults
  <2>3. Decision(again) = Decision(report)
    BY <2>1, <2>2 DEF Decision, ReportExitCode
  <2> QED
    BY <1>1, <2>3
<1> QED
  BY <1>4, <1>7, <1>8 DEF packed

(* What a verify command has found out.                                    *)
Truthful(v) ==
  /\ v.at # "ended" => v.status = None
  /\ v.status = "MATCH" => Reproducible(v.unpacked)
  /\ v.status = "DRIFT" => ~Reproducible(v.unpacked)
  /\ v.quiet /\ v.verified = "VALID" /\ v.status \notin {None, "VALID"} =>
       v.status \in {"MATCH", "DRIFT"}

(* The ZIP that it found valid is valid as long as no one touches it.      *)
StillValid(v) ==
  v.quiet /\ v.at \in {"verifyAgain", "unpack"} => Verdict(files["verification"]) = "VALID"

VerifyInv == \A v \in Verifier : Truthful(verifies[v]) /\ StillValid(verifies[v])

(* A step that leaves the verifiers and the verification bundle alone.     *)
LEMMA VerifyFrame ==
  ASSUME VerifyInv, verifies' = verifies, files'["verification"] = files["verification"]
  PROVE  VerifyInv'
BY DEF VerifyInv, StillValid

(* Each step of a verify command keeps what it says true of what it        *)
(* unpacked.                                                               *)
LEMMA VerifierStepKeepsTruth ==
  ASSUME Inv, VerifyInv, NEW v \in Verifier,
         \/ \E path \in {"bundle", "verification"}, reproduce \in BOOLEAN :
              StartVerify(v, path, reproduce)
         \/ VerifyFirst(v) \/ VerifyAgain(v) \/ Unpack(v) \/ Repeat(v)
  PROVE  VerifyInv'
<1> DEFINE c == verifies[v]
<1>t. /\ c \in VerifyType /\ VerifyHasWhatItNeeds(c) /\ Truthful(c) /\ StillValid(c)
      /\ verifies \in [Verifier -> VerifyType]
  BY DEF Inv, VerifiesInv, VerifyInv
<1>f. files' = files
  BY VerifierStepKeeps DEF Inv
<1>1. ASSUME NEW b, verifies' = [verifies EXCEPT ![v] = b], Truthful(b), StillValid(b)
      PROVE  VerifyInv'
  <2> SUFFICES ASSUME NEW w \in Verifier
               PROVE  Truthful(verifies'[w]) /\ StillValid(verifies[w])'
    BY DEF VerifyInv
  <2>1. Truthful(verifies'[w]) /\ StillValid(verifies'[w])
    BY <1>t, <1>1 DEF VerifyInv
  <2> QED
    BY <1>f, <2>1 DEF StillValid
<1>2. ASSUME NEW path \in {"bundle", "verification"}, NEW reproduce \in BOOLEAN,
             StartVerify(v, path, reproduce)
      PROVE  VerifyInv'
  <2> DEFINE b == [c EXCEPT !.at = "verify", !.path = path, !.reproduce = reproduce]
  <2>1. Truthful(b) /\ StillValid(b)
    BY <1>t, <1>2 DEF StartVerify, VerifyType, Truthful, StillValid
  <2>2. verifies' = [verifies EXCEPT ![v] = b]
    BY <1>t, <1>2 DEF StartVerify, VerifyType
  <2> HIDE DEF b
  <2> QED
    BY <1>1, <2>1, <2>2
<1>3. CASE VerifyFirst(v)
  <2> DEFINE verdict == Verdict(files[c.path])
             next == IF c.reproduce /\ verdict = "VALID" THEN "verifyAgain" ELSE "ended"
             status == IF ~c.reproduce THEN verdict
                       ELSE IF verdict = "VALID" THEN c.status ELSE "UNREPRODUCIBLE"
             b == [c EXCEPT !.verified = verdict, !.at = next, !.status = status]
  <2>1. c.at = "verify" /\ c.path \in {"bundle", "verification"} /\ c.status = None
    BY <1>t, <1>3 DEF VerifyFirst, VerifyType, VerifyHasWhatItNeeds, Truthful
  <2>2. verdict = "VALID" => c.path = "verification"
    BY <2>1, ValidIsPackage DEF Inv
  <2>3. verdict \in {"INVALID", "VALID", "UNSUPPORTED"}
    BY VerdictTypes
  <2>4. verifies' = [verifies EXCEPT ![v] = b]
    BY <1>t, <1>3 DEF VerifyFirst, ZipOf, VerifyType
  <2>5. next = "verifyAgain" => Verdict(files["verification"]) = "VALID"
    BY <2>2
  <2> HIDE DEF verdict
  <2>6. Truthful(b) /\ StillValid(b)
    BY <1>t, <2>1, <2>3, <2>5, NullAssumption DEF VerifyType, Truthful, StillValid
  <2> HIDE DEF b
  <2> QED
    BY <1>1, <2>4, <2>6
<1>4. CASE VerifyAgain(v)
  <2>1. c.at = "verifyAgain" /\ c.path = "verification" /\ c.status = None
    BY <1>t, <1>4 DEF VerifyAgain, VerifyHasWhatItNeeds, Truthful
  <2>2. CASE Verdict(files["verification"]) = "VALID"
    <3> DEFINE b == [c EXCEPT !.at = "unpack"]
    <3>1. Truthful(b) /\ StillValid(b)
      BY <1>t, <2>1, <2>2 DEF VerifyType, Truthful, StillValid
    <3>2. verifies' = [verifies EXCEPT ![v] = b]
      BY <1>t, <1>4, <2>1, <2>2 DEF VerifyAgain, ZipOf, VerifyType
    <3> HIDE DEF b
    <3> QED
      BY <1>1, <3>1, <3>2
  <2>3. CASE Verdict(files["verification"]) # "VALID"
    <3> DEFINE b == [c EXCEPT !.at = "ended", !.status = "UNREPRODUCIBLE"]
    <3>1. ~c.quiet
      BY <1>t, <2>1, <2>3 DEF VerifyType, StillValid
    <3>2. Truthful(b) /\ StillValid(b)
      BY <1>t, <3>1 DEF VerifyType, Truthful, StillValid
    <3>3. verifies' = [verifies EXCEPT ![v] = b]
      BY <1>t, <1>4, <2>1, <2>3 DEF VerifyAgain, ZipOf, Ends, VerifyType
    <3> HIDE DEF b
    <3> QED
      BY <1>1, <3>2, <3>3
  <2> QED
    BY <2>2, <2>3
<1>5. CASE Unpack(v)
  <2>1. c.at = "unpack" /\ c.path = "verification" /\ c.status = None
    BY <1>t, <1>5 DEF Unpack, VerifyHasWhatItNeeds, Truthful
  <2>2. CASE files["verification"] \in {Torn, None}
    <3>1. Verdict(files["verification"]) # "VALID"
      BY <2>2 DEF Verdict
    <3>2. ~c.quiet
      BY <1>t, <2>1, <3>1 DEF VerifyType, StillValid
    <3>3. PICK status \in {"crash", "UNREPRODUCIBLE"} : Ends(v, status)
      BY <1>5, <2>1, <2>2, FilesAssumption DEF Unpack, ZipOf
    <3> DEFINE b == [c EXCEPT !.at = "ended", !.status = status]
    <3>4. Truthful(b) /\ StillValid(b)
      BY <1>t, <3>2 DEF VerifyType, Truthful, StillValid
    <3>5. verifies' = [verifies EXCEPT ![v] = b]
      BY <1>t, <3>3 DEF Ends, VerifyType
    <3> HIDE DEF b
    <3> QED
      BY <1>1, <3>4, <3>5
  <2>3. CASE files["verification"] \notin {Torn, None}
    <3> DEFINE b == [c EXCEPT !.at = "repeat", !.unpacked = files["verification"]]
    <3>1. Truthful(b) /\ StillValid(b)
      BY <1>t, <2>1, NullAssumption DEF VerifyType, Truthful, StillValid
    <3>2. verifies' = [verifies EXCEPT ![v].at = "repeat", ![v].unpacked = files["verification"]]
      BY <1>5, <2>1, <2>3 DEF Unpack, ZipOf
    <3>3. verifies' = [verifies EXCEPT ![v] = b]
      BY <1>t, <3>2 DEF VerifyType
    <3> HIDE DEF b
    <3> QED
      BY <1>1, <3>1, <3>3
  <2> QED
    BY <2>2, <2>3
<1>6. CASE Repeat(v)
  <2>1. c.at = "repeat" /\ c.unpacked \in Packages
    BY <1>t, <1>6 DEF Repeat, VerifyHasWhatItNeeds
  <2> DEFINE status == IF Reproducible(c.unpacked) THEN "MATCH" ELSE "DRIFT"
             b == [c EXCEPT !.at = "ended", !.status = status]
  <2>2. Ends(v, status)
    BY <1>6, <2>1, ReproducedIffReproducible DEF Repeat
  <2>3. Truthful(b) /\ StillValid(b)
    BY <1>t DEF VerifyType, Truthful, StillValid
  <2>4. verifies' = [verifies EXCEPT ![v] = b]
    BY <1>t, <2>2 DEF Ends, VerifyType
  <2> HIDE DEF b
  <2> QED
    BY <1>1, <2>3, <2>4
<1> QED
  BY <1>2, <1>3, <1>4, <1>5, <1>6

(* Somebody writes to the path, or everything stops.                       *)
LEMMA PathIsWrittenKeepsTruth ==
  ASSUME Inv, VerifyInv, PathIsWritten \/ VerifiesStop
  PROVE  VerifyInv'
<1> SUFFICES ASSUME NEW v \in Verifier
             PROVE  Truthful(verifies'[v]) /\ StillValid(verifies[v])'
  BY DEF VerifyInv
<1>1. verifies[v] \in VerifyType /\ Truthful(verifies[v])
  BY DEF Inv, VerifiesInv, VerifyInv
<1>2. CASE PathIsWritten
  <2>1. verifies'[v] =
          [verifies[v] EXCEPT !.quiet = @ /\ verifies[v].at \in {"idle", "ended"}]
    BY <1>2 DEF PathIsWritten
  <2> QED
    BY <1>1, <2>1 DEF VerifyType, Truthful, StillValid
<1>3. CASE VerifiesStop
  <2>1. verifies'[v] = [verifies[v] EXCEPT !.at = IF @ = "idle" THEN @ ELSE "ended"]
    BY <1>3 DEF VerifiesStop
  <2> QED
    BY <1>1, <2>1 DEF VerifyType, Truthful, StillValid
<1> QED
  BY <1>2, <1>3

(* Only the builder and power failures write to the path of the            *)
(* verification bundle.                                                    *)
LEMMA OthersLeaveTheBundle ==
  ASSUME Inv, AnalyzeStep \/ SaveStep \/ LocustRewrites
  PROVE  files'["verification"] = files["verification"]
<1>1. ASSUME NEW path \in Path \ {"verification"}, NEW content, NEW flushed,
             Put(path, content, flushed)
      PROVE  files'["verification"] = files["verification"]
  BY <1>1 DEF Put, Inv, FilesInv, Path
<1>2. CASE AnalyzeStep
  <2>1. ASSUME NEW c \in Analyst, NEW path \in {"json", "markdown"}, PutDecision(c, path)
        PROVE  files'["verification"] = files["verification"]
    BY <1>1, <2>1 DEF PutDecision, Path
  <2>2. ASSUME NEW c \in Analyst, PutBundle(c) \/ Truncate(c) \/ Fill(c)
        PROVE  files'["verification"] = files["verification"]
    BY <1>1, <2>2 DEF PutBundle, Truncate, Fill, Path
  <2>3. ASSUME NEW c \in Analyst,
               \/ \E args \in ArgLists : Start(c, args)
               \/ Analyze(c) \/ Reanalyze(c) \/ Collect(c)
               \/ WriteFails(c) \/ Exit(c) \/ Kill(c)
        PROVE  files' = files
    BY <2>3 DEF Start, StartCommand, Analyze, Reanalyze, Collect, WriteFails, Exit, Kill, Fail,
                fileVars
  <2> QED
    BY <1>2, <2>1, <2>2, <2>3 DEF AnalyzeStep
<1>3. CASE SaveStep
  <2>1. CASE SaveTruncates \/ SaveFills
    BY <1>1, <2>1 DEF SaveTruncates, SaveFills, Path
  <2>2. CASE SaveReads \/ SaveStops
    BY <2>2 DEF SaveReads, StartCommand, SaveStops, fileVars
  <2> QED
    BY <1>3, <2>1, <2>2 DEF SaveStep
<1>4. CASE LocustRewrites
  BY <1>4 DEF LocustRewrites, Rewrite, RewritePrior
<1> QED
  BY <1>2, <1>3, <1>4

(* "verify --reproduce" tells the truth about what it unpacked, and does   *)
(* not fail a valid bundle that no one touches between its three openings  *)
(* of the path (verification_bundle.py, lines 195-218).                    *)
THEOREM ReproductionIsTrue == PipelineSpec => []ReproductionTellsTheTruth
<1>1. PipelineInit => VerifyInv
  BY NullAssumption DEF PipelineInit, VerifyInit, VerifyInv, Truthful, StillValid
<1>2. Inv /\ VerifyInv /\ [PipelineNext]_vars => VerifyInv'
  <2> SUFFICES ASSUME Inv, VerifyInv, [PipelineNext]_vars PROVE VerifyInv'
    OBVIOUS
  <2>1. CASE (AnalyzeStep \/ SaveStep \/ LocustRewrites) /\ UNCHANGED verifies
    BY <2>1, OthersLeaveTheBundle, VerifyFrame
  <2>2. CASE VerifyStep
    <3>1. CASE TruncateBundle \/ FillBundle
      BY <3>1, PathIsWrittenKeepsTruth DEF TruncateBundle, FillBundle
    <3>2. ASSUME \/ \E args \in BuildArgs : Decide(args.baseline, args.slo)
                 \/ Packs \/ BuilderStops
          PROVE  files' = files /\ verifies' = verifies
      BY <3>2 DEF Decide, StartCommand, Packs, Pack, BuilderStops, fileVars
    <3>3. ASSUME NEW v \in Verifier,
                 \/ \E path \in {"bundle", "verification"}, reproduce \in BOOLEAN :
                      StartVerify(v, path, reproduce)
                 \/ VerifyFirst(v) \/ VerifyAgain(v) \/ Unpack(v) \/ Repeat(v)
          PROVE  VerifyInv'
      BY <3>3, VerifierStepKeepsTruth
    <3> QED
      BY <2>2, <3>1, <3>2, <3>3, VerifyFrame DEF VerifyStep, Packs
  <2>3. CASE PowerFailure
    BY <2>3, PathIsWrittenKeepsTruth DEF PowerFailure
  <2>4. CASE UNCHANGED vars
    BY <2>4, VerifyFrame DEF vars, fileVars
  <2> QED
    BY <2>1, <2>2, <2>3, <2>4 DEF PipelineNext, SaveStep, LocustRewrites
<1>3. VerifyInv => ReproductionTellsTheTruth
  BY DEF VerifyInv, Truthful, ReproductionTellsTheTruth
<1> QED
  BY <1>1, <1>2, <1>3, PipelineInvariant, PTL DEF PipelineSpec

=============================================================================
