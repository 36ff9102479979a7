-------------------------- MODULE EvidencePipeline --------------------------
(***************************************************************************)
(* The commands that turn the CSV files of a run into evidence, running at *)
(* the same time on the same files: Locust rewrites CSV files, a           *)
(* baseline is saved, runs are analyzed, bundles are built and verified,   *)
(* and the power may fail.                                                 *)
(***************************************************************************)
EXTENDS AnalyzeCommand, StoredBaseline, VerifyCommand

vars == <<fileVars, analyses, saver, builder, verifies>>

PipelineInit == FilesInit /\ AnalyzeInit /\ SaverInit /\ VerifyInit

LocustRewrites ==
  /\ \/ \E content \in Content : Rewrite(content)
     \/ \E content \in PriorRuns : RewritePrior(content)
  /\ InputsChange
  /\ UNCHANGED <<saver, builder, verifies>>

SaveStep ==
  /\ \/ SaveReads /\ UNCHANGED analyses
     \/ (SaveTruncates \/ SaveFills) /\ InputsChange
     \/ SaveStops /\ UNCHANGED analyses
  /\ UNCHANGED <<builder, verifies>>

PowerFailure ==
  /\ PowerFails
  /\ AnalysesStop
  /\ saver' = [saver EXCEPT !.at = IF @ = "idle" THEN @ ELSE "ended"]
  /\ VerifiesStop

PipelineNext ==
  \/ LocustRewrites
  \/ AnalyzeStep /\ UNCHANGED <<saver, builder, verifies>>
  \/ SaveStep
  \/ VerifyStep /\ UNCHANGED <<analyses, saver>>
  \/ PowerFailure

PipelineSpec == PipelineInit /\ [][PipelineNext]_vars

-----------------------------------------------------------------------------
Reports ==
  [of : Content, slo : BOOLEAN,
   baseline : {None} \cup [csv : PriorRuns] \cup [endpoints : SUBSET Content]]

PackedSources == [current : Content, baseline : PriorRuns \cup {None}]

Bundles == [report : Reports, sources : PackedSources]

Decisions == {Decision(report) : report \in Reports}

Contents ==
  [json |-> Decisions, markdown |-> Decisions, output |-> Reports \cup {Torn},
   bundle |-> Bundles \cup {Torn},
   baseline |-> [endpoints : SUBSET Content] \cup {Torn},
   verification |-> [decision : Decisions, sources : PackedSources] \cup {Torn}]

(* No file and a torn file are told from everything else.                  *)
ASSUME ContentsAssumption ==
  /\ None \notin Reports \cup PackedSources
  /\ {None, Torn} \cap [csv : PriorRuns] = {}
  /\ None \notin [report : Reports, sources : PackedSources \cup {None}]
  /\ \A path \in Path : None \notin Contents[path]
  /\ \A contents \in {Decisions, Bundles, [endpoints : SUBSET Content],
                      [decision : Decisions, sources : PackedSources]} : Torn \notin contents

ASSUME NullAssumption ==
  None \notin {"bundle", "verification", "VALID", "MATCH", "DRIFT"}

(* Every file has a content that its writers make, and a decision is never *)
(* torn, not even by a power failure (decision_artifact.py, line 149); a   *)
(* command is where it has what it needs.                                  *)
PipelineTypeOK ==
  /\ csv \in Content \cup {None}
  /\ prior \in PriorRuns \cup {None}
  /\ \A path \in Path :
       /\ files[path] \in remains[path]
       /\ remains[path] \subseteq Contents[path] \cup {None}
  /\ \A c \in Analyst :
       /\ analyses[c].report \in Reports \cup {None}
       /\ analyses[c].at \in {"write", "collect", "pack", "fill"} => analyses[c].report # None
       /\ analyses[c].at = "pack" => analyses[c].bundled \in Bundles
  /\ saver.at \in {"idle", "open", "dump", "ended"}
  /\ builder.at \in {"open", "write"} => builder.packed.sources # None
  /\ \A v \in Verifier :
       verifies[v].at = "repeat" =>
         verifies[v].unpacked \in [decision : Decisions, sources : PackedSources]

-----------------------------------------------------------------------------
(* The decisions that the commands made for an artifact.                   *)
Offered(path) ==
  {Decision(analyses[c].report) :
     c \in {d \in Analyst : /\ analyses[d].report # None
                            /\ path \in analyses[d].args.wanted}}

JsonRegister ==
  INSTANCE ArtifactRegister WITH content <- files["json"], offered <- Offered("json")

(* A reader of the decision JSON, such as the script of a CI job, finds a  *)
(* whole decision that some command made (atomic_write), while commands    *)
(* overlap, fail, are killed, and the power fails.                         *)
ImplementsRegister == JsonRegister!Spec

=============================================================================
