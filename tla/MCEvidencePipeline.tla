------------------------- MODULE MCEvidencePipeline -------------------------
(***************************************************************************)
(* Small instance of EvidencePipeline: two analyze commands, a verify      *)
(* command and three starts; a run that violates its SLO, one without the  *)
(* Aggregated row.  The two analyses share a behaviour with each other and *)
(* the baseline, or one of them shares it with the bundles and all else    *)
(* (AnalysesOrBundles).                                                    *)
(***************************************************************************)
EXTENDS EvidencePipeline, TLC

CONSTANTS a1, a2, v1

MCContent == {[p95 |-> "high", rows |-> 2],
              [p95 |-> "absent", rows |-> 0]}

MCPriorRuns == {[p95 |-> "high", rows |-> 2]}

MCArgLists ==
  {[wanted |-> {"json", "bundle"}, slo |-> TRUE, baseline |-> TRUE],
   [wanted |-> {"output"}, slo |-> TRUE, baseline |-> FALSE]}

MCBuildArgs == {[slo |-> TRUE, baseline |-> TRUE]}

Commands == Permutations(Analyst)

Started == {c \in Analyst : analyses[c].at # "idle"}

AnalysesOrBundles ==
  \/ builder.at = "idle" /\ \A v \in Verifier : verifies[v].at = "idle"
  \/ /\ \A c, d \in Started : c = d
     /\ \A c \in Started : "bundle" \in analyses[c].args.wanted

=============================================================================
