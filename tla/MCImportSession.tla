-------------------------- MODULE MCImportSession --------------------------
(***************************************************************************)
(* Small instance of ImportSession: an archive with two candidates, one of *)
(* two files and one of a single file, so that each commit leaves a file   *)
(* it does not map.                                                        *)
(***************************************************************************)
EXTENDS ImportSession, TLC

CONSTANTS first, second

MCFilesOf ==
  (first :> <<"history", "stats">>) @@ (second :> <<"other_stats">>)
=============================================================================
