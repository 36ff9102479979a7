---------------------------- MODULE VerifyCommand ----------------------------
(***************************************************************************)
(* Verification bundles (verification_bundle.py): one is built from a      *)
(* decision and from CSV files as they are when it is packed, and written  *)
(* to its path in place, as the integration tests do it; "locust-kit       *)
(* verify" checks a ZIP, and with --reproduce repeats the analysis from    *)
(* the packed files.  That opens the path three times: reproduce_bundle    *)
(* verifies it, extract_verified verifies it again, and unpacks it.        *)
(***************************************************************************)
EXTENDS RunFiles

CONSTANTS
  Verifier,   \* the verify commands
  BuildArgs   \* the arguments of the analyses that bundles are built from

ASSUME BuildArgsAssumption == BuildArgs \subseteq [slo : BOOLEAN, baseline : BOOLEAN]

VARIABLES
  builder,   \* the one who builds the bundle
  verifies   \* the state of each verify command

(* "quiet" is a history variable: since the command began, no one has      *)
(* written to the path.                                                    *)
VerifyInit ==
  /\ builder = [at |-> "idle", packed |-> None]
  /\ verifies = [v \in Verifier |->
       [at |-> "idle", path |-> None, reproduce |-> FALSE, verified |-> None,
         unpacked |-> None, status |-> None, quiet |-> TRUE]]

-----------------------------------------------------------------------------
(* analyze_decision, by whoever builds the bundle.                         *)
Decide(withBaseline, slo) ==
  /\ builder.at = "idle"
  /\ CanAnalyze(withBaseline)
  /\ StartCommand
  /\ builder' = [at |-> "pack",
       packed |-> [decision |-> Decision(Report(withBaseline, slo)), sources |-> None]]
  /\ UNCHANGED verifies

(* build_verification_bundle reads the CSV files that its caller lists:    *)
(* those of the run, and maybe those of the baseline (under its name,      *)
(* which the decision has).                                                *)
Pack(withBaseline) ==
  /\ builder.at = "pack"
  /\ builder' = [builder EXCEPT !.at = "open", !.packed.sources = Sources(withBaseline)]
  /\ UNCHANGED <<fileVars, verifies>>

PathIsWritten ==
  verifies' = [v \in Verifier |->
    [verifies[v] EXCEPT !.quiet = @ /\ verifies[v].at \in {"idle", "ended"}]]

(* write_bytes: the file is truncated, then written.                       *)
TruncateBundle ==
  /\ builder.at = "open"
  /\ Put("verification", Torn, FALSE)
  /\ builder' = [builder EXCEPT !.at = "write"]
  /\ PathIsWritten

FillBundle ==
  /\ builder.at = "write"
  /\ Put("verification", builder.packed, FALSE)
  /\ builder' = [at |-> "idle", packed |-> None]
  /\ PathIsWritten

BuilderStops ==
  /\ builder.at # "idle"
  /\ builder' = [at |-> "idle", packed |-> None]
  /\ UNCHANGED <<fileVars, verifies>>

-----------------------------------------------------------------------------
(* Variant of Verdict: the schema of the manifest is not looked at.        *)
VerdictOfAnyZip(zip) == IF zip \in {None, Torn} THEN "INVALID" ELSE "VALID"

(* verify_bundle.  The ZIP of "analyze --bundle" has a manifest of another *)
(* schema.                                                                 *)
Verdict(zip) ==
  IF zip \in {None, Torn} THEN "INVALID"
  ELSE IF "decision" \in DOMAIN zip THEN "VALID" ELSE "UNSUPPORTED"

ZipOf(v) == files[verifies[v].path]

Ends(v, status) ==
  verifies' = [verifies EXCEPT ![v].at = "ended", ![v].status = status]

StartVerify(v, path, reproduce) ==
  /\ verifies[v].at = "idle"
  /\ StartCommand
  /\ verifies' = [verifies EXCEPT ![v].at = "verify", ![v].path = path,
                                  ![v].reproduce = reproduce]
  /\ UNCHANGED builder

VerifyFirst(v) ==
  /\ verifies[v].at = "verify"
  /\ LET verified == [verifies EXCEPT ![v].verified = Verdict(ZipOf(v))]
     IN  verifies' =
           IF ~verifies[v].reproduce
           THEN [verified EXCEPT ![v].at = "ended", ![v].status = Verdict(ZipOf(v))]
           ELSE IF Verdict(ZipOf(v)) = "VALID"
           THEN [verified EXCEPT ![v].at = "verifyAgain"]
           ELSE [verified EXCEPT ![v].at = "ended", ![v].status = "UNREPRODUCIBLE"]
  /\ UNCHANGED <<fileVars, builder>>

VerifyAgain(v) ==
  /\ verifies[v].at = "verifyAgain"
  /\ IF Verdict(ZipOf(v)) = "VALID"
     THEN verifies' = [verifies EXCEPT ![v].at = "unpack"]
     ELSE Ends(v, "UNREPRODUCIBLE")
  /\ UNCHANGED <<fileVars, builder>>

(* A file that is no ZIP by now raises BadZipFile, which no one catches.   *)
Unpack(v) ==
  /\ verifies[v].at = "unpack"
  /\ CASE ZipOf(v) = Torn -> Ends(v, "crash")
       [] ZipOf(v) = None -> Ends(v, "UNREPRODUCIBLE")
       [] OTHER -> verifies' = [verifies EXCEPT ![v].at = "repeat", ![v].unpacked = ZipOf(v)]
  /\ UNCHANGED <<fileVars, builder>>

(* The CSV files of a packed baseline, under the name they were packed     *)
(* with.  A stored baseline is not packed.                                 *)
PackedBaseline(zip) ==
  IF zip.sources.baseline = None THEN None ELSE [csv |-> zip.sources.baseline]

(* Variant of Repeat: the packed baseline is not looked for.               *)
RepeatWithoutBaseline(v) ==
  LET zip == verifies[v].unpacked
      regenerated == Decision([of |-> zip.sources.current, baseline |-> None,
                               slo |-> zip.decision.slos])
  IN  /\ verifies[v].at = "repeat"
      /\ Ends(v, IF regenerated = zip.decision THEN "MATCH" ELSE "DRIFT")
      /\ UNCHANGED <<fileVars, builder>>

(* The analysis of the packed files, against the packed baseline if there  *)
(* is one, with the SLOs of policy.json, and decision_diff.                *)
Repeat(v) ==
  LET zip == verifies[v].unpacked
      regenerated == Decision([of |-> zip.sources.current, baseline |-> PackedBaseline(zip),
                               slo |-> zip.decision.slos])
  IN  /\ verifies[v].at = "repeat"
      /\ Ends(v, IF regenerated = zip.decision THEN "MATCH" ELSE "DRIFT")
      /\ UNCHANGED <<fileVars, builder>>

VerifyStep ==
  \/ \E args \in BuildArgs : Decide(args.baseline, args.slo)
  \/ \E withBaseline \in BOOLEAN : Pack(withBaseline)
  \/ TruncateBundle
  \/ FillBundle
  \/ BuilderStops
  \/ \E v \in Verifier :
       \/ \E path \in {"bundle", "verification"}, reproduce \in BOOLEAN :
            StartVerify(v, path, reproduce)
       \/ VerifyFirst(v)
       \/ VerifyAgain(v)
       \/ Unpack(v)
       \/ Repeat(v)

VerifiesStop ==
  /\ builder' = [at |-> "idle", packed |-> None]
  /\ verifies' = [v \in Verifier |->
       [verifies[v] EXCEPT !.at = IF @ = "idle" THEN @ ELSE "ended"]]

-----------------------------------------------------------------------------
(* The decision could be made again from what was packed: it was made from *)
(* these very files of the run and of its baseline, not against a stored   *)
(* baseline (which is not packed), and its SLO, if it had one, had a       *)
(* result.                                                                 *)
Reproducible(zip) ==
  /\ zip.sources = MadeFrom(zip.decision)
  /\ zip.decision.baseline \in {None} \cup [csv : PriorRuns]
  /\ zip.decision.projections => zip.decision.slos

(* What "verify --reproduce" says of a bundle is true of what it unpacked, *)
(* with the "current and optional baseline Locust CSV prefixes"            *)
(* (docs/decision-verification.md, line 11), however often the path is     *)
(* rewritten between the three times it opens it, and it says MATCH or     *)
(* DRIFT of every valid bundle that no one touches meanwhile               *)
(* (verification_bundle.py, lines 195-218).                                *)
ReproductionTellsTheTruth ==
  \A v \in Verifier :
    LET command == verifies[v]
    IN  /\ command.status = "MATCH" => Reproducible(command.unpacked)
        /\ command.status = "DRIFT" => ~Reproducible(command.unpacked)
        /\ command.quiet /\ command.verified = "VALID"
             /\ command.status \notin {None, "VALID"} =>
               command.status \in {"MATCH", "DRIFT"}

=============================================================================
