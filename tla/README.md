# A verification of locust-performance-kit

TLA+ models of the stateful parts of locust-performance-kit, the TLC instances
that check them, and the theorems proved about them with TLAPS. File names
without a directory are in `src/locust_templates/` of the repository.

## 1. Inventory

The kit has two halves. One runs inside a Locust process: user templates, load
shapes, authenticators, and listeners that collect metrics while requests
complete on many greenlets. The other is the *workspace*, a Flask application
and a library over one SQLite file, that imports the results of runs, decides
about them and lets people promote baselines and sign off release campaigns.

| Component | State | Operations | Interacts with | What is hard | What makes it correct |
|---|---|---|---|---|---|
| Release campaigns (`product_workspace.py` 496-573, `campaigns.py`) | tables `campaigns`, `campaign_slots`, `audit` | create, view, update, finalize | analysis runs; HTTP threads | each call reads in autocommit SELECTs, decides, then writes in one transaction | no edit is lost; what is frozen was submitted, is complete, is audited and stays |
| OAuth2 token cache (`auth.py` 190-359) | class attributes `_shared_token`, `_shared_expires_at`, a lock | authenticate, get_headers | token endpoint; all users of the process | unlocked two-part check, POST outside the lock, late answers | no header with a dead token; a valid token is reused; calls end |
| Request correlator (`correlator.py`) | `_events`, `_user_history`, a lock | request listener, chains, summary, exports | Locust's request event | requests of one user overlap and overtake; a summary takes two snapshots | a cascade has its cause; chains account for the cascades |
| Workspace store (124-493 of `product_workspace.py`) | scenarios, idempotency keys, runs, workers, policies, waivers, secrets, rate cards, estimates, baselines | create/import scenario, connect worker, recovery plan, evaluate policy, put/resolve secret, estimate, approve, save run, promote | HTTP threads, run import | checks made before the transaction that acts on them; states that are written once and not revised | one active baseline, made of eligible runs; a key names one scenario; approval of a current price |
| Run import and sample (`workspace_api.py` 105-144, 228-247, `run_import.py`) | `_IMPORTS` (process memory), staging and storage directories | validate, commit, load sample | analysis service, workspace store | two-step protocol, double submit, process restart, failure after files are copied | a session gives one run, and the sample is loaded once, unless requests overlap; a stored run has its files |
| Artifacts and bundles (`decision_artifact.py`, `evidence_bundle.py`, `verification_bundle.py`, `cli_analyze.py`) | files | analyze, atomic write, bundle, verify, reproduce | CLI, workspace, Locust's CSV writer | commands overlap on the same paths; crash between two system calls; files are read several times while they are rewritten | a reader sees a whole decision; the exit code, the SLO and the artifacts agree; MATCH and DRIFT are true |
| Baselines on disk (`baseline.py`) | JSON files | save, load, compare | CLI | in-place overwrite | comparison against what was saved |
| Alerts, metrics, live dashboard (`alerts.py`, `metrics.py`, `live_dashboard.py`) | alert list and active set; latencies by endpoint; history | check, clear; record, summary, percentile, reset; record_from_collector | request event; reporter greenlet | deduplication across samples with gaps; several locked reads make one point | one alert per breach; a point has the percentiles of its time |
| WebSocket and gRPC users (`websocket.py`, `grpc.py`) | connection pool; channel and stub cache | connect, send, close, on_stop; get channel/stub | servers, request event | the limit is checked before a blocking connect; caches survive a stop | max_connections is kept, or exceeded by no more than the other greenlets; no stub of a closed channel |
| Load shapes and patterns (`shapes.py`, `load_patterns.py`) | the run time | tick | Locust's shape worker | boundaries of steps and phases that fall between two ticks | the profile the docstring describes |
| Run intelligence and CI gate (`intelligence.py`, `thresholds.py`, `cli_analyze.py`, `analysis_service.py`) | none | analyse, check SLOs, verdict | CSV files of Locust | missing rows, NaN, precedence of verdicts | a violated SLO fails the gate, and 0 means what the documentation says |
| Workspace HTTP surface (`workspace_api.py`, `workspace_views.py`) | none of its own beside `_IMPORTS` | routes | store | - | - |
| Reports, exporters, notifications | none | format, send | - | - | - |
| Generators and configuration (`locust_generator.py`, `openapi_parser.py`, `cli_gen.py`, `config.py`, `runner.py`, CLIs) | the generated file | parse, generate, write; then load, start, run a task | Locust, which executes the file | no test runs a generated class: shadowed methods, references, headers | the user that runs is the one the document describes |
| HTTP and GraphQL users (`api_load.py`, `graphql.py`, `soak.py`, `spike.py`, `stress.py`, `web_ui.py`, `auth.py`) | the authenticator, the header kept, `default_registry` | on_start, tasks, query | token cache, registry, environment | tokens rotate and expire under a running user; set-up failures are swallowed | a refusal has a reason; a failure is not reported as a success; a query returns |

`PROJECT.json` lists the hazards of this code line by line, each with the
properties that would catch it.

## 2. Modules and plan

In order of importance of the behaviour.

| Modules | Composition | Run | Proofs |
|---|---|---|---|
| `AnalysisRuns`, `ReleaseCampaign` implements `CampaignReview` | extends; then `ProductWorkspace` | `product_workspace`, `campaign_missing_run` | types, safety, refinement, composition |
| `TokenCache` | `SharedServices` | `shared_services`, `token_duplicate_request` | types, safety, composition |
| `RequestCorrelator` | `SharedServices` | `shared_services`, `correlator_order` | types, safety |
| `WorkspaceStore` implements `BaselineRegister` | extends `AnalysisRuns`; then `ProductWorkspace` | `product_workspace` | types, safety, refinement, composition |
| `ImportSession` | one module | `import_session` | types, safety |
| `RunFiles`, `AnalyzeCommand`, `StoredBaseline`, `VerifyCommand` | `EvidencePipeline` lets them share the files; it implements `ArtifactRegister` | `evidence_pipeline`, `analyze_exit_code` | types, safety, refinement |
| `LocustUser`, `WebSocketUser`, `GrpcUser`, `HttpUser`, `LocustFile` | `LocustUsers`, then `LoadTest` | `load_test`, `generated_auth`, `websocket_maximum` | types, safety of every user, composition |
| `MetricsCollector`, `AlertEngine` | `LiveMonitor`, then `RunObservation`, `LoadTest` | `load_test` | safety of the alerts and the points |
| `LoadShape`, `RunHistory`, `RunAnalysis` | each extends the one before; `RunObservation`, `LoadTest` | `load_test` | shapes, spikes, knee, capacity |
| `GraphQLUser` | one module | `graphql_query_returns` | - |

Each `MC` module and its `.cfg` give one instance (`websocket_maximum` needs no `MC`
module). A run named a violation checks one statement of a document or docstring that
the code does not keep; the other runs find no error.

`ProductWorkspace`, `SharedServices` and `LoadTest` put components side by side that
share no state that either decides on, so that a behaviour is of one of them and one
run checks them all; a theorem of each says that what is proved of a part holds of the
whole. `ProductWorkspace` has the table of analysis runs in common, which only grows.
That is economy and no claim about an interaction.

A definition whose comment begins
with "Variant of" is the other one with a plausible mistake in it; the mistake is
what the property next to it is there to find.

The proofs about a component are in the module of its name with `_proofs`, those about
the users and the observers of a load test in `LoadTest_proofs`, and `InductionLemmas`
has what they share: induction on the natural numbers, the least and greatest of a set,
and the solution of a recursive equation.

Every invariant that a passing run checks is stated by a theorem; what is left to TLC is
listed at the end of section 12.

## 3. ReleaseCampaign and CampaignReview

`CampaignReview` is what a campaign promises: opened with a table of slots,
revised as a whole, sealed at most once with a table that was in force at some
time, unchanged afterwards. `ReleaseCampaign` is the code.

| Code | Model |
|---|---|
| rows of `campaigns`, `campaign_slots` | `campaigns[c]`, `slots[c]` (a function from `<<environment, scenario>>` to a run: the UNIQUE constraint makes it one) |
| `campaign_hash`, `finalized_json`, `readiness` | `campaigns[c].frozen`, the label and slots they are computed from |
| `campaign()` | `ReadRow`, then for a viewer `ShowCampaign`: its two SELECTs are separate statements on an autocommit connection, so an edit may come in between |
| `update_campaign()` | `ReadRow`, `PrepareEdit` (checks, clock), `CommitEdit` (the transaction with `state='DRAFT' AND updated=?`) |
| `finalize_campaign()` | `ReadRow`, `PrepareFinalize` (second SELECT, `build_campaign`, checks, clock), `CommitFinalize` (UPDATE, audit, answer) |
| `create_campaign()`, `save_analysis_run()` | one step each: their reads are of immutable rows |
| `build_campaign()` | `Status`, `PolicyDrift`, `BaselineDrift`, `Readiness` |

`shown[u]` is what a client last saw, the source of the `expected_updated` it
sends back; `submitted` is a history variable for the refinement.

Abstractions. `time.time()` readings that stamp rows are distinct and ordered
(`clock` counts them). Blank, overlong and duplicate names are refused before
anything is read and are not inputs. The reads of runs inside the second SELECT
and the eligibility loop are one step with it: rows of `analysis_runs` never
change or disappear, so when they are read makes no difference except that a run
may be saved a moment later. Descriptions and policies other than their identity
are left out. `baseline_created` is never supplied by the store, so
`BASELINE_STALE` is unreachable and not modelled.

Run `product_workspace`, campaigns: two clients, two campaigns, two labels, three runs
(one advisory, one failing, one sample), three slot tables, four clock readings. That is enough
for two edits racing from one token, an edit between a finalizer's reads and its
UPDATE, two finalizers, a label taken between a check and a commit, and a
rollback. `MaxSlots` is the code's 20, which tables of two slots do not reach:
the limit is an input check. Clients and campaigns are interchangeable in every
definition, so both are symmetric; no liveness is checked under symmetry.
Deadlock is not checked in this run: the calls of the store are bounded.

* `CampaignTypeOK` - also says a campaign has a row exactly if it has slots (the two
  inserts of `create_campaign` are atomic) and the stages of a call carry what
  they need.
* `TokenNamesContent` - a token that is still current certifies the label and the
  slots its holder was shown, although they came from two snapshots. It depends
  on the row being read *before* the slots.
* `NoLostUpdate` - an accepted edit replaces exactly what its author was shown.
* `FrozenIsAudited` - a campaign is finalized exactly if the audit says so, with
  the projection the row holds, also when finalizers race.
* `ImplementsReview` - the refinement.

Run `campaign_missing_run` finds the counterexample to
docs/release-campaigns.md:3, "Finalization is allowed only when every slot
references a persisted run": `FAIL` outranks `INCOMPLETE` in `build_campaign`
and only `INCOMPLETE` is refused.

`CampaignReview` says on purpose that a seal need not be the *last* table:
`finalize_campaign` does not compare tokens, so an edit accepted between its
reads and its UPDATE stays in the table but not in the frozen projection.

## 4. TokenCache

| Code | Model |
|---|---|
| `_shared_token`, `_shared_expires_at` | `sharedToken`, `sharedExpiresAt` |
| `_is_token_valid()` | `CheckToken`, `CheckExpiry`: two unlocked reads |
| `authenticate()`, `get_headers()` | `Call` with two checks or one, `Proceed`, `Return` |
| `_request_token()` | `Post`, `Receive` or `Fail`, `Acquire`, `StoreToken`, `StoreExpiry` |
| token endpoint | `Issue` |
| passing seconds | `Tick` |

Abstractions. The steps of a caller take no time; seconds pass while callers are
outside a call or waiting for their POST. Threads interleave at every step, which
includes all that greenlets can do. An answer arrives at most `Timeout` after the
token was issued, the timeout given to `requests.post`. `expires_in` is numeric
and is the lifetime the endpoint enforces. Lifetimes are longer than the safety
margin, and the timeout is not longer than the margin, as with the defaults 30
and 10 (`TimingAssumption`); with shorter lifetimes every check fails, which the
assumption leaves out.

Run `shared_services`, authenticator: two callers, lifetimes 3 and 6, margin 2, timeout 1, eight
seconds: a short token issued late replaces a long one, both run out, and there
is time for a second refresh.

* `HeadersAreAccepted` - a header carries a token, and the endpoint still accepts
  it.
* `ValidTokenIsReused` - a call that finds the cache valid never POSTs, even while
  another caller is between the two assignments.
* `CallsReturn` - every call ends. It stands for the absence of deadlock, which the
  run does not check: the correlator stops at its bound.

Fairness: weak fairness of each caller's own steps. A thread that can run is
eventually run, and the POST has a timeout. No fairness of new calls or of the
endpoint (a POST may always fail). The lock needs only weak fairness since each
holder leaves it in two steps and time stops new rounds within one instant.

Run `token_duplicate_request` contradicts docs/auth-providers.md:120: the POST is
outside the lock, so several callers do send duplicate token requests.

## 5. RequestCorrelator

`OnRequest` is `_on_request`, whole, under its lock; it is called at completion
with the time of the start, so requests of one user id overtake each other when
senders share it. `SummaryCounts` and `SummaryChains` are the two locked reads of
`get_summary`; the counts are represented by the cascades.

Abstractions: Locust always passes `start_time`; the name of the parent request
is reduced to whether there is one; response data are left out; chains of equal
length come in an order the model leaves open. A chain is the position of its root in
the log and those of its dependents, since events are told apart by nothing else.

Run `shared_services`, correlator: two senders, one of user `a` and one of `a` or `b`,
window 1, three instants, four completed requests. Four are enough for a root,
two dependents and a gap, or for the chains of two users. Requests without a user are in
the proofs only.

* `CascadesHaveCause` - a failure that is marked follows an earlier failure of its user
  within the window (docs/request-correlation.md:63), and one whose previous request
  failed within the window is marked (lines 139-142), however requests overlap. Where a
  success lies between two failures the two rules differ, and nothing is claimed.
* `ChainsAccountForCascades` - chains rebuilt by scanning the log contain every
  cascade once; a root has depth 0, its first dependent 1, no other less. The page has two
  rules for the others, and nothing is claimed.
* `SummaryIsBracketed` - a summary that mixes two moments still accounts for the
  cascades it counted and for none that was not recorded yet.

Run `correlator_order` contradicts docs/request-correlation.md:71: the events come in the
order of completion, not of their timestamps.

## 6. WorkspaceStore and BaselineRegister

`BaselineRegister` is what docs/baseline-decisions.md promises of baselines: per
environment at most one is active, a promotion replaces it in one step, what was
replaced stays retired, and only acceptable runs get in. `WorkspaceStore` is the
part of `PerformanceWorkspace` whose calls decide on a SELECT and then write.

| Code | Model |
|---|---|
| `promote_baseline()` | `PreparePromotion` (run, eligibility), `CommitPromotion` (UPDATE and INSERT) |
| `create_scenario()` | `LookUpKey`, `InsertScenario` |
| `create_run()`, `connect_worker()` | one step each; they read rows that never change |
| `recovery_plan()` | `CountWorkers`, `MarkRun` |
| `set_rate_card()`, `estimate_capacity()` | one step each; `CardAges` is `max_age` passing |
| `approve_estimate()` | `CheckEstimate`, `ApproveEstimate` |
| `save_analysis_run()` | one step |

The split follows Python's `sqlite3`: a transaction is opened at the first INSERT
or UPDATE, so the SELECTs before it see an earlier state. `answered`, `complete`
and `priced` are history variables.

Abstractions: input checks that happen before anything is read are not inputs;
amounts, names, time stamps and the audit table are left out (the audited
`old_id` and the `superseded` stamp of overlapping promotions are a hazard no
document settles). A client that waits ten seconds for the lock and gives up, or
dies, is one that stays between its two steps forever.

Run `product_workspace`, store: two clients, three analysis runs (one advisory, one
failing, one sample), two environments, three baselines, one key, two scenarios,
two load runs that ask one or two workers of one zone, two workers, one card and
one estimate, five calls beside the runs saved. Five are enough for two environments to
be promoted twice, two creations to overlap and a third to be answered from the key, or
two load runs to share workers, be counted and be marked. Campaigns, baselines,
scenarios and load runs draw from the same two ids (baselines have a third), which are
symmetric: no call compares an id of one kind with one of another. The run
stops when the calls are used up, so deadlock is not checked.

* `TypeOK` - also that rows named by workers, baselines and calls exist.
* `KeyNamesOneScenario` - the key's scenario is the only one created under it and
  the one every returned call got; an overlapping call fails and leaves nothing.
* `ReadyWasComplete` - a run marked READY once had all its workers at one time. It
  may have lost them since: the state is not revised, and `INSERT OR REPLACE` lets
  a worker move.
* `ApprovedWasPriced` - what is approved was not stale when it was computed. The
  card may be stale at the time of approval.
* `ImplementsRegister` - the refinement.

## 7. ImportSession

| Code | Model |
|---|---|
| `run_import_validate()`, `SafeRunImporter.extract()`, `discover_candidates()` | `Extract`, `Register` or `RefuseArchive` |
| `run_import_commit()` up to the `mkdir` | `BeginCommit` |
| `commit_candidate()` | per file `HashFile` and `CopyFile`, or `RefuseFile`, `CopyFails`, which share `Abandon` |
| `analyze_decision()`, `save_analysis_run()` | `SaveRun`, or `AnalysisFails` |
| `shutil.rmtree(staging)`, `_IMPORTS.pop` | `RmtreeStep` per entry, `PopSession` |
| `sample_info()` | `LookUpSample`, `InsertSample` or `SampleFails` |
| crash of the server | `Restart`: `_IMPORTS` and the requests are lost, directories and table stay |
| 1800 seconds, another program writing to staging | `Age`, `ChangeStaged` |

Nothing locks `_IMPORTS` or the directories, so a request is split wherever it
touches them. The preview is a reference, so a commit goes on when another one
pops its session. A file holds what was hashed at validation or something else.
Requests that are answered without touching anything (unknown or expired session,
bad form, sample already there) are stutters. `raced` and `overlapped` are history variables.

Run `import_session`: two clients, one session, three run ids, an archive of three
files with a candidate of two and a candidate of one, one crash, one change. Two
clients on one session are what can collide; sessions share nothing, and the proof
covers any number. Three ids leave one for a retry beside two commits under way.
Deadlock is not checked: ids run out when failed analyses keep their directories.
Fairness: weak, per client, on the steps of a request that began - a thread of the
server is scheduled until its request is answered. Nobody is obliged to send one.

* `TypeOK` - also that a request has the locals of its place.
* `EvidenceIsWhole` - an imported run has exactly the files mapped for it, although
  commits copy what others are deleting: one of them then fails and cleans up.
* `EvidenceWasValidated` - changed evidence is refused, except for a change between
  the hash and the copy of one file, which `commit_candidate` reads separately.
* `EvidenceIsKept` - nothing touches the row or the storage of a saved run.
* `FailedCommitCanBeRepeated` - a session on offer has all its staged files until a
  commit that has saved its run deletes them.
* `OfferedUntilCommitted` - a session that has given a run is on offer only while
  the commit that saved it is cleaning up. Two overlapping commits may each save a
  run; a commit sent after the first has returned cannot.
* `SamplesOnlyFromOverlap` - of two sample runs, the requests that made them were both
  between look-up and insert at one time: `overlapped`, a history variable, has the
  pairs of which this is so, and requests one after the other are in none.
* `CommitDeletesStaging` - a commit that has saved its run deletes its staging
  directory and its session, unless the process ends first. Then the directory
  stays for good: nothing scans the staging root. So does the storage directory of
  a run whose analysis fails.

## 8. EvidencePipeline

What turns the CSV files of a run into evidence. `RunFiles` is the shared disk: the
CSV files of the run (`csv`) and of the run that may be its baseline (`prior`), the six
artifacts and what a power failure may leave of each. The
commands are modules over it, and `EvidencePipeline` interleaves them with Locust
rewriting the CSV files.

| Code | Model |
|---|---|
| `cli_analyze.py` `main()` | `Start`, `Analyze`, then per artifact in the order of `main`: `PutDecision`, `Reanalyze`, `Truncate` ...; `Fail` or `WriteFails`; `Exit`; `Kill` |
| `_resolve_baseline()` | `Baseline`: the CSV files of the prefix if there are any, else the stored baseline |
| `atomic_write()` | `PutDecision`: one step, because only the rename is visible, and flushed |
| `create_evidence_bundle()` | `Reanalyze` (it analyzes the run again), `Collect` (it reads the CSV files once more, `Sources`), `PutBundle` (replaced, not flushed) |
| `write_text` of the output | `Truncate`, `Fill` |
| `save_baseline()` | `SaveReads`, `SaveTruncates`, `SaveFills`, `SaveStops` |
| `build_verification_bundle()` and its writer | `Decide`, `Pack`, `TruncateBundle`, `FillBundle`, `BuilderStops` |
| `verify_bundle()` | `Verdict`; `StartVerify`, `VerifyFirst` |
| `reproduce_bundle()`, `extract_verified()`, `decision_diff()` | `VerifyAgain`, `Unpack`, `Repeat` with the `PackedBaseline`: the path is opened three times |
| `check_slos()`, end of `analyze_run()`, `build_decision()` | `SloResults`, `ReportExitCode`, `Decision` |
| Locust's CSV writer | `LocustRewrites`: `Rewrite` of the run, `RewritePrior` of its baseline |
| power failure | `PowerFailure`: it ends every command and may bring back any content of one file that was not made durable; a file whose data was not flushed may be torn |

Abstractions. One analysis reads the CSV files at one instant, and one opening of a
ZIP reads it at one instant. All commands give the baseline one name, and packed CSV
files of a baseline keep that name, which a decision quotes. A stored baseline is not
packed, so a decision made against one is repeated without it and drifts. A content is known by its p95 against the one SLO and by
a number. Findings other than the SLO, the reasons why a ZIP is invalid (torn and
missing stand for all), markup and schema versions are left out. A power failure
damages one file at a time; no property compares two damaged files. Temporary files
that a killed command leaves behind are not modelled: nothing reads them.
`write_bytes` to the path of a verification bundle is what the tests do with the
bytes that `build_verification_bundle` returns. `steady` and `quiet` are history
variables.

Run `evidence_pipeline`: two contents (one violates the SLO, one lacks the Aggregated
row), a baseline that has CSV files or not and may be saved, one rewrite, three commands,
one power failure. The analyses and the verifiers meet only in the files, so a behaviour
has either two analyze commands, with two argument lists, and a baseline being saved, or
one of them that puts a bundle, beside a builder (with an SLO and a baseline) and a verifier:
the constraint `AnalysesOrBundles`. The first is enough to race on one path while a
baseline is written, the second for a bundle to be rewritten between two of the reads of
the verifier, and for each reason why a decision cannot be repeated. Analysts are
interchangeable. The run stops when the commands are used up, so deadlock is not checked.

* `PipelineTypeOK` - also that no decision is ever torn and that each command has
  what its next step needs.
* `ExitCodeMatchesArtifacts` - 1 exactly if something asked for is missing; otherwise 2
  exactly if the SLO is violated; and a bundle says what the decision says, with the
  files it was made from, unless the inputs changed between the two analyses. It does
  not say that 0 is a pass: see below.
* `ReproductionTellsTheTruth` - MATCH and DRIFT are true of what was unpacked: MATCH
  exactly if the decision was made from the packed files of the run and of its baseline,
  or without one, and its SLO had a result. A valid bundle that nobody touches gets one
  of them.
* `ImplementsRegister` - the refinement: a decision that a reader finds is whole and
  was made by some command; only a power failure brings an earlier one back.

Run `analyze_exit_code` contradicts docs/ci-cd-gates.md:163 and
docs/ai-performance-intelligence.md:63, which make 0 mean that every configured SLO has
passed: without the Aggregated row the SLO has no result, and the exit code is 0.

## 9. LoadTest: the users

`LocustUsers` runs one user at a time: users of one process share none of the state
of these modules except the registry, the environment and the token cache, which
`HttpUser` lets others change at any time. `LoadTest` puts the users beside the
observers of section 10; they share no state, so one behaviour is of a user or of an
observer, and one run covers all of them. That is economy and no claim about their
interaction: the requests an observer sees come from a set.

| Code | Model |
|---|---|
| `WebSocketUser.connect` | `Connect`, `Connected` or `ConnectFailed`: the greenlet switches in `create_connection` |
| `send`, `receive`, `close` | `Use`, `Used`; `Close`, `Closed` |
| `on_stop`, `GreenletExit` | `StopUser`, `StopNext`, `StopClosed`, `StopClears`, `StopKilled` |
| `GrpcUser.on_start`, `_get_channel`, `_get_stub`, `_call_rpc` | `SetupAuth`, `GetChannel`, `GetStub`, `CallRpc`, `GetAuthMetadata`, `CallEnds` |
| `GrpcUser.on_stop` | `StopGrpcUser`, `StopGrpcEnds`, `StopGrpcKilled` |
| `AuthRegistry`, `create_authenticator`, the providers | `Register`, `Unregister`, `Authenticate`, `Headers` |
| `_setup_auth` of APIUser and GraphQLUser | `OnStart` |
| the tasks of the HTTP templates | `ApiTask`, `ApiTaskFallback`, `ApiTaskFails`, `Query`, `PlainTask`, `Answer` |
| `parse_spec` | `Parses`, `Endpoints`, `EndpointInfo`, `Security` |
| `generate_locust_script`, `cmd_from_openapi` | `Script`, `GeneratedTask`; `ParseFails`, `DryRun`, `OpenOutput`, `WriteOutput`, `WriteFails` |
| the generated file in Locust | `Load`, `StartUser`, `ClassTasks`, `RunTask` |

Gevent greenlets switch only where they wait, so what lies between two waits is one
step. `LocustUser` says which greenlet Locust stops and how. A token is known by who
issued it or, from OAuth2, by when it expires; `HttpUser` takes from `TokenCache` that
`get_headers` yields an accepted token or raises. A document is a record with the
structure that the parser looks at. `Spelling` and `PathName` give the texts that the
generator makes of operation ids, parameters, methods and paths, which may be the same;
`Placeholders` what a path has in braces, `Defined` the names that Python resolves. So a
task whose URL has `{id}` is sent with the repr of a function in it, and one with
`{pet_id}` raises. That a method has the name of a member of `HttpUser` (`client`,
`host`, `on_start`), which it would replace, is left out.

Instance: Main and two helpers, a limit of one connection and three ids, so that two
helpers can overshoot by two while a stop runs; two channels and two stub classes, so
that a second channel could be seen; all six HTTP classes, every provider, static
tokens that are right and wrong, headers with and without a custom name or format,
OAuth2 tokens of up to two seconds in three seconds; documents with references
(one level, two levels, dangling), names that operation ids share with each other or with
a path, parameters that their path does not have or that are called like a function of
Python, schemes in both orders, a body, a Swagger 2 document, names that are no
identifiers.

* `PoolBound` - max_connections is exceeded by at most the number of other
  greenlets; it is kept when Main is alone. That it is exceeded at all is run
  `websocket_maximum`.
* `OnlyAStopLeaks` - an open socket outside the pool was entered while `on_stop` was
  closing the others. No kill, failure or overlap of other operations loses one.
* `OneChannel` - no channel but `_channel` is open, and until the stop all stubs and
  calls are on it.
* `RefusedForAReason` - why a request can be refused: a failed set-up, a wrong or
  replaced token, a custom header of an APIUser, or the header that a GraphQLUser
  keeps past its expiry. Nothing is claimed of an APIUser of the env provider once its
  variable has been replaced (`RereadPromised`), where the code does not do what is
  documented: section 13. A failure is never reported as a success.
* `UserIsTheDocuments` - a generated user does what its document says, up to
  shadowing of methods by others of the same name, replacement of headers by a bearer
  token and path parameters, which it makes explicit: a path is sent as the document has
  it exactly if it has no braces or no path parameter is declared; otherwise what is in
  the braces is evaluated, and the task raises unless all of it is defined. A key whose
  header is itself Authorization is one of the headers.

Violations:

* `generated_auth` - the generated `on_start` reads the token into `self.headers`, and no
  request carries it, against docs/openapi-to-locust.md:127.
* `websocket_maximum` - two greenlets of one user get a connection each although the
  limit is one, against docs/websocket-testing.md:22, 89 and 151.

## 10. LoadTest: the observers

| Code | Model |
|---|---|
| `MetricsCollector` | `RecordRequest`, `Reset`, `Summary`, `Percentile`: each under its lock, one step |
| `record_from_collector` | `TakeSummary`, `TakePercentile` per endpoint, `TakePoint` |
| `record`, `clear` of the dashboard | `RecordGiven`, `ClearHistory`; the deque is `RecordPoint` |
| `AlertEngine.check`, `add_rule`, `clear_alerts` | `Check` with `CheckRule` per rule, `AddRule`, `ClearAlerts` |
| the reporter loop (docs/live-dashboard.md) | `CheckLatest` |
| `tick` of the four shapes | `StepUsers`, `SpikeUsers`, `ConstantUsers`, `RampUsers` |
| `resolve_pattern` | `Resolve` |
| Locust's history file, `_history_point` | `Tick`, `HistoryPoint` |
| `detect_error_spikes` | `Scan`, `ErrorSpikes` |
| `detect_rps_saturation_knee` | `Curve`, `Knee` |
| `_project_metric` | `Fitted`, `Capacity` |

Floats are fractions compared by cross-multiplication, except the smoothed series,
which are in hundredths. Percentiles are in hundredths of the unit, where linear
interpolation is exact. Percentiles of a history row are taken as given.

Instance: two endpoints, two requests, of which a fast one succeeds and a slow one
fails, one point, two alerts, two rules of which one
is added later; one step, one constant and one ramp shape, a spike and a dip, ticked every or
every other unit for six ticks; four kinds of answer. Six rows are one more than the
five that a knee and a projection need. Two requests of an endpoint are enough for an
interpolated percentile, and for one to be recorded between the two locks.

* `AlertsMatchBreaches` - the alerts are, in order, the breaches that the checks
  found, with deduplication the first of each stretch, whatever rules are added. Once a
  check is not given the metric of a rule in breach (`missed`), nothing is claimed until
  the next clear: code and documentation differ, section 13.
* `PointIsBracketed` - a point that mixes several locked reads has the p95 of states
  between its first read and its last.
* `LoadFollowsPlan` - no shape exceeds its peak, falls or rises when it must not, stops
  early or starts again, however irregular the ticks.
* `SustainedSpikeIsOneWindow`, `KneeIsTheBend`, `CapacityIsBeyondTheLoad` - the
  analysis against what its comments and names promise, without its formulas: a
  sustained spike is one window, the knee of a bent line is its bend, a projected
  capacity is not below the tested load and is exact on a line.

The whole run has 1.0 million states, and neither part has fairness: nothing in these
properties is about progress, and users and samples stop at the bounds, so deadlock is
not checked. The endpoints are interchangeable.

## 11. GraphQLUser

`Scan` is one round of the loop of `_compute_complexity` over the tokens of a text;
`Query`, `Compare` and `Answer` are `query()`. Fairness: weak, of the user's own steps
and of the answer to its POST, which ends or times out. The rounds flip `round` so
that a round that moves nothing is still a step; without it the loop would look like
a deadlock. Run `graphql_query_returns` finds the behaviour in which the scanner
stays at the colon of an alias for ever (graphql.py:139) although `score_query`
promises a value for every text. In a gevent process that greenlet never yields, and
every other user stands still.

## 12. Proofs

TLAPS proves, for every value of the constants that satisfies the assumptions:

| Theorem | Says | Argument |
|---|---|---|
| `ReleaseCampaign_proofs!TypeCorrect` | `CampaignTypeOK` always holds | by actions |
| `TokensNameContent` | `TokenNamesContent` always holds | `TokenInv`: stamps that are taken and not yet written differ from every token in sight, so a write cannot make an old token current; and a row being read still names its label while its token is current |
| `NoUpdateIsLost` | `NoLostUpdate` | from `TokenInv`: the token compared in the UPDATE certifies the author's screen |
| `FrozenMatchesAudit` | `FrozenIsAudited` always holds | by actions, on top of type correctness |
| `StoreImplementsReview` | `CampaignSpec => Review!Spec` | `ReviewInv`: tables are submitted tables, drafts are unsealed, a finalizer carries a submitted table that may be sealed |
| `TokenCache_proofs!TypeCorrect` | `TypeOK` always holds | by actions |
| `ValidTokensAreReused` | `ValidTokenIsReused` always holds | `ReuseInv`, on top of `HeaderInv`: who found the cache valid finds it valid at every check until it returns, since no assignment of another caller invalidates it |
| `ServicesRunTheirParts` | `ServicesSpec` implies the specifications of token cache and correlator | each step is one of a part and leaves the other alone |
| `CorrelatorTypeCorrect` | `CorrelatorTypeOK` always holds | by actions |
| `CascadesAreCaused` | `CascadesHaveCause` always holds | `CascadeInv`: the history of a user is the trace of its events in the log, the one of rank `k` at position `k`, and every event is marked by the one before it in that trace |
| `ChainsAreAccounts` | `ChainsAccountForCascades` always holds | from `CascadeInv`: going back from a cascade its user's events are cascades down to a root, by induction; the chains of two roots are disjoint, and the depth of a dependent is its rank, more than the property says; the lengths add up by induction on the list |
| `SummariesAreBracketed` | `SummaryIsBracketed` always holds | `SummaryInv`: the cascades of a log never become fewer, and the list of a summary is, unless cut off, that of a log |
| `HeadersStayAccepted` | `HeadersAreAccepted` always holds | `HeaderInv`: one holder of the lock; the stored expiry exceeds the true one by the timeout at most, which the margin covers; between the two assignments the token is at most one timeout old |
| `WorkspaceStore_proofs!TypeCorrect` | `TypeOK` always holds | by actions; `EnterKeepsCalls` carries the calls of the other clients over a step |
| `KeysAreIdempotent` | `KeyNamesOneScenario` always holds | inductive on top of `TypeOK` |
| `ReadyRunsWereComplete` | `ReadyWasComplete` always holds | `ReadyInv`: a run that has its workers is in `complete`, and so is one about to be marked; a worker that moves cannot complete the run it leaves (cardinality of subsets) |
| `ApprovedWerePriced` | `ApprovedWasPriced` always holds | `PricedInv`: also for estimates about to be approved |
| `StoreImplementsRegister` | `Spec => Register!Spec` | `RegisterInv`: whoever is about to promote is eligible; `CommitPromotes` shows the transaction to be a `Promote`, every other step stutters |
| `WorkspaceRunsItsParts` | `WorkspaceSpec => CampaignSpec /\ Spec` | saving an analysis run is the same step for both; every other step of one leaves the tables of the other alone |
| `ImportSession_proofs!TypeCorrect` | `TypeOK` always holds | with the invariant below: a copy needs the directory it copies to |
| `EvidenceIsAlwaysWhole`, `EvidenceIsAlwaysValidated` | `EvidenceIsWhole`, `EvidenceWasValidated` always hold | `Inv`: run ids are apart, so only its own request touches a run that is not saved (`RunIsMine`); the copies so far are those of the files before the loop index; what is under copy was hashed or has raced |
| `FailedCommitsCanBeRepeated`, `SessionsAreConsumedOnce` | `FailedCommitCanBeRepeated`, `OfferedUntilCommitted` always hold | `Inv`: a validation has its session alone and unregistered (`SessionIsMine`, `Apart`), so a session is registered once and before any run of it |
| `SamplesComeFromOverlap` | `SamplesOnlyFromOverlap` always holds | `SamplesInv`: any two of the requests about to insert a sample and the samples inserted overlapped. A request begins to insert only where there is no sample, and then overlaps all that are about to |
| `SavedRunsAreKept` | `EvidenceIsKept` | from `Inv`: whoever writes a row or a directory works on a run that is not saved |
| `LoadTest_proofs!WebSocketTypeCorrect` | `WebSocketTypeOK` always holds | by actions |
| `PoolIsBounded` | `PoolBound` always holds, for any number of greenlets | by cardinalities: `Connect` needs room, and `Connected` moves one from the connects under way to the pool. Main is counted apart: it checks the limit like all others, hence the `- 1` |
| `OnlyStopsLeak` | `OnlyAStopLeaks` always holds | `StopHasThemAll`: while Main stops, what is in the pool and not late is still to be closed |
| `LoadTest_proofs!GrpcTypeCorrect` | `GrpcTypeOK` always holds | by actions |
| `ChannelIsSingle` | `OneChannel` always holds | `ChannelIsUsable`: a stopping Main closes the channel that is in the field, and the field holds an open one until then |
| `LoadTest_proofs!HttpTypeCorrect` | `HttpTypeOK` always holds | by actions |
| `RefusalsAreExplained` | `RefusedForAReason` always holds | `TrustIsEarned`: a token accepted at set-up and not replaced is the one issued last, or from OAuth2 |
| `UsersAreTheirDocuments` | `UserIsTheDocuments` always holds, for any documents | `FileInv`: a file that is written is the script of a document that parses, and a user that has started has the headers of its set-up. Each loop of the parser and the generator gives what its list comprehension would (`EndpointsAreOperations`, `SetupIsRequired`); a class keeps a method of every name (`ClassHasEveryName`, the greatest index); `SetHeader` keeps the headers those of the schemes so far. A task has the name of its operation, and the expressions of its URL are there exactly if the path has placeholders and a path parameter is declared, defined by Python or not |
| `AlertsAreBreaches` | `AlertsMatchBreaches` always holds | `AlertInv`: with unique names the active names are those of the rules breached at the last check; within a check the same holds of every prefix of the rules, by induction on the loop |
| `PointsAreBracketed` | `PointIsBracketed`, for any number of requests between two locked reads | `PointInv`, `TakingInv`: until a point is disturbed, its p95 so far is the greatest of percentiles that the endpoints done had in states since its summary. A percentile is the number it is named for because place `k` of a sorted list has `k - 1` records before it (`SortedByRank`, by counting; that a list can be sorted, by induction) |
| `LoadTestRunsItsParts` | `LoadTestSpec` implies the specification of each user and of the monitor | each step of the whole is a step of a part and leaves the others alone |
| `LoadTestIsSafe` | the properties proved of a part hold in the composition | from the one above |
| `LoadIsAsPlanned` | `LoadFollowsPlan` | `HistoryInv`: users are those of the shape at the time of the last tick. For each shape a lemma with the arithmetic of its divisions (`StepFollowsPlan`, `RampFollowsPlan`, ...) |
| `SpikesAreWhole` | `SustainedSpikeIsOneWindow` always holds | `HistoryInv`: rows are in the order of time, at most a pace apart. For every prefix of the loop a running spike keeps the background it began with, so that a rate that does not fall stays flagged; a window ends at the first gap, and two windows have a gap between them |
| `CapacityIsNotWithin` | `CapacityIsBeyondTheLoad` always holds | the projection is the greater of the breach and the tested loads by definition, and the knee is a tested load; on a line the sums of the fit are linear (`SumIsLinear`), so that its slope is that of the line (`SlopeOfLine`) and the breach is where it meets the SLO |
| `KneesAreBends` | `KneeIsTheBend` always holds | the distance from the chord grows strictly up to the bend and falls strictly after it (`FarthestAtTheBend`); a line fitted to a stretch is no flatter than its flattest step and no steeper than its steepest (`SlopeIsNoFlatter`, from Chebyshev's inequality for sums, `SumsOfClimbing`), so on both sides of a single bend it is the stretch itself, and after the farthest point of a curve that never gets steeper it does not turn up |
| `EvidencePipeline_proofs!FilesAreWhole` | `PipelineTypeOK` always holds | `PipelineInvariant`: files, remains and every command are well formed, and a command has what its place needs |
| `DecisionsImplementRegister` | `PipelineSpec => JsonRegister!Spec` | `RegisterInv`: what a power failure may bring back was offered once; offers only grow |
| `ExitCodesAreTrue` | `ExitCodeMatchesArtifacts` always holds | `Consistent` (the outcome so far agrees with the report) and `Fresh` (a steady command would make the same report again) |
| `ReproductionIsTrue` | `ReproductionTellsTheTruth` always holds | `Truthful`, `StillValid` (a quiet bundle that was valid is valid), and `ReproducedIffReproducible`: repeating an analysis, with the baseline as it was packed, gives the decision exactly if it is reproducible |

Assumptions: `CampaignAssumption`, `StoreAssumption` and the `ConstantsAssumption` of
RequestCorrelator (types of the constants, a null value outside the data),
`TimingAssumption` and `NoneAssumption` of TokenCache, `ImportAssumption` (a candidate
maps at least one file, its stats), `RowAssumption`
(the null value is no saved row), `RuleAssumption` (rules come in lists),
`ShapeAssumption` (durations and numbers of users with which no `tick` divides by zero),
`SampleAssumption` and `AnalysisAssumption` (what is measured and the thresholds are
natural numbers), `CollectorAssumption` and `MonitorAssumption` (types; the null value
is no point), `GreenletAssumption`, `WebSocketAssumption`, `GrpcAssumption` (Main is one
of finitely many greenlets; ids and channels are not the null value),
`HttpAssumption` and `NoTokenAssumption` (types; what stands for no token is no token),
`DocumentAssumption` (what is a list in a document is one, an operation id is not null,
and what stands for no headers is no headers),
`FilesAssumption`, `ArgumentsAssumption`, `BuildArgsAssumption`, `ContentsAssumption` and `NullAssumption`
(types; no file and a torn file are told from every content). TLC evaluates each of
them.

The invariants are not inductive as they stand: `TokenNamesContent` says nothing of
clients in the middle of a call, `HeadersAreAccepted` nothing of the expiry that lets a
caller reach its header, `OneChannel` nothing of which channel is being closed,
`PointIsBracketed` nothing of a point that is being taken, `ExitCodeMatchesArtifacts`
nothing of commands that have not ended.

Induction over data. What a loop computes is proved for every length of its list. The
loops are recursive functions over `0 .. n`; `RecursionHasSolution` gives such a
function from its step, itself given as a function, and `NatSetInduction` proves a set
of numbers to be all of them. Both are first-order, which is what the provers can use.

Only model-checked:

* `CommitDeletesStaging`, `CallsReturn` and the fairness part of every liveness
  property: liveness and ENABLED are outside the prover's reach.
* The seven counterexamples.

## 13. Seen in the code and not stated as properties

Each was met while translating; none is counted as a finding.

Analysis and gate
* `Aggregated` is compared case-sensitively. Percentiles that Locust writes as "N/A" are
  read as 0.
* The ZIP of `analyze --bundle` is UNSUPPORTED by `verify`: the schemas differ.
* A path that stops being a ZIP between the second and the third read raises
  `BadZipFile`, which nobody catches (`Unpack`, status "crash").
* The docstring of `detect_error_spikes` speaks of the aggregated history; the loop
  uses all rows. The error rate of a row divides by requests plus failures, and the
  requests contain the failures. The smoothing of regressions runs over all rows too.
* A flat or improving projection can stand beside a violated SLO.

Users
* EnvTokenAuthenticator keeps the token it read first (auth.py:190), where
  docs/auth-providers.md:60-63 says "it is re-read on each `get_headers()` call".
* APIUser ignores `header_name` and `header_format`. GraphQLUser never refreshes
  `auth_headers`.
* `GraphQLUser.query` uses `catch_response` without `with`, so its requests are not
  reported to Locust.
* The stubs of a closed gRPC channel stay in the cache after `on_stop`.
* `score_query("{ hero { name } }")` is 3 by its docstring and 6 by its code.
* An `expires_in` that is not above the safety margin makes every check fail, so that
  each header costs two POSTs; `TimingAssumption` excludes it.

Correlator
* A failure is compared with the request of its user just before it ("Only consider the
  most recent request", correlator.py:195; docs/request-correlation.md:139-142), so that a
  success hides the failure before it; line 63 of the page and the docstrings
  (correlator.py:40-42, 123-124) ask only for a previous failure within the window.
* Depths grow along a chain (line 144 of the page and the code); the example in lines
  152-155 gives three dependents of one chain depth 1 each.

Shapes and alerts
* A deduplicated alert fires again after a check that was not given its metric
  (alerts.py:149-152); alerts.py:120-123 and docs/live-dashboard.md:127-129 say that "a new
  alert fires only after the metric returns below threshold and then breaches again".
* StepLoadShape stops at the tick that would run `max_users`, unless its first step has
  them. SpikeLoadShape never stops. The arguments that `resolve_pattern` gives for a
  spike contain a `spawn_rate` the constructor does not have.
* Rules that share a name share their place in the set of active rules.

Generator
* The snippet of every pattern but "constant" uses a name, `environment`, that the file
  does not define: it cannot be loaded. Titles and operation ids that are no
  identifiers give a SyntaxError.
* Methods with one name shadow each other while `endpoints_processed` counts all. A
  bearer scheme replaces the header of an earlier API key. A document whose schemes set
  no header gives an AttributeError in `on_start`. Parameters of a path item are
  ignored; a reference to a reference is not followed; path parameters have no values
  (docs/openapi-to-locust.md:249 says so): a NameError, unless Python defines the name,
  as it does `id`. The output is written in place.

Import: docs/run-inbox-and-import.md:9 announces 409 for changed evidence, the handler
answers 422; the default candidate "-1" makes a form without a choice commit the last
candidate, where docs/run-inbox-and-import.md:3 requires an explicit choice.

## 14. Not modelled

* Of the workspace store: results, policies and their evaluation, waivers and secrets,
  diagnostics. Each call either writes one row or reads rows in one connection;
  nothing decides on what it read and then writes.
* Of `intelligence.py`: drift, regressions against a baseline, correlations, ranking,
  insights, the language model; and `PerformanceBaseline.compare`: floating-point
  statistics whose specification would be the formula itself.
* Reports, exporters, notifications, HTML pages, request parsing and headers of the
  HTTP surface: formatting and one-way I/O with no state of their own. The
  state-changing calls of the HTTP surface are those of the store and of the import.
* `config.py`, `runner.py`, argument parsing.
* Of what is modelled: request bodies, task weights and waits, spawn rates, names of
  files and rows, wording.
