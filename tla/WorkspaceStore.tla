--------------------------- MODULE WorkspaceStore ---------------------------
(***************************************************************************)
(* The part of PerformanceWorkspace (product_workspace.py) that promotes   *)
(* analysis runs to baselines, creates scenarios under idempotency keys,   *)
(* plans the recovery of load runs whose workers are missing and approves  *)
(* estimates of capacity.                                                  *)
(*                                                                         *)
(* Several clients (request threads of the workspace server, or scripts)   *)
(* use one SQLite file, each call on a connection of its own.  The sqlite3 *)
(* module opens a transaction at the first INSERT or UPDATE of a call, so  *)
(* the SELECTs before it are not part of it.  A call that decides on such  *)
(* a SELECT has two steps: the SELECT, and the transaction.  A call that   *)
(* reads only rows that never change has one.  A client may stop between   *)
(* its two steps for good (a crash, or ten seconds without the lock).      *)
(***************************************************************************)
EXTENDS AnalysisRuns, Naturals, FiniteSets

CONSTANTS
  Environment,   \* environments of baselines
  Baseline,      \* baseline ids that can be drawn
  Scenario,      \* scenario ids that can be drawn
  Key,           \* values of the header Idempotency-Key
  LoadRun,       \* ids of load runs that can be drawn
  Zone,          \* load zones
  Demands,       \* the zones of a load run: functions from zones to counts
  Worker,        \* ids of workers
  Card,          \* ids of rate cards that can be drawn
  Estimate,      \* ids of estimates that can be drawn
  MaxCalls,      \* bound: how many calls a behaviour begins, but for saved runs
  NoKey          \* a request without the header

(* A row of the table baselines, and one of the table runs.                *)
BaselineRow == [env : Environment, run : Run, override : BOOLEAN,
                state : {"ACTIVE", "SUPERSEDED"}]
LoadRunRow == [demand : Demands, state : {"PROVISIONING", "PARTIAL", "READY"}]

ASSUME StoreAssumption ==
  /\ \A r \in Run : RunInfo[r].decision \in {"PASS", "ADVISORY", "FAIL", "ERROR"}
  /\ \A d \in Demands : \E zones \in SUBSET Zone :
       zones # {} /\ d \in [zones -> Nat \ {0}]
  /\ IsFiniteSet(Worker)
  /\ NoKey \notin Key
  /\ MaxCalls \in Nat
  /\ Nothing \notin Key \cup {NoKey} \cup Scenario
  /\ Nothing \notin {"STALE", "ESTIMATED", "APPROVED"}
  /\ Nothing \notin BaselineRow \cup LoadRunRow \cup (LoadRun \X Zone)

VARIABLES
  baselines,     \* table baselines, by id
  scenarios,     \* table scenarios, by id: the key it was created under
  idempotency,   \* table idempotency: the scenario of each key
  loadRuns,      \* table runs, by id: demand and state
  workers,       \* table workers, by id: load run and zone
  cards,         \* table rate_cards: whether a card is older than max_age
  estimates,     \* table estimates: their states
  pc,            \* where each client is in its call
  work,          \* the local variables of that call
  calls,         \* how many calls began
  answered,      \* history variable: <<key, scenario>> of the calls that returned
  complete,      \* history variable: load runs that once had all their workers
  priced         \* history variable: estimates computed from a card of its time

evidence == <<saved, baselines>>
keyed == <<scenarios, idempotency, answered>>
capacity == <<loadRuns, workers, complete>>
prices == <<cards, estimates, priced>>
vars == <<evidence, keyed, capacity, prices, pc, work, calls>>

-----------------------------------------------------------------------------
Idle == [op |-> "none"]

Init ==
  /\ saved = {}
  /\ baselines = [b \in Baseline |-> Nothing]
  /\ scenarios = [s \in Scenario |-> Nothing]
  /\ idempotency = [k \in Key |-> Nothing]
  /\ loadRuns = [r \in LoadRun |-> Nothing]
  /\ workers = [w \in Worker |-> Nothing]
  /\ cards = [c \in Card |-> Nothing]
  /\ estimates = [e \in Estimate |-> Nothing]
  /\ pc = [u \in Client |-> "idle"]
  /\ work = [u \in Client |-> Idle]
  /\ calls = 0
  /\ answered = {}
  /\ complete = {}
  /\ priced = {}

Begin ==
  /\ calls < MaxCalls
  /\ calls' = calls + 1

Enter(u, place, locals) ==
  /\ pc' = [pc EXCEPT ![u] = place]
  /\ work' = [work EXCEPT ![u] = locals]

Return(u) == Enter(u, "idle", Idle)

-----------------------------------------------------------------------------
(* Baselines.                                                              *)

SaveRun(r) ==
  /\ SaveAnalysisRun(r)
  /\ UNCHANGED <<baselines, keyed, capacity, prices, pc, work, calls>>

Eligible(r, override) ==
  /\ ~RunInfo[r].sample
  /\ RunInfo[r].decision \notin {"FAIL", "ERROR"}
  /\ RunInfo[r].decision = "ADVISORY" => override

(* promote_baseline up to its transaction.  The run it names need not be   *)
(* one of the environment it is promoted for.                              *)
PreparePromotion(u, r, e, override) ==
  /\ Begin
  /\ pc[u] = "idle"
  /\ r \in saved
  /\ Eligible(r, override)
  /\ Enter(u, "promote", [op |-> "promote", run |-> r, env |-> e, override |-> override])
  /\ UNCHANGED <<evidence, keyed, capacity, prices>>

IsActive(b, e) ==
  /\ baselines[b] # Nothing
  /\ baselines[b].env = e
  /\ baselines[b].state = "ACTIVE"

(* Variant of Superseded: environment=? is left out.                       *)
SupersededEverywhere(e) ==
  [b \in Baseline |-> IF \E d \in Environment : IsActive(b, d)
                      THEN [baselines[b] EXCEPT !.state = "SUPERSEDED"]
                      ELSE baselines[b]]

(* UPDATE baselines SET state='SUPERSEDED' WHERE environment=? AND         *)
(* state='ACTIVE'                                                          *)
Superseded(e) ==
  [b \in Baseline |-> IF IsActive(b, e)
                      THEN [baselines[b] EXCEPT !.state = "SUPERSEDED"]
                      ELSE baselines[b]]

(* promote_baseline's transaction: whatever is active by then is           *)
(* superseded, so the unique index on active baselines lets the INSERT in. *)
(* (The id it replaces, read before for the audit entry, is left out.)     *)
CommitPromotion(u, b) ==
  LET w == work[u]
  IN  /\ pc[u] = "promote"
      /\ baselines[b] = Nothing
      /\ baselines' = [Superseded(w.env) EXCEPT ![b] =
           [env |-> w.env, run |-> w.run, override |-> w.override, state |-> "ACTIVE"]]
      /\ Return(u)
      /\ UNCHANGED <<saved, keyed, capacity, prices, calls>>

-----------------------------------------------------------------------------
(* Scenarios.  Empty names and steps and unknown protocols are refused     *)
(* before anything is read and are not inputs.                             *)

(* create_scenario up to its transaction: a key that is known is answered  *)
(* with its scenario.                                                      *)
LookUpKey(u, k) ==
  /\ Begin
  /\ pc[u] = "idle"
  /\ IF k # NoKey /\ idempotency[k] # Nothing
     THEN /\ answered' = answered \cup {<<k, idempotency[k]>>}
          /\ UNCHANGED <<pc, work>>
     ELSE /\ Enter(u, "insert", [op |-> "scenario", key |-> k])
          /\ UNCHANGED answered
  /\ UNCHANGED <<evidence, capacity, prices, scenarios, idempotency>>

(* Variant of InsertScenario: the key is recorded with INSERT OR IGNORE.   *)
InsertOrIgnore(u, s) ==
  LET k == work[u].key
  IN  /\ pc[u] = "insert"
      /\ scenarios[s] = Nothing
      /\ scenarios' = [scenarios EXCEPT ![s] = k]
      /\ IF k # NoKey
         THEN /\ idempotency' = [idempotency EXCEPT ![k] = IF @ = Nothing THEN s ELSE @]
              /\ answered' = answered \cup {<<k, s>>}
         ELSE UNCHANGED <<idempotency, answered>>
      /\ Return(u)
      /\ UNCHANGED <<evidence, capacity, prices, calls>>

(* create_scenario's transaction.  A key that was recorded in the meantime *)
(* is an IntegrityError: the scenario is rolled back and the caller gets   *)
(* the error, not the id.                                                  *)
InsertScenario(u, s) ==
  LET k == work[u].key
  IN  /\ pc[u] = "insert"
      /\ scenarios[s] = Nothing
      /\ IF k = NoKey
         THEN /\ scenarios' = [scenarios EXCEPT ![s] = k]
              /\ UNCHANGED <<idempotency, answered>>
         ELSE IF idempotency[k] = Nothing
         THEN /\ scenarios' = [scenarios EXCEPT ![s] = k]
              /\ idempotency' = [idempotency EXCEPT ![k] = s]
              /\ answered' = answered \cup {<<k, s>>}
         ELSE UNCHANGED keyed
      /\ Return(u)
      /\ UNCHANGED <<evidence, capacity, prices, calls>>

-----------------------------------------------------------------------------
(* Load runs and their workers.                                            *)

Connected(r, z) == Cardinality({w \in Worker : workers[w] = <<r, z>>})

MissingZones(r) == {z \in DOMAIN loadRuns[r].demand :
                      Connected(r, z) < loadRuns[r].demand[z]}

(* create_run: it needs a scenario id and a zone, not that the scenario    *)
(* exists.                                                                 *)
CreateRun(r, demand) ==
  /\ Begin
  /\ loadRuns[r] = Nothing
  /\ loadRuns' = [loadRuns EXCEPT ![r] = [demand |-> demand, state |-> "PROVISIONING"]]
  /\ UNCHANGED <<evidence, keyed, workers, complete, prices, pc, work>>

(* Variant of ConnectWorker: the run is not looked up.                     *)
ConnectAnyway(w, r, z) ==
  /\ Begin
  /\ workers' = [workers EXCEPT ![w] = <<r, z>>]
  /\ UNCHANGED <<evidence, keyed, loadRuns, complete, prices, pc, work>>

(* connect_worker: INSERT OR REPLACE by the id of the worker, so a worker  *)
(* that connects to another run, or in another zone, leaves where it was.  *)
ConnectWorker(w, r, z) ==
  /\ Begin
  /\ loadRuns[r] # Nothing
  /\ z \in DOMAIN loadRuns[r].demand
  /\ workers' = [workers EXCEPT ![w] = <<r, z>>]
  /\ UNCHANGED <<evidence, keyed, loadRuns, prices, pc, work>>
  /\ complete' = IF MissingZones(r)' = {} THEN complete \cup {r} ELSE complete

(* Variant of CountWorkers: WHERE run_id=? is left out.                    *)
CountWorkersOfAllRuns(u, r) ==
  /\ Begin
  /\ pc[u] = "idle"
  /\ loadRuns[r] # Nothing
  /\ Enter(u, "mark", [op |-> "recover", loadRun |-> r,
       missing |-> {z \in DOMAIN loadRuns[r].demand :
         Cardinality({w \in Worker : workers[w] # Nothing /\ workers[w][2] = z})
           < loadRuns[r].demand[z]}])
  /\ UNCHANGED <<evidence, keyed, capacity, prices>>

(* recovery_plan up to its UPDATE: which zones lack workers.               *)
CountWorkers(u, r) ==
  /\ Begin
  /\ pc[u] = "idle"
  /\ loadRuns[r] # Nothing
  /\ Enter(u, "mark", [op |-> "recover", loadRun |-> r, missing |-> MissingZones(r)])
  /\ UNCHANGED <<evidence, keyed, capacity, prices>>

(* recovery_plan's UPDATE, by what was counted, not by what is connected   *)
(* now: plans that overlap may mark a run in either order.                 *)
MarkRun(u) ==
  LET w == work[u]
  IN  /\ pc[u] = "mark"
      /\ loadRuns' = [loadRuns EXCEPT ![w.loadRun].state =
           IF w.missing = {} THEN "READY" ELSE "PARTIAL"]
      /\ Return(u)
      /\ UNCHANGED <<evidence, keyed, workers, complete, prices, calls>>

-----------------------------------------------------------------------------
(* Rate cards and estimates.  Amounts and inputs out of range are left     *)
(* out: the state of an estimate depends on the age of its card only.      *)

SetRateCard(c, age) ==
  /\ Begin
  /\ cards[c] = Nothing
  /\ cards' = [cards EXCEPT ![c] = age]
  /\ UNCHANGED <<evidence, keyed, capacity, estimates, priced, pc, work>>

(* max_age passes since a card took effect.                                *)
CardAges(c) ==
  /\ cards[c] = "current"
  /\ cards' = [cards EXCEPT ![c] = "stale"]
  /\ UNCHANGED <<evidence, keyed, capacity, estimates, priced, pc, work, calls>>

(* estimate_capacity: one INSERT, decided on a card that never changes.    *)
EstimateCapacity(e, c) ==
  /\ Begin
  /\ cards[c] # Nothing
  /\ estimates[e] = Nothing
  /\ estimates' = [estimates EXCEPT ![e] =
       IF cards[c] = "stale" THEN "STALE" ELSE "ESTIMATED"]
  /\ priced' = IF cards[c] = "stale" THEN priced ELSE priced \cup {e}
  /\ UNCHANGED <<evidence, keyed, capacity, cards, pc, work>>

(* Variant of CheckEstimate: an estimate is only asked to exist.           *)
FindEstimate(u, e) ==
  /\ Begin
  /\ pc[u] = "idle"
  /\ estimates[e] # Nothing
  /\ Enter(u, "approve", [op |-> "approve", estimate |-> e])
  /\ UNCHANGED <<evidence, keyed, capacity, prices>>

(* approve_estimate up to its UPDATE: the state of the estimate, not the   *)
(* age its card has now.                                                   *)
CheckEstimate(u, e) ==
  /\ Begin
  /\ pc[u] = "idle"
  /\ estimates[e] = "ESTIMATED"
  /\ Enter(u, "approve", [op |-> "approve", estimate |-> e])
  /\ UNCHANGED <<evidence, keyed, capacity, prices>>

(* approve_estimate's UPDATE, whatever the state is by now.                *)
ApproveEstimate(u) ==
  /\ pc[u] = "approve"
  /\ estimates' = [estimates EXCEPT ![work[u].estimate] = "APPROVED"]
  /\ Return(u)
  /\ UNCHANGED <<evidence, keyed, capacity, cards, priced, calls>>

-----------------------------------------------------------------------------
Next ==
  \/ \E r \in Run : SaveRun(r)
  \/ \E r \in LoadRun, demand \in Demands : CreateRun(r, demand)
  \/ \E w \in Worker, r \in LoadRun, z \in Zone : ConnectWorker(w, r, z)
  \/ \E u \in Client :
       \/ \E r \in Run, e \in Environment, override \in BOOLEAN :
            PreparePromotion(u, r, e, override)
       \/ \E b \in Baseline : CommitPromotion(u, b)
       \/ \E k \in Key \cup {NoKey} : LookUpKey(u, k)
       \/ \E s \in Scenario : InsertScenario(u, s)
       \/ \E r \in LoadRun : CountWorkers(u, r)
       \/ MarkRun(u)
       \/ \E e \in Estimate : CheckEstimate(u, e)
       \/ ApproveEstimate(u)
  \/ \E c \in Card :
       \/ \E age \in {"current", "stale"} : SetRateCard(c, age)
       \/ CardAges(c)
       \/ \E e \in Estimate : EstimateCapacity(e, c)

Spec == Init /\ [][Next]_vars

-----------------------------------------------------------------------------
Promoting == [op : {"promote"}, run : Run, env : Environment, override : BOOLEAN]
Inserting == [op : {"scenario"}, key : Key \cup {NoKey}]
Marking == [op : {"recover"}, loadRun : LoadRun, missing : SUBSET Zone]
Approving == [op : {"approve"}, estimate : Estimate]

Working == Promoting \cup Inserting \cup Marking \cup Approving \cup {Idle}

CallAt(u) ==
  /\ pc[u] = "idle" => work[u] = Idle
  /\ pc[u] = "promote" => work[u] \in Promoting /\ work[u].run \in saved
  /\ pc[u] = "insert" => work[u] \in Inserting
  /\ pc[u] = "mark" => work[u] \in Marking /\ loadRuns[work[u].loadRun] # Nothing
  /\ pc[u] = "approve" => work[u] \in Approving

(* Types of every variable: a call carries what its transaction needs, and *)
(* a load run or a run of analysis that is named exists.                   *)
TypeOK ==
  /\ saved \subseteq Run
  /\ baselines \in [Baseline -> BaselineRow \cup {Nothing}]
  /\ \A b \in Baseline : baselines[b] # Nothing => baselines[b].run \in saved
  /\ scenarios \in [Scenario -> Key \cup {NoKey, Nothing}]
  /\ idempotency \in [Key -> Scenario \cup {Nothing}]
  /\ loadRuns \in [LoadRun -> LoadRunRow \cup {Nothing}]
  /\ workers \in [Worker -> (LoadRun \X Zone) \cup {Nothing}]
  /\ \A w \in Worker : workers[w] # Nothing => loadRuns[workers[w][1]] # Nothing
  /\ pc \in [Client -> {"idle", "promote", "insert", "mark", "approve"}]
  /\ work \in [Client -> Working]
  /\ \A u \in Client : CallAt(u)
  /\ cards \in [Card -> {"current", "stale", Nothing}]
  /\ estimates \in [Estimate -> {"STALE", "ESTIMATED", "APPROVED", Nothing}]
  /\ calls \in Nat
  /\ answered \subseteq Key \X Scenario
  /\ complete \subseteq LoadRun
  /\ priced \subseteq Estimate

(* docs/engineering-standards.md, line 22: repeated requests cause no      *)
(* duplicate side effects.  A key names one scenario: it is the only one   *)
(* created under the key, every call that returned has returned it, and    *)
(* it is there, also when two requests with the key overlap.               *)
KeyNamesOneScenario ==
  \A k \in Key :
    /\ {s \in Scenario : scenarios[s] = k} = {idempotency[k]} \ {Nothing}
    /\ \A a \in answered : a[1] = k => a[2] = idempotency[k]

(* A load run is READY only if all its workers were connected at the same  *)
(* time at least once, although the state is written after the count, the  *)
(* plans of two clients overlap, and workers move to other runs.           *)
ReadyWasComplete ==
  \A r \in LoadRun :
    loadRuns[r] # Nothing /\ loadRuns[r].state = "READY" => r \in complete

(* The inductive invariant behind it: a run that has its workers once had  *)
(* them, and so has a run about to be marked READY.                        *)
ReadyInv ==
  /\ TypeOK
  /\ \A r \in LoadRun :
       loadRuns[r] # Nothing /\ MissingZones(r) = {} => r \in complete
  /\ \A u \in Client :
       pc[u] = "mark" /\ work[u].missing = {} => work[u].loadRun \in complete
  /\ ReadyWasComplete

(* docs/performance-workspace.md, line 17: "Estimates derived from stale   *)
(* rate cards cannot be approved": approved estimates were computed while  *)
(* their card was current, although approval writes what it read before,   *)
(* and the card may have aged by then.                                     *)
ApprovedWasPriced == \A e \in Estimate : estimates[e] = "APPROVED" => e \in priced

PricedInv ==
  /\ TypeOK
  /\ \A e \in Estimate : estimates[e] \in {"ESTIMATED", "APPROVED"} => e \in priced
  /\ \A u \in Client : pc[u] = "approve" => work[u].estimate \in priced

(* docs/baseline-decisions.md, line 3: one active baseline per             *)
(* environment, replacements retain the previous one, ADVISORY needs an    *)
(* override, and FAIL, ERROR and samples cannot be promoted.  The store    *)
(* implements BaselineRegister: promotions that overlap replace each       *)
(* other one after the other, and what is superseded stays so.             *)
Promotion == [id : Baseline, env : Environment, run : Run, override : BOOLEAN]

EnvironmentOf(p) == p.env

PromotionOf(b) ==
  [id |-> b, env |-> baselines[b].env, run |-> baselines[b].run,
   override |-> baselines[b].override]

Acceptable(p) ==
  /\ ~RunInfo[p.run].sample
  /\ \/ RunInfo[p.run].decision = "PASS"
     \/ RunInfo[p.run].decision = "ADVISORY" /\ p.override

InState(state) == {b \in Baseline : baselines[b] # Nothing /\ baselines[b].state = state}

ActivePromotions ==
  [e \in Environment |-> {PromotionOf(b) : b \in {d \in Baseline : IsActive(d, e)}}]

RetiredPromotions == {PromotionOf(b) : b \in InState("SUPERSEDED")}

Register ==
  INSTANCE BaselineRegister WITH
    active <- ActivePromotions,
    retired <- RetiredPromotions

ImplementsRegister == Register!Spec

(* What makes a promotion's transaction a step of BaselineRegister.        *)
PromotersAreEligible ==
  \A u \in Client : pc[u] = "promote" => Eligible(work[u].run, work[u].override)

RegisterInv == TypeOK /\ PromotersAreEligible

=============================================================================
