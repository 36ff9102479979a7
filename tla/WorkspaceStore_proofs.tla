----------------------- MODULE WorkspaceStore_proofs -----------------------
(***************************************************************************)
(* Proofs about WorkspaceStore, for every value of its constants, and that *)
(* what is proved of it and of ReleaseCampaign holds of both together.     *)
(***************************************************************************)
EXTENDS ProductWorkspace, FiniteSetTheorems, TLAPS

Places == {"idle", "promote", "insert", "mark", "approve"}

(* A client that goes on with locals that fit its new place leaves every   *)
(* other call in place, as long as no row those rely on disappears.        *)
LEMMA EnterKeepsCalls ==
  ASSUME TypeOK, NEW u \in Client, NEW place \in Places, NEW locals \in Working,
         Enter(u, place, locals), CallAt(u)', saved \subseteq saved',
         \A r \in LoadRun : loadRuns[r] # Nothing => loadRuns'[r] # Nothing
  PROVE  /\ pc' \in [Client -> Places]
         /\ work' \in [Client -> Working]
         /\ \A v \in Client : CallAt(v)'
<1> USE DEF TypeOK, Enter, Places
<1>1. pc' \in [Client -> Places] /\ work' \in [Client -> Working]
  OBVIOUS
<1>2. ASSUME NEW v \in Client, v # u
      PROVE  CallAt(v)'
  <2>1. pc'[v] = pc[v] /\ work'[v] = work[v] /\ CallAt(v)
    BY <1>2
  <2> QED
    BY <2>1 DEF CallAt, Promoting, Marking
<1> QED
  BY <1>1, <1>2

(* So does a client that returns.                                          *)
LEMMA ReturnKeepsCalls ==
  ASSUME TypeOK, NEW u \in Client, Return(u), saved \subseteq saved',
         \A r \in LoadRun : loadRuns[r] # Nothing => loadRuns'[r] # Nothing
  PROVE  /\ pc' \in [Client -> Places]
         /\ work' \in [Client -> Working]
         /\ \A v \in Client : CallAt(v)'
<1>1. Idle \in Working /\ "idle" \in Places
  BY DEF Working, Places
<1>2. pc'[u] = "idle" /\ work'[u] = Idle
  BY DEF Return, Enter, TypeOK
<1>3. CallAt(u)'
  BY <1>2 DEF CallAt
<1> QED
  BY <1>1, <1>3, EnterKeepsCalls DEF Return

(* Calls stay in place when only rows are added.                           *)
LEMMA RowsKeepCalls ==
  ASSUME TypeOK, UNCHANGED <<pc, work>>, saved \subseteq saved',
         \A r \in LoadRun : loadRuns[r] # Nothing => loadRuns'[r] # Nothing
  PROVE  \A v \in Client : CallAt(v)'
BY DEF TypeOK, CallAt, Promoting, Marking

(* Every step keeps the types.                                             *)
LEMMA StepKeepsTypes == TypeOK /\ [Next]_vars => TypeOK'
<1> SUFFICES ASSUME TypeOK, [Next]_vars
             PROVE  TypeOK'
  OBVIOUS
<1> USE DEF evidence, keyed, capacity, prices, Begin
<1>1. ASSUME NEW r \in Run, SaveRun(r)
      PROVE  TypeOK'
  BY <1>1, RowsKeepCalls DEF SaveRun, SaveAnalysisRun, TypeOK
<1>2. ASSUME NEW r \in LoadRun, NEW demand \in Demands, CreateRun(r, demand)
      PROVE  TypeOK'
  <2>1. loadRuns' \in [LoadRun -> LoadRunRow \cup {Nothing}] /\ loadRuns'[r] # Nothing
    BY <1>2, StoreAssumption DEF CreateRun, TypeOK, LoadRunRow
  <2>2. \A d \in LoadRun : loadRuns[d] # Nothing => loadRuns'[d] # Nothing
    BY <1>2, <2>1 DEF CreateRun, TypeOK
  <2>3. \A v \in Client : CallAt(v)'
    BY <1>2, <2>2, RowsKeepCalls DEF CreateRun
  <2>4. \A w \in Worker : workers'[w] # Nothing => loadRuns'[workers'[w][1]] # Nothing
    BY <1>2, <2>2 DEF CreateRun, TypeOK
  <2> QED
    BY <1>2, <2>1, <2>3, <2>4 DEF CreateRun, TypeOK
<1>3. ASSUME NEW w \in Worker, NEW r \in LoadRun, NEW z \in Zone, ConnectWorker(w, r, z)
      PROVE  TypeOK'
  <2>1. \A v \in Client : CallAt(v)'
    BY <1>3, RowsKeepCalls DEF ConnectWorker
  <2> QED
    BY <1>3, <2>1 DEF ConnectWorker, TypeOK
<1>4. ASSUME NEW u \in Client, NEW r \in Run, NEW e \in Environment,
             NEW override \in BOOLEAN, PreparePromotion(u, r, e, override)
      PROVE  TypeOK'
  <2> DEFINE locals == [op |-> "promote", run |-> r, env |-> e, override |-> override]
  <2>1. locals \in Promoting /\ locals \in Working /\ r \in saved
    BY <1>4 DEF PreparePromotion, Promoting, Working
  <2>2. Enter(u, "promote", locals)
    BY <1>4 DEF PreparePromotion
  <2>3. CallAt(u)'
    BY <1>4, <2>1, <2>2 DEF PreparePromotion, Enter, CallAt, TypeOK
  <2>4. /\ pc' \in [Client -> Places]
        /\ work' \in [Client -> Working]
        /\ \A v \in Client : CallAt(v)'
    <3> HIDE DEF locals
    <3> QED
      BY <1>4, <2>1, <2>2, <2>3, EnterKeepsCalls DEF PreparePromotion, Places
  <2> QED
    BY <1>4, <2>4 DEF PreparePromotion, TypeOK, Places
<1>5. ASSUME NEW u \in Client, NEW b \in Baseline, CommitPromotion(u, b)
      PROVE  TypeOK'
  <2>1. work[u] \in Promoting /\ work[u].run \in saved
    BY <1>5 DEF CommitPromotion, TypeOK, CallAt
  <2>2. Superseded(work[u].env) \in [Baseline -> BaselineRow \cup {Nothing}]
    BY DEF Superseded, IsActive, TypeOK, BaselineRow
  <2>3. baselines' \in [Baseline -> BaselineRow \cup {Nothing}]
    BY <1>5, <2>1, <2>2 DEF CommitPromotion, Promoting, BaselineRow
  <2>4. \A d \in Baseline : baselines'[d] # Nothing => baselines'[d].run \in saved
    BY <1>5, <2>1 DEF CommitPromotion, Superseded, IsActive, TypeOK, BaselineRow
  <2>5. /\ pc' \in [Client -> Places]
        /\ work' \in [Client -> Working]
        /\ \A v \in Client : CallAt(v)'
    BY <1>5, ReturnKeepsCalls DEF CommitPromotion
  <2> QED
    BY <1>5, <2>3, <2>4, <2>5 DEF CommitPromotion, TypeOK, Places
<1>6. ASSUME NEW u \in Client, NEW k \in Key \cup {NoKey}, LookUpKey(u, k)
      PROVE  TypeOK'
  <2>1. CASE k # NoKey /\ idempotency[k] # Nothing
    <3>1. answered' \subseteq Key \X Scenario /\ UNCHANGED <<pc, work>>
      BY <1>6, <2>1 DEF LookUpKey, TypeOK
    <3> QED
      BY <1>6, <3>1, RowsKeepCalls DEF LookUpKey, TypeOK
  <2>2. CASE ~(k # NoKey /\ idempotency[k] # Nothing)
    <3> DEFINE locals == [op |-> "scenario", key |-> k]
    <3>1. locals \in Inserting /\ locals \in Working
      BY DEF Inserting, Working
    <3>2. Enter(u, "insert", locals) /\ UNCHANGED answered
      BY <1>6, <2>2 DEF LookUpKey
    <3>3. CallAt(u)'
      BY <3>1, <3>2 DEF Enter, CallAt, TypeOK
    <3>4. /\ pc' \in [Client -> Places]
          /\ work' \in [Client -> Working]
          /\ \A v \in Client : CallAt(v)'
      <4> HIDE DEF locals
      <4> QED
        BY <1>6, <3>1, <3>2, <3>3, EnterKeepsCalls DEF LookUpKey, Places
    <3> QED
      BY <1>6, <3>2, <3>4 DEF LookUpKey, TypeOK, Places
  <2> QED
    BY <2>1, <2>2
<1>7. ASSUME NEW u \in Client, NEW s \in Scenario, InsertScenario(u, s)
      PROVE  TypeOK'
  <2>1. work[u].key \in Key \cup {NoKey}
    BY <1>7 DEF InsertScenario, TypeOK, CallAt, Inserting
  <2>2. /\ scenarios' \in [Scenario -> Key \cup {NoKey, Nothing}]
        /\ idempotency' \in [Key -> Scenario \cup {Nothing}]
        /\ answered' \subseteq Key \X Scenario
    BY <1>7, <2>1 DEF InsertScenario, TypeOK
  <2>3. /\ pc' \in [Client -> Places]
        /\ work' \in [Client -> Working]
        /\ \A v \in Client : CallAt(v)'
    BY <1>7, ReturnKeepsCalls DEF InsertScenario
  <2> QED
    BY <1>7, <2>2, <2>3 DEF InsertScenario, TypeOK, Places
<1>8. ASSUME NEW u \in Client, NEW r \in LoadRun, CountWorkers(u, r)
      PROVE  TypeOK'
  <2> DEFINE locals == [op |-> "recover", loadRun |-> r, missing |-> MissingZones(r)]
  <2>1. MissingZones(r) \subseteq Zone
    <3>1. loadRuns[r] \in LoadRunRow
      BY <1>8 DEF CountWorkers, TypeOK
    <3>2. DOMAIN loadRuns[r].demand \subseteq Zone
      BY <3>1, StoreAssumption DEF LoadRunRow
    <3> QED
      BY <3>2 DEF MissingZones
  <2>2. locals \in Marking /\ locals \in Working
    BY <2>1 DEF Marking, Working
  <2>3. Enter(u, "mark", locals) /\ loadRuns[r] # Nothing
    BY <1>8 DEF CountWorkers
  <2>4. locals.loadRun = r
    OBVIOUS
  <2>5. CallAt(u)'
    <3> HIDE DEF locals
    <3> QED
      BY <1>8, <2>2, <2>3, <2>4 DEF CountWorkers, Enter, CallAt, TypeOK
  <2>6. /\ pc' \in [Client -> Places]
        /\ work' \in [Client -> Working]
        /\ \A v \in Client : CallAt(v)'
    <3> HIDE DEF locals
    <3> QED
      BY <1>8, <2>2, <2>3, <2>5, EnterKeepsCalls DEF CountWorkers, Places
  <2> QED
    BY <1>8, <2>6 DEF CountWorkers, TypeOK, Places
<1>9. ASSUME NEW u \in Client, MarkRun(u)
      PROVE  TypeOK'
  <2> DEFINE r == work[u].loadRun
  <2>1. r \in LoadRun /\ loadRuns[r] \in LoadRunRow
    BY <1>9 DEF MarkRun, TypeOK, CallAt, Marking
  <2>2. loadRuns' = [loadRuns EXCEPT ![r].state =
          IF work[u].missing = {} THEN "READY" ELSE "PARTIAL"]
    BY <1>9 DEF MarkRun
  <2>3. loadRuns' \in [LoadRun -> LoadRunRow \cup {Nothing}] /\ loadRuns'[r] \in LoadRunRow
    BY <2>1, <2>2 DEF TypeOK, LoadRunRow
  <2>4. \A d \in LoadRun : loadRuns[d] # Nothing => loadRuns'[d] # Nothing
    BY <2>1, <2>2, <2>3, StoreAssumption DEF TypeOK
  <2>5. /\ pc' \in [Client -> Places]
        /\ work' \in [Client -> Working]
        /\ \A v \in Client : CallAt(v)'
    BY <1>9, <2>4, ReturnKeepsCalls DEF MarkRun
  <2> QED
    BY <1>9, <2>3, <2>4, <2>5 DEF MarkRun, TypeOK, Places
<1>10. ASSUME NEW u \in Client, NEW e \in Estimate, CheckEstimate(u, e)
       PROVE  TypeOK'
  <2> DEFINE locals == [op |-> "approve", estimate |-> e]
  <2>1. locals \in Approving /\ locals \in Working
    BY DEF Approving, Working
  <2>2. Enter(u, "approve", locals)
    BY <1>10 DEF CheckEstimate
  <2>3. CallAt(u)'
    BY <2>1, <2>2 DEF Enter, CallAt, TypeOK
  <2>4. /\ pc' \in [Client -> Places]
        /\ work' \in [Client -> Working]
        /\ \A v \in Client : CallAt(v)'
    <3> HIDE DEF locals
    <3> QED
      BY <1>10, <2>1, <2>2, <2>3, EnterKeepsCalls DEF CheckEstimate, Places
  <2> QED
    BY <1>10, <2>4 DEF CheckEstimate, TypeOK, Places
<1>11. ASSUME NEW u \in Client, ApproveEstimate(u)
       PROVE  TypeOK'
  <2>1. /\ pc' \in [Client -> Places]
        /\ work' \in [Client -> Working]
        /\ \A v \in Client : CallAt(v)'
    BY <1>11, ReturnKeepsCalls DEF ApproveEstimate
  <2> QED
    BY <1>11, <2>1 DEF ApproveEstimate, TypeOK, Places
<1>12. ASSUME NEW c \in Card, NEW age \in {"current", "stale"}, SetRateCard(c, age)
       PROVE  TypeOK'
  BY <1>12, RowsKeepCalls DEF SetRateCard, TypeOK
<1>13. ASSUME NEW c \in Card, CardAges(c)
       PROVE  TypeOK'
  BY <1>13, RowsKeepCalls DEF CardAges, TypeOK
<1>14. ASSUME NEW c \in Card, NEW e \in Estimate, EstimateCapacity(e, c)
       PROVE  TypeOK'
  BY <1>14, RowsKeepCalls DEF EstimateCapacity, TypeOK
<1>15. CASE UNCHANGED vars
  BY <1>15, RowsKeepCalls DEF vars, TypeOK
<1> QED
  BY <1>1, <1>2, <1>3, <1>4, <1>5, <1>6, <1>7, <1>8, <1>9, <1>10, <1>11, <1>12,
     <1>13, <1>14, <1>15 DEF Next

(* TypeOK always holds: a call carries what its transaction needs, and the *)
(* rows it and the workers name exist.                                     *)
THEOREM TypeCorrect == Spec => []TypeOK
<1>1. Init => TypeOK
  BY StoreAssumption DEF Init, TypeOK, CallAt, Working
<1> QED
  BY <1>1, StepKeepsTypes, PTL DEF Spec

-----------------------------------------------------------------------------
(* Every step keeps a key the name of one scenario: a transaction inserts  *)
(* a keyed scenario only together with its key.                            *)
LEMMA StepKeepsKeys ==
  TypeOK /\ KeyNamesOneScenario /\ [Next]_vars => KeyNamesOneScenario'
<1> SUFFICES ASSUME TypeOK, KeyNamesOneScenario, [Next]_vars
             PROVE  KeyNamesOneScenario'
  OBVIOUS
<1>1. ASSUME UNCHANGED keyed
      PROVE  KeyNamesOneScenario'
  BY <1>1 DEF keyed, KeyNamesOneScenario
<1>2. ASSUME NEW u \in Client, NEW k \in Key \cup {NoKey}, LookUpKey(u, k)
      PROVE  KeyNamesOneScenario'
  <2>1. UNCHANGED <<scenarios, idempotency>>
    BY <1>2 DEF LookUpKey
  <2>2. \A a \in answered' : a \in answered \/ (k # NoKey /\ a = <<k, idempotency[k]>>)
    BY <1>2 DEF LookUpKey
  <2> QED
    BY <2>1, <2>2 DEF KeyNamesOneScenario
<1>3. ASSUME NEW u \in Client, NEW s \in Scenario, InsertScenario(u, s)
      PROVE  KeyNamesOneScenario'
  <2> DEFINE k == work[u].key
  <2>1. k \in Key \cup {NoKey} /\ scenarios[s] = Nothing
    BY <1>3 DEF InsertScenario, TypeOK, CallAt, Inserting
  <2>2. CASE k = NoKey
    <3>1. scenarios' = [scenarios EXCEPT ![s] = k] /\ UNCHANGED <<idempotency, answered>>
      BY <1>3, <2>2 DEF InsertScenario
    <3>2. \A d \in Scenario, j \in Key : scenarios'[d] = j <=> scenarios[d] = j
      BY <2>1, <2>2, <3>1, StoreAssumption DEF TypeOK
    <3> QED
      BY <3>1, <3>2 DEF KeyNamesOneScenario
  <2>3. CASE k # NoKey /\ idempotency[k] = Nothing
    <3>1. /\ scenarios' = [scenarios EXCEPT ![s] = k]
          /\ idempotency' = [idempotency EXCEPT ![k] = s]
          /\ answered' = answered \cup {<<k, s>>}
      BY <1>3, <2>3 DEF InsertScenario
    <3>2. k \in Key
      BY <2>1, <2>3
    <3>3. {d \in Scenario : scenarios[d] = k} = {}
      BY <2>3, <3>2 DEF KeyNamesOneScenario
    <3>4. \A a \in answered : a[1] # k
      BY <2>3, <3>2, StoreAssumption DEF KeyNamesOneScenario, TypeOK
    <3>5. ASSUME NEW j \in Key
          PROVE  /\ {d \in Scenario : scenarios'[d] = j} = {idempotency'[j]} \ {Nothing}
                 /\ \A a \in answered' : a[1] = j => a[2] = idempotency'[j]
      <4>1. CASE j = k
        <5>1. idempotency'[j] = s /\ s # Nothing
          BY <3>1, <3>2, <4>1, StoreAssumption DEF TypeOK
        <5>2. \A d \in Scenario : scenarios'[d] = j <=> d = s
          BY <3>1, <3>3, <4>1 DEF TypeOK
        <5>3. \A a \in answered' : a[1] = j => a[2] = s
          BY <3>1, <3>4, <4>1
        <5> QED
          BY <5>1, <5>2, <5>3
      <4>2. CASE j # k
        <5>1. idempotency'[j] = idempotency[j]
          BY <3>1, <4>2 DEF TypeOK
        <5>2. \A d \in Scenario : scenarios'[d] = j <=> scenarios[d] = j
          BY <2>1, <3>1, <4>2, StoreAssumption DEF TypeOK
        <5>3. \A a \in answered' : a[1] = j => a \in answered
          BY <3>1, <4>2
        <5> QED
          BY <5>1, <5>2, <5>3 DEF KeyNamesOneScenario
      <4> QED
        BY <4>1, <4>2
    <3> QED
      BY <3>5 DEF KeyNamesOneScenario
  <2>4. CASE k # NoKey /\ idempotency[k] # Nothing
    BY <1>1, <1>3, <2>4 DEF InsertScenario
  <2> QED
    BY <2>2, <2>3, <2>4
<1> QED
  BY <1>1, <1>2, <1>3
  DEF Next, vars, SaveRun, SaveAnalysisRun, CreateRun, ConnectWorker, PreparePromotion,
      CommitPromotion, CountWorkers, MarkRun, CheckEstimate, ApproveEstimate,
      SetRateCard, CardAges, EstimateCapacity

(* An idempotency key names one scenario, however requests overlap.        *)
THEOREM KeysAreIdempotent == Spec => []KeyNamesOneScenario
<1>1. Init => KeyNamesOneScenario
  BY StoreAssumption DEF Init, KeyNamesOneScenario
<1> QED
  BY <1>1, StepKeepsKeys, TypeCorrect, PTL DEF Spec

-----------------------------------------------------------------------------
(* A worker that connects to another run does not complete this one.       *)
LEMMA MovingCompletesNothing ==
  ASSUME TypeOK, NEW w \in Worker, NEW r \in LoadRun, NEW z \in Zone,
         NEW d \in LoadRun, d # r, loadRuns[d] \in LoadRunRow, UNCHANGED loadRuns,
         workers' = [workers EXCEPT ![w] = <<r, z>>], MissingZones(d)' = {}
  PROVE  MissingZones(d) = {}
<1> SUFFICES ASSUME NEW y \in DOMAIN loadRuns[d].demand,
                    Connected(d, y) < loadRuns[d].demand[y]
             PROVE  FALSE
  BY DEF MissingZones
<1>1. loadRuns[d].demand[y] \in Nat
  BY StoreAssumption DEF LoadRunRow
<1> DEFINE before == {v \in Worker : workers[v] = <<d, y>>}
           after == {v \in Worker : workers'[v] = <<d, y>>}
<1>2. after \subseteq before /\ IsFiniteSet(before)
  <2>1. after \subseteq before
    BY DEF TypeOK
  <2>2. before \subseteq Worker /\ IsFiniteSet(Worker)
    BY StoreAssumption
  <2> QED
    BY <2>1, <2>2, FS_Subset
<1>3. /\ Cardinality(after) \in Nat /\ Cardinality(before) \in Nat
      /\ Cardinality(after) <= Cardinality(before)
  BY <1>2, FS_Subset, FS_CardinalityType
<1>4. Connected(d, y) = Cardinality(before) /\ Connected(d, y)' = Cardinality(after)
  BY DEF Connected
<1>5. Connected(d, y)' < loadRuns[d].demand[y]
  BY <1>1, <1>3, <1>4
<1> QED
  BY <1>5 DEF MissingZones

(* Every step keeps the inductive invariant of READY.                      *)
LEMMA StepKeepsReady == ReadyInv /\ [Next]_vars => ReadyInv'
<1> SUFFICES ASSUME ReadyInv, [Next]_vars
             PROVE  ReadyInv'
  OBVIOUS
<1>1. TypeOK /\ TypeOK'
  BY StepKeepsTypes DEF ReadyInv
<1>2. ASSUME UNCHANGED <<loadRuns, workers, complete>>,
             \A u \in Client : pc'[u] = "mark" => pc[u] = "mark" /\ work'[u] = work[u]
      PROVE  ReadyInv'
  <2>1. \A r \in LoadRun : MissingZones(r)' = MissingZones(r)
    BY <1>2 DEF MissingZones, Connected
  <2> QED
    BY <1>1, <1>2, <2>1 DEF ReadyInv, ReadyWasComplete
<1>3. ASSUME NEW r \in LoadRun, NEW demand \in Demands, CreateRun(r, demand)
      PROVE  ReadyInv'
  <2>1. /\ loadRuns' = [loadRuns EXCEPT ![r] = [demand |-> demand, state |-> "PROVISIONING"]]
        /\ loadRuns[r] = Nothing /\ UNCHANGED <<workers, complete, pc, work>>
    BY <1>3 DEF CreateRun
  <2>2. \A w \in Worker : workers'[w] # Nothing => workers'[w][1] # r
    BY <1>1, <2>1 DEF TypeOK
  <2>3. loadRuns'[r] \in LoadRunRow /\ loadRuns'[r].state = "PROVISIONING"
    BY <1>1, <2>1 DEF TypeOK, LoadRunRow
  <2>4. MissingZones(r)' # {}
    <3>1. PICK zones \in SUBSET Zone :
            zones # {} /\ loadRuns'[r].demand \in [zones -> Nat \ {0}]
      BY <2>3, StoreAssumption DEF LoadRunRow
    <3>2. PICK z \in zones : TRUE
      BY <3>1
    <3>3. {w \in Worker : workers'[w] = <<r, z>>} = {}
      <4>1. <<r, z>> \in LoadRun \X Zone
        BY <3>1, <3>2
      <4>2. <<r, z>> # Nothing
        BY <4>1, StoreAssumption
      <4> QED
        BY <2>2, <4>2
    <3>4. Connected(r, z)' = 0
      BY <3>3, FS_EmptySet DEF Connected
    <3>5. z \in DOMAIN loadRuns'[r].demand /\ loadRuns'[r].demand[z] \in Nat \ {0}
      BY <3>1, <3>2
    <3> QED
      BY <3>4, <3>5 DEF MissingZones
  <2>5. \A d \in LoadRun : d # r =>
          loadRuns'[d] = loadRuns[d] /\ MissingZones(d)' = MissingZones(d)
    BY <1>1, <2>1 DEF TypeOK, MissingZones, Connected
  <2> QED
    BY <1>1, <2>1, <2>3, <2>4, <2>5 DEF ReadyInv, ReadyWasComplete
<1>4. ASSUME NEW w \in Worker, NEW r \in LoadRun, NEW z \in Zone, ConnectWorker(w, r, z)
      PROVE  ReadyInv'
  <2>1. /\ workers' = [workers EXCEPT ![w] = <<r, z>>]
        /\ UNCHANGED <<loadRuns, pc, work>>
        /\ complete' = IF MissingZones(r)' = {} THEN complete \cup {r} ELSE complete
    BY <1>4 DEF ConnectWorker
  <2>2. \A d \in LoadRun :
          loadRuns'[d] # Nothing /\ MissingZones(d)' = {} => d \in complete'
    <3> SUFFICES ASSUME NEW d \in LoadRun, loadRuns[d] # Nothing, MissingZones(d)' = {}
                 PROVE  d \in complete'
      BY <2>1
    <3>1. CASE d = r
      BY <2>1, <3>1
    <3>2. CASE d # r
      <4>1. loadRuns[d] \in LoadRunRow
        BY <1>1 DEF TypeOK
      <4>2. MissingZones(d) = {}
        BY <1>1, <2>1, <3>2, <4>1, MovingCompletesNothing
      <4> QED
        BY <2>1, <4>2 DEF ReadyInv
    <3> QED
      BY <3>1, <3>2
  <2> QED
    BY <1>1, <2>1, <2>2 DEF ReadyInv, ReadyWasComplete
<1>5. ASSUME NEW u \in Client, NEW r \in LoadRun, CountWorkers(u, r)
      PROVE  ReadyInv'
  <2>1. /\ UNCHANGED <<loadRuns, workers, complete>> /\ loadRuns[r] # Nothing
        /\ Enter(u, "mark", [op |-> "recover", loadRun |-> r, missing |-> MissingZones(r)])
    BY <1>5 DEF CountWorkers, capacity
  <2>2. \A d \in LoadRun : MissingZones(d)' = MissingZones(d)
    BY <2>1 DEF MissingZones, Connected
  <2>3. work'[u].loadRun = r /\ work'[u].missing = MissingZones(r)
    BY <1>1, <2>1 DEF Enter, TypeOK
  <2>4. \A v \in Client : v # u => pc'[v] = pc[v] /\ work'[v] = work[v]
    BY <1>1, <2>1 DEF Enter, TypeOK
  <2> QED
    BY <1>1, <2>1, <2>2, <2>3, <2>4 DEF ReadyInv, ReadyWasComplete
<1>6. ASSUME NEW u \in Client, MarkRun(u)
      PROVE  ReadyInv'
  <2> DEFINE r == work[u].loadRun
  <2>1. r \in LoadRun /\ loadRuns[r] \in LoadRunRow
    BY <1>1, <1>6 DEF MarkRun, TypeOK, CallAt, Marking
  <2>2. /\ loadRuns' = [loadRuns EXCEPT ![r].state =
              IF work[u].missing = {} THEN "READY" ELSE "PARTIAL"]
        /\ UNCHANGED <<workers, complete>> /\ Return(u) /\ pc[u] = "mark"
    BY <1>6 DEF MarkRun
  <2>3. /\ \A d \in LoadRun : d # r => loadRuns'[d] = loadRuns[d]
        /\ loadRuns'[r].demand = loadRuns[r].demand
        /\ loadRuns'[r].state = "READY" => work[u].missing = {}
    BY <1>1, <2>1, <2>2 DEF TypeOK, LoadRunRow
  <2>4. \A d \in LoadRun : loadRuns[d] # Nothing => MissingZones(d)' = MissingZones(d)
    <3>1. \A d \in LoadRun : loadRuns'[d].demand = loadRuns[d].demand
      BY <2>3
    <3> QED
      BY <2>2, <3>1 DEF MissingZones, Connected
  <2>5. loadRuns'[r].state = "READY" => r \in complete
    BY <2>2, <2>3 DEF ReadyInv
  <2>6. \A v \in Client : pc'[v] = "mark" => pc[v] = "mark" /\ work'[v] = work[v]
    BY <1>1, <2>2 DEF Return, Enter, TypeOK
  <2>7. loadRuns[r] # Nothing
    BY <2>1, StoreAssumption
  <2> QED
    BY <1>1, <2>2, <2>3, <2>4, <2>5, <2>6, <2>7 DEF ReadyInv, ReadyWasComplete
<1>7. ASSUME NEW u \in Client, NEW place \in {"promote", "insert", "approve", "idle"},
             NEW locals, Enter(u, place, locals), UNCHANGED capacity
      PROVE  ReadyInv'
  <2>1. \A v \in Client : pc'[v] = "mark" => pc[v] = "mark" /\ work'[v] = work[v]
    BY <1>1, <1>7 DEF Enter, TypeOK
  <2> QED
    BY <1>2, <1>7, <2>1 DEF capacity
<1>8. ASSUME UNCHANGED <<capacity, pc, work>>
      PROVE  ReadyInv'
  BY <1>2, <1>8 DEF capacity
<1> QED
  BY <1>3, <1>4, <1>5, <1>6, <1>7, <1>8
  DEF Next, vars, SaveRun, SaveAnalysisRun, PreparePromotion, CommitPromotion, LookUpKey,
      InsertScenario, CheckEstimate, ApproveEstimate, SetRateCard, CardAges,
      EstimateCapacity, Return

(* A run that is READY once had all its workers at the same time.          *)
THEOREM ReadyRunsWereComplete == Spec => []ReadyWasComplete
<1>1. Init => ReadyInv
  BY StoreAssumption DEF Init, ReadyInv, TypeOK, CallAt, Working, ReadyWasComplete
<1>2. ReadyInv => ReadyWasComplete
  BY DEF ReadyInv
<1> QED
  BY <1>1, <1>2, StepKeepsReady, PTL DEF Spec

-----------------------------------------------------------------------------
(* Every step keeps approvals on estimates that were priced.               *)
LEMMA StepKeepsPriced == PricedInv /\ [Next]_vars => PricedInv'
<1> SUFFICES ASSUME PricedInv, [Next]_vars
             PROVE  PricedInv'
  OBVIOUS
<1>1. TypeOK /\ TypeOK'
  BY StepKeepsTypes DEF PricedInv
<1>2. ASSUME UNCHANGED <<estimates, priced>>,
             \A u \in Client : pc'[u] = "approve" => pc[u] = "approve" /\ work'[u] = work[u]
      PROVE  PricedInv'
  BY <1>1, <1>2 DEF PricedInv
<1>3. ASSUME NEW c \in Card, NEW e \in Estimate, EstimateCapacity(e, c)
      PROVE  PricedInv'
  BY <1>1, <1>3 DEF EstimateCapacity, PricedInv, TypeOK
<1>4. ASSUME NEW u \in Client, NEW e \in Estimate, CheckEstimate(u, e)
      PROVE  PricedInv'
  <2>1. /\ estimates[e] = "ESTIMATED" /\ UNCHANGED <<estimates, priced>>
        /\ Enter(u, "approve", [op |-> "approve", estimate |-> e])
    BY <1>4 DEF CheckEstimate, prices
  <2>2. work'[u].estimate = e /\ e \in priced
    BY <1>1, <2>1 DEF Enter, TypeOK, PricedInv
  <2>3. \A v \in Client : v # u => pc'[v] = pc[v] /\ work'[v] = work[v]
    BY <1>1, <2>1 DEF Enter, TypeOK
  <2> QED
    BY <1>1, <2>1, <2>2, <2>3 DEF PricedInv
<1>5. ASSUME NEW u \in Client, ApproveEstimate(u)
      PROVE  PricedInv'
  <2>1. \A v \in Client : pc'[v] = "approve" => pc[v] = "approve" /\ work'[v] = work[v]
    BY <1>1, <1>5 DEF ApproveEstimate, Return, Enter, TypeOK
  <2>2. \A e \in Estimate : estimates'[e] = estimates[e] \/ e = work[u].estimate
    BY <1>1, <1>5 DEF ApproveEstimate, TypeOK
  <2>3. work[u].estimate \in priced /\ UNCHANGED priced
    BY <1>5 DEF ApproveEstimate, PricedInv
  <2> QED
    BY <1>1, <2>1, <2>2, <2>3 DEF PricedInv
<1>6. ASSUME NEW u \in Client, NEW place \in {"promote", "insert", "mark", "idle"},
             NEW locals, Enter(u, place, locals), UNCHANGED <<estimates, priced>>
      PROVE  PricedInv'
  <2>1. \A v \in Client : pc'[v] = "approve" => pc[v] = "approve" /\ work'[v] = work[v]
    BY <1>1, <1>6 DEF Enter, TypeOK
  <2> QED
    BY <1>2, <1>6, <2>1
<1>7. ASSUME UNCHANGED <<estimates, priced, pc, work>>
      PROVE  PricedInv'
  BY <1>2, <1>7
<1> QED
  BY <1>3, <1>4, <1>5, <1>6, <1>7
  DEF Next, vars, prices, SaveRun, SaveAnalysisRun, CreateRun, ConnectWorker, PreparePromotion,
      CommitPromotion, LookUpKey, InsertScenario, CountWorkers, MarkRun, SetRateCard,
      CardAges, Return

(* An estimate that was stale when it was computed is never approved.      *)
THEOREM ApprovedWerePriced == Spec => []ApprovedWasPriced
<1>1. Init => PricedInv
  BY StoreAssumption DEF Init, PricedInv, TypeOK, CallAt, Working
<1>2. PricedInv => ApprovedWasPriced
  BY DEF PricedInv, ApprovedWasPriced
<1> QED
  BY <1>1, <1>2, StepKeepsPriced, PTL DEF Spec

-----------------------------------------------------------------------------
(* Runs never change, so a promotion that was eligible when it was checked *)
(* still is when it is written.                                            *)
LEMMA StepKeepsEligible == RegisterInv /\ [Next]_vars => RegisterInv'
<1> SUFFICES ASSUME RegisterInv, [Next]_vars
             PROVE  RegisterInv'
  OBVIOUS
<1>1. TypeOK /\ TypeOK'
  BY StepKeepsTypes DEF RegisterInv
<1>2. ASSUME \A u \in Client : pc'[u] = "promote" => pc[u] = "promote" /\ work'[u] = work[u]
      PROVE  RegisterInv'
  BY <1>1, <1>2 DEF RegisterInv, PromotersAreEligible
<1>3. ASSUME NEW u \in Client, NEW r \in Run, NEW e \in Environment,
             NEW override \in BOOLEAN, PreparePromotion(u, r, e, override)
      PROVE  RegisterInv'
  <2>1. /\ Eligible(r, override)
        /\ Enter(u, "promote", [op |-> "promote", run |-> r, env |-> e, override |-> override])
    BY <1>3 DEF PreparePromotion
  <2>2. work'[u].run = r /\ work'[u].override = override
    BY <1>1, <2>1 DEF Enter, TypeOK
  <2>3. \A v \in Client : v # u => pc'[v] = pc[v] /\ work'[v] = work[v]
    BY <1>1, <2>1 DEF Enter, TypeOK
  <2>4. \A q, o : Eligible(q, o)' = Eligible(q, o)
    BY DEF Eligible
  <2> QED
    BY <1>1, <2>1, <2>2, <2>3 DEF RegisterInv, PromotersAreEligible
<1>4. ASSUME NEW u \in Client, NEW place \in {"insert", "mark", "approve", "idle"},
             NEW locals, Enter(u, place, locals)
      PROVE  RegisterInv'
  <2>1. \A v \in Client : pc'[v] = "promote" => pc[v] = "promote" /\ work'[v] = work[v]
    BY <1>1, <1>4 DEF Enter, TypeOK
  <2> QED
    BY <1>2, <2>1
<1>5. ASSUME UNCHANGED <<pc, work>>
      PROVE  RegisterInv'
  BY <1>2, <1>5
<1> QED
  BY <1>3, <1>4, <1>5
  DEF Next, vars, SaveRun, SaveAnalysisRun, CreateRun, ConnectWorker, CommitPromotion, LookUpKey,
      InsertScenario, CountWorkers, MarkRun, CheckEstimate, ApproveEstimate, SetRateCard,
      CardAges, EstimateCapacity, Return

(* A promotion's transaction is a step of BaselineRegister.                *)
LEMMA CommitPromotes ==
  ASSUME RegisterInv, NEW u \in Client, NEW b \in Baseline, CommitPromotion(u, b)
  PROVE  Register!Next
<1>0. PICK w, e, p : /\ w = work[u] /\ e = w.env
                     /\ p = [id |-> b, env |-> e, run |-> w.run, override |-> w.override]
  OBVIOUS
<1>1. /\ TypeOK /\ pc[u] = "promote" /\ w \in Promoting
      /\ Eligible(w.run, w.override) /\ baselines[b] = Nothing
  BY <1>0 DEF CommitPromotion, RegisterInv, PromotersAreEligible, TypeOK, CallAt
<1>2. e \in Environment /\ p \in Promotion /\ p.env = e /\ p.id = b
  BY <1>0, <1>1 DEF Promoting, Promotion
<1>3. Acceptable(p)
  BY <1>0, <1>1, StoreAssumption DEF Eligible, Acceptable, Promoting
<1>4. /\ baselines'[b] = [env |-> e, run |-> w.run, override |-> w.override, state |-> "ACTIVE"]
      /\ baselines'[b] # Nothing
      /\ \A d \in Baseline : d # b => baselines'[d] = Superseded(e)[d]
  <2>1. baselines'[b] = [env |-> e, run |-> w.run, override |-> w.override, state |-> "ACTIVE"]
    BY <1>0 DEF CommitPromotion, Superseded
  <2>2. baselines'[b] # Nothing
    <3>1. baselines'[b] \in BaselineRow
      BY <1>0, <1>1, <2>1 DEF BaselineRow, Promoting
    <3> QED
      BY <3>1, StoreAssumption
  <2> QED
    BY <1>0, <2>1, <2>2 DEF CommitPromotion, Superseded
<1>5. ASSUME NEW d \in Baseline, d # b
      PROVE  /\ baselines[d] = Nothing <=> baselines'[d] = Nothing
             /\ baselines[d] # Nothing =>
                  /\ PromotionOf(d)' = PromotionOf(d)
                  /\ baselines'[d].env = baselines[d].env
                  /\ baselines'[d].state =
                       IF baselines[d].env = e THEN "SUPERSEDED" ELSE baselines[d].state
  <2>1. baselines'[d] = IF IsActive(d, e)
                        THEN [baselines[d] EXCEPT !.state = "SUPERSEDED"]
                        ELSE baselines[d]
    BY <1>4, <1>5 DEF Superseded
  <2>2. CASE baselines[d] = Nothing
    BY <2>1, <2>2 DEF IsActive
  <2>3. CASE baselines[d] # Nothing
    <3>1. baselines[d] \in BaselineRow /\ baselines[d].state \in {"ACTIVE", "SUPERSEDED"}
      BY <1>1, <2>3 DEF TypeOK, BaselineRow
    <3>2. IsActive(d, e) <=> baselines[d].env = e /\ baselines[d].state = "ACTIVE"
      BY <2>3 DEF IsActive
    <3>3. CASE IsActive(d, e)
      <4>1. baselines'[d] = [baselines[d] EXCEPT !.state = "SUPERSEDED"]
        BY <2>1, <3>3
      <4>2. baselines'[d] \in BaselineRow
        BY <3>1, <4>1 DEF BaselineRow
      <4>3. baselines'[d] # Nothing
        BY <4>2, StoreAssumption
      <4>4. /\ baselines'[d].env = baselines[d].env
            /\ baselines'[d].run = baselines[d].run
            /\ baselines'[d].override = baselines[d].override
            /\ baselines'[d].state = "SUPERSEDED"
        BY <3>1, <4>1 DEF BaselineRow
      <4> QED
        BY <2>3, <3>2, <3>3, <4>3, <4>4 DEF PromotionOf
    <3>4. CASE ~IsActive(d, e)
      <4>1. baselines'[d] = baselines[d]
        BY <2>1, <3>4
      <4> QED
        BY <2>3, <3>1, <3>2, <3>4, <4>1 DEF PromotionOf
    <3> QED
      BY <3>3, <3>4
  <2> QED
    BY <2>2, <2>3
<1>6. PromotionOf(b)' = p
  BY <1>0, <1>4 DEF PromotionOf
<1>7. p \notin RetiredPromotions /\ p \notin ActivePromotions[e]
  BY <1>1, <1>2 DEF RetiredPromotions, ActivePromotions, InState, IsActive, PromotionOf
<1>8. ActivePromotions' = [ActivePromotions EXCEPT ![e] = {p}]
  <2> SUFFICES ASSUME NEW f \in Environment
               PROVE  ActivePromotions'[f] = IF f = e THEN {p} ELSE ActivePromotions[f]
    BY DEF ActivePromotions
  <2>1. CASE f = e
    <3>1. \A d \in Baseline : IsActive(d, e)' <=> d = b
      BY <1>4, <1>5 DEF IsActive
    <3>2. ActivePromotions'[e] = {PromotionOf(d)' : d \in {d \in Baseline : IsActive(d, e)'}}
      BY <1>2 DEF ActivePromotions
    <3>3. ActivePromotions'[e] = {PromotionOf(b)'}
      BY <3>1, <3>2
    <3> QED
      BY <1>6, <2>1, <3>3
  <2>2. CASE f # e
    <3>1. \A d \in Baseline : IsActive(d, f)' <=> IsActive(d, f)
      BY <1>1, <1>4, <1>5, <2>2 DEF IsActive
    <3>2. \A d \in Baseline : IsActive(d, f) => PromotionOf(d)' = PromotionOf(d)
      BY <1>1, <1>5 DEF IsActive
    <3> QED
      BY <2>2, <3>1, <3>2 DEF ActivePromotions
  <2> QED
    BY <2>1, <2>2
<1>9. RetiredPromotions' = RetiredPromotions \cup ActivePromotions[e]
  <2>1. \A d \in Baseline :
          d \in InState("SUPERSEDED")' <=> d \in InState("SUPERSEDED") \/ IsActive(d, e)
    <3> SUFFICES ASSUME NEW d \in Baseline
                 PROVE  d \in InState("SUPERSEDED")' <=>
                          d \in InState("SUPERSEDED") \/ IsActive(d, e)
      OBVIOUS
    <3>1. CASE d = b
      BY <1>1, <1>4, <3>1 DEF InState, IsActive
    <3>2. CASE d # b /\ baselines[d] = Nothing
      BY <1>5, <3>2 DEF InState, IsActive
    <3>3. CASE d # b /\ baselines[d] # Nothing
      <4>1. baselines[d].state \in {"ACTIVE", "SUPERSEDED"}
        BY <1>1, <3>3 DEF TypeOK, BaselineRow
      <4> QED
        BY <1>5, <3>3, <4>1 DEF InState, IsActive
    <3> QED
      BY <3>1, <3>2, <3>3
  <2>2. \A d \in Baseline : d \in InState("SUPERSEDED") \/ IsActive(d, e) =>
          PromotionOf(d)' = PromotionOf(d)
    BY <1>1, <1>5 DEF InState, IsActive
  <2>3. \A d : d \in InState("SUPERSEDED")' => d \in Baseline
    BY DEF InState
  <2>4. \A d : d \in InState("SUPERSEDED") => d \in Baseline
    BY DEF InState
  <2>5. ActivePromotions[e] = {PromotionOf(d) : d \in {d \in Baseline : IsActive(d, e)}}
    BY <1>2 DEF ActivePromotions
  <2> QED
    BY <2>1, <2>2, <2>3, <2>4, <2>5 DEF RetiredPromotions
<1>10. Register!Promote(p)
  BY <1>2, <1>3, <1>7, <1>8, <1>9 DEF Register!Promote, EnvironmentOf
<1>11. ActivePromotions' # ActivePromotions
  <2>1. ActivePromotions'[e] = {p}
    BY <1>2, <1>8 DEF ActivePromotions
  <2> QED
    BY <1>7, <2>1
<1> QED
  BY <1>2, <1>10, <1>11 DEF Register!Next

(* Every other step stutters.                                              *)
LEMMA OthersStutter == UNCHANGED baselines => UNCHANGED Register!vars
BY DEF Register!vars, ActivePromotions, RetiredPromotions, InState, IsActive, PromotionOf

(* The store implements BaselineRegister: at most one active baseline per  *)
(* environment, replaced in one step by acceptable promotions only.        *)
THEOREM StoreImplementsRegister == Spec => ImplementsRegister
<1>1. Init => RegisterInv
  BY StoreAssumption
  DEF Init, RegisterInv, PromotersAreEligible, TypeOK, CallAt, Working
<1>2. Init => Register!Init
  BY DEF Init, Register!Init, ActivePromotions, RetiredPromotions, InState, IsActive
<1>3. RegisterInv /\ [Next]_vars => [Register!Next]_(Register!vars)
  <2> SUFFICES ASSUME RegisterInv, [Next]_vars
               PROVE  Register!Next \/ UNCHANGED Register!vars
    OBVIOUS
  <2>1. (\E u \in Client, b \in Baseline : CommitPromotion(u, b)) \/ UNCHANGED baselines
    BY DEF Next, vars, evidence, SaveRun, SaveAnalysisRun, CreateRun, ConnectWorker,
           PreparePromotion, LookUpKey, InsertScenario, CountWorkers, MarkRun,
           CheckEstimate, ApproveEstimate, SetRateCard, CardAges, EstimateCapacity
  <2> QED
    BY <2>1, CommitPromotes, OthersStutter
<1> QED
  BY <1>1, <1>2, <1>3, StepKeepsEligible, PTL DEF Spec, ImplementsRegister, Register!Spec

-----------------------------------------------------------------------------
(* Campaigns and the rest of the store share the table of analysis runs:   *)
(* what one calls saving a run is saving a run for the other, so what is   *)
(* proved of each holds of a workspace.                                    *)
LEMMA CampaignStepsAreStoreSteps ==
  ASSUME CampaignNext, UNCHANGED storeTables
  PROVE  [Next]_vars
<1> USE DEF storeTables, evidence, vars
<1>1. ASSUME NEW r \in Run, RunIsSaved(r)
      PROVE  Next
  <2>1. SaveRun(r)
    BY <1>1 DEF RunIsSaved, SaveRun
  <2> QED
    BY <2>1 DEF Next
<1>2. ASSUME UNCHANGED saved
      PROVE  UNCHANGED vars
  BY <1>2
<1> QED
  BY <1>1, <1>2
  DEF CampaignNext, CreateCampaign, ReadRow, ShowCampaign, PrepareEdit, CommitEdit,
      PrepareFinalize, CommitFinalize, store

LEMMA StoreStepsAreCampaignSteps ==
  ASSUME Next, UNCHANGED campaignTables
  PROVE  [CampaignNext]_campaignVars
<1> USE DEF campaignTables, campaignVars
<1>1. ASSUME NEW r \in Run, SaveRun(r)
      PROVE  CampaignNext
  <2>1. RunIsSaved(r)
    BY <1>1 DEF RunIsSaved, SaveRun
  <2> QED
    BY <2>1 DEF CampaignNext
<1>2. ASSUME UNCHANGED saved
      PROVE  UNCHANGED campaignVars
  BY <1>2
<1> QED
  BY <1>1, <1>2
  DEF Next, evidence, CreateRun, ConnectWorker, PreparePromotion, CommitPromotion,
      LookUpKey, InsertScenario, CountWorkers, MarkRun, CheckEstimate,
      ApproveEstimate, SetRateCard, CardAges, EstimateCapacity

(* A workspace is a ReleaseCampaign and a WorkspaceStore on one table of   *)
(* analysis runs.                                                          *)
THEOREM WorkspaceRunsItsParts == WorkspaceSpec => CampaignSpec /\ Spec
<1>1. WorkspaceInit => CampaignInit /\ Init
  BY DEF WorkspaceInit
<1>2. [WorkspaceNext]_<<topic, saved, campaignTables, storeTables>>
        => [CampaignNext]_campaignVars /\ [Next]_vars
  <2>1. ASSUME UNCHANGED <<topic, saved, campaignTables, storeTables>>
        PROVE  UNCHANGED campaignVars /\ UNCHANGED vars
    BY <2>1 DEF campaignTables, storeTables, campaignVars, vars, evidence
  <2> QED
    BY <2>1, CampaignStepsAreStoreSteps, StoreStepsAreCampaignSteps DEF WorkspaceNext
<1> QED
  BY <1>1, <1>2, PTL DEF WorkspaceSpec, CampaignSpec, Spec

=============================================================================
