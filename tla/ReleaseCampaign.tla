-------------------------- MODULE ReleaseCampaign --------------------------
(***************************************************************************)
(* Release campaigns of PerformanceWorkspace (product_workspace.py) with   *)
(* the readiness rules of campaigns.py.                                    *)
(*                                                                         *)
(* A campaign is a row of the table campaigns and the rows of the table    *)
(* campaign_slots that carry its id.  Several clients (request threads of  *)
(* the workspace server, or scripts using the library) call                *)
(*                                                                         *)
(*   campaign()           a SELECT on each table, on an autocommit         *)
(*                        connection: two snapshots, not one;              *)
(*   update_campaign()    campaign(), checks, then one transaction guarded *)
(*                        by state='DRAFT' AND updated=<expected token>;   *)
(*   finalize_campaign()  campaign(), build_campaign() on what it read,    *)
(*                        then one transaction guarded by state='DRAFT'.   *)
(*                                                                         *)
(* Each call is split at those reads and at its transaction.  time.time()  *)
(* is taken before the transaction; two readings are taken to differ (the  *)
(* resolution of the clock is finer than a transaction, and the host does  *)
(* not set it back), so `clock' only counts them.                          *)
(***************************************************************************)
EXTENDS AnalysisRuns, Naturals, FiniteSets

CONSTANTS
  Campaign,      \* campaign ids that can be drawn
  SlotKey,       \* required slots: pairs <<environment, scenario>>
  Label,         \* campaign labels up to letter case (COLLATE NOCASE)
  DraftTables,   \* the slot tables clients submit
  MaxSlots,      \* update_campaign's limit on the number of slots (20)
  MaxClock,      \* bound: how many time.time() readings a behaviour takes
  NoRun,         \* a slot without a run
  NoBase         \* a run without a baseline

Decision == {"PASS", "ADVISORY", "FAIL"}

(* A slot table: the rows of campaign_slots of one campaign.               *)
Table == UNION {[keys -> Run \cup {NoRun}] : keys \in SUBSET SlotKey}

(* A row of campaigns: `frozen' stands for readiness, campaign_hash and    *)
(* finalized_json, all functions of the label and table it holds.          *)
Projection == [label : Label, slots : Table]
Row == [label : Label, state : {"DRAFT", "FINALIZED"}, updated : Nat,
        frozen : Projection \cup {Nothing}]

(* What campaign() returned to a client: the token and what goes with it. *)
Screen == [campaign : Campaign, token : Nat, label : Label, slots : Table]

ASSUME CampaignAssumption ==
  /\ DraftTables \subseteq Table
  /\ MaxSlots \in Nat
  /\ MaxClock \in Nat
  /\ NoRun \notin Run
  /\ \A r \in Run : RunInfo[r].decision \in Decision
  /\ Nothing \notin Table \cup Projection \cup Row \cup Screen

VARIABLES
  campaigns,   \* table campaigns: campaigns[c] is a row, or Nothing
  slots,       \* table campaign_slots: slots[c] is the table of c
  audit,       \* CAMPAIGN_FINALIZED entries: pairs <<campaign, projection>>
  clock,       \* readings of time.time() so far
  phase,       \* where each client is in its call
  held,        \* the local variables of that call
  shown,       \* what campaign() last returned to each client
  submitted    \* history variable: the tables accepted for each campaign

campaignVars == <<saved, campaigns, slots, audit, clock, phase, held, shown, submitted>>
store == <<saved, campaigns, slots, audit, submitted>>

-----------------------------------------------------------------------------
(* Readiness (campaigns.py): build_campaign on the slots it is given.      *)

Status(t, k) ==
  IF t[k] \in saved THEN RunInfo[t[k]].decision ELSE "UNKNOWN"

Filled(t) == {k \in DOMAIN t : t[k] \in saved}

PolicyDrift(t) ==
  \E j, k \in Filled(t) : RunInfo[t[j]].policy # RunInfo[t[k]].policy

BaselineDrift(t) ==
  \E j, k \in Filled(t) :
    /\ j[1] = k[1]
    /\ NoBase \notin {RunInfo[t[j]].base, RunInfo[t[k]].base}
    /\ RunInfo[t[j]].base # RunInfo[t[k]].base

Readiness(t) ==
  LET statuses == {Status(t, k) : k \in DOMAIN t}
  IN  IF "FAIL" \in statuses THEN "FAIL"
      ELSE IF "UNKNOWN" \in statuses THEN "INCOMPLETE"
      ELSE IF "ADVISORY" \in statuses \/ PolicyDrift(t) \/ BaselineDrift(t)
      THEN "ADVISORY"
      ELSE "PASS"

-----------------------------------------------------------------------------
(* Validation.  Lengths of names, blank names and duplicate pairs are not  *)
(* inputs here: they are refused before anything is read or written.       *)

RunsExist(t) == \A k \in DOMAIN t : t[k] = NoRun \/ t[k] \in saved

(* create_campaign only asks that the runs exist; update_campaign also     *)
(* refuses samples and runs of another environment, and long tables.       *)
EligibleTable(t) ==
  /\ RunsExist(t)
  /\ Cardinality(DOMAIN t) <= MaxSlots
  /\ \A k \in DOMAIN t : t[k] # NoRun =>
       ~RunInfo[t[k]].sample /\ RunInfo[t[k]].env = k[1]

LabelFree(c, l) ==
  \A d \in Campaign \ {c} : campaigns[d] # Nothing => campaigns[d].label # l

(* Calls that will still read the clock; the bound leaves room for them.   *)
Pending == {u \in Client : phase[u] = "slots" /\ held[u].op # "view"}
ClockLeft == clock + Cardinality(Pending) < MaxClock

-----------------------------------------------------------------------------
NoCall == [op |-> "none"]

CampaignInit ==
  /\ saved = {}
  /\ campaigns = [c \in Campaign |-> Nothing]
  /\ slots = [c \in Campaign |-> Nothing]
  /\ audit = {}
  /\ clock = 0
  /\ phase = [u \in Client |-> "idle"]
  /\ held = [u \in Client |-> NoCall]
  /\ shown = [u \in Client |-> Nothing]
  /\ submitted = [c \in Campaign |-> {}]

RunIsSaved(r) ==
  /\ SaveAnalysisRun(r)
  /\ UNCHANGED <<campaigns, slots, audit, clock, phase, held, shown, submitted>>

(* Variant of CreateCampaign: the slots are inserted in a transaction of   *)
(* their own and stay when the label turns out to be taken.                *)
CreateInTwoTransactions(c, l, t) ==
  /\ campaigns[c] = Nothing
  /\ DOMAIN t # {}
  /\ RunsExist(t)
  /\ ClockLeft
  /\ clock' = clock + 1
  /\ campaigns' = IF LabelFree(c, l)
       THEN [campaigns EXCEPT ![c] =
         [label |-> l, state |-> "DRAFT", updated |-> clock', frozen |-> Nothing]]
       ELSE campaigns
  /\ slots' = [slots EXCEPT ![c] = t]
  /\ submitted' = [submitted EXCEPT ![c] = @ \cup {t}]
  /\ UNCHANGED <<saved, audit, phase, held, shown>>

(* create_campaign: the row and its slots in one transaction; a taken      *)
(* label (CAMPAIGN_DUPLICATE) or a missing run (KeyError) rolls it back.   *)
CreateCampaign(c, l, t) ==
  /\ campaigns[c] = Nothing
  /\ LabelFree(c, l)
  /\ DOMAIN t # {}
  /\ RunsExist(t)
  /\ ClockLeft
  /\ clock' = clock + 1
  /\ campaigns' = [campaigns EXCEPT ![c] =
       [label |-> l, state |-> "DRAFT", updated |-> clock', frozen |-> Nothing]]
  /\ slots' = [slots EXCEPT ![c] = t]
  /\ submitted' = [submitted EXCEPT ![c] = @ \cup {t}]
  /\ UNCHANGED <<saved, audit, phase, held, shown>>

Leave(u) ==
  /\ phase' = [phase EXCEPT ![u] = "idle"]
  /\ held' = [held EXCEPT ![u] = NoCall]

(* campaign(), first SELECT: the row.  It opens every call; update is      *)
(* called with the token of the campaign the client was last shown.        *)
ReadRow(u, c, op) ==
  /\ phase[u] = "idle"
  /\ campaigns[c] # Nothing
  /\ op = "update" => shown[u] # Nothing /\ shown[u].campaign = c
  /\ op # "view" => ClockLeft
  /\ phase' = [phase EXCEPT ![u] = "slots"]
  /\ held' = [held EXCEPT ![u] = [op |-> op, campaign |-> c, row |-> campaigns[c]]]
  /\ UNCHANGED <<store, clock, shown>>

(* Variant of ShowCampaign: the token is read again after the row.         *)
ShowWithFreshToken(u) ==
  /\ phase[u] = "slots"
  /\ held[u].op = "view"
  /\ shown' = [shown EXCEPT ![u] =
       [campaign |-> held[u].campaign, token |-> campaigns[held[u].campaign].updated,
        label |-> held[u].row.label, slots |-> slots[held[u].campaign]]]
  /\ Leave(u)
  /\ UNCHANGED <<store, clock>>

(* campaign(), second SELECT, returned to a client that only looks.        *)
ShowCampaign(u) ==
  /\ phase[u] = "slots"
  /\ held[u].op = "view"
  /\ shown' = [shown EXCEPT ![u] =
       [campaign |-> held[u].campaign, token |-> held[u].row.updated,
        label |-> held[u].row.label, slots |-> slots[held[u].campaign]]]
  /\ Leave(u)
  /\ UNCHANGED <<store, clock>>

(* update_campaign up to its transaction: CAMPAIGN_FINALIZED,              *)
(* CAMPAIGN_CHANGED and the eligibility of the new slots.                  *)
PrepareEdit(u, l, t) ==
  LET accepted == /\ held[u].row.state = "DRAFT"
                  /\ held[u].row.updated = shown[u].token
                  /\ DOMAIN t # {}
                  /\ EligibleTable(t)
  IN  /\ phase[u] = "slots"
      /\ held[u].op = "update"
      /\ \/ /\ accepted
            /\ clock' = clock + 1
            /\ phase' = [phase EXCEPT ![u] = "edit"]
            /\ held' = [held EXCEPT ![u] =
                 [op |-> "update", campaign |-> held[u].campaign,
                  expected |-> shown[u].token, now |-> clock',
                  label |-> l, table |-> t]]
         \/ /\ ~accepted
            /\ Leave(u)
            /\ UNCHANGED clock
      /\ UNCHANGED <<store, shown>>

(* Variant of StillDraftAsExpected: AND updated=? is left out.             *)
StillDraft(w) == campaigns[w.campaign].state = "DRAFT"

(* The row that update_campaign's WHERE clause selects.                    *)
StillDraftAsExpected(w) ==
  /\ campaigns[w.campaign].state = "DRAFT"
  /\ campaigns[w.campaign].updated = w.expected

(* update_campaign's transaction.  No row matched: CAMPAIGN_CHANGED.  A    *)
(* label taken by another campaign: IntegrityError.  Both roll back.       *)
CommitEdit(u) ==
  LET w == held[u]
      c == w.campaign
      committed == StillDraftAsExpected(w) /\ LabelFree(c, w.label)
  IN  /\ phase[u] = "edit"
      /\ IF committed
         THEN /\ campaigns' = [campaigns EXCEPT ![c].label = w.label,
                                                ![c].updated = w.now]
              /\ slots' = [slots EXCEPT ![c] = w.table]
              /\ submitted' = [submitted EXCEPT ![c] = @ \cup {w.table}]
         ELSE UNCHANGED <<campaigns, slots, submitted>>
      /\ Leave(u)
      /\ UNCHANGED <<saved, audit, clock, shown>>

(* What finalize_campaign accepts of a projection.                         *)
ReadyToFinalize(t) == Readiness(t) # "INCOMPLETE"

(* Variant of PrepareFinalize: the audit entry is written with the checks. *)
AuditThenFinalize(u) ==
  LET t == slots[held[u].campaign]
      p == [label |-> held[u].row.label, slots |-> t]
  IN  /\ phase[u] = "slots"
      /\ held[u].op = "finalize"
      /\ held[u].row.state = "DRAFT"
      /\ ReadyToFinalize(t)
      /\ clock' = clock + 1
      /\ phase' = [phase EXCEPT ![u] = "finalize"]
      /\ held' = [held EXCEPT ![u] =
           [op |-> "finalize", campaign |-> @.campaign, now |-> clock',
            projection |-> p]]
      /\ audit' = audit \cup {<<held[u].campaign, p>>}
      /\ UNCHANGED <<saved, campaigns, slots, submitted, shown>>

(* finalize_campaign up to its transaction: CAMPAIGN_FINALIZED, the        *)
(* projection and CAMPAIGN_NOT_READY_TO_FINALIZE.                          *)
PrepareFinalize(u) ==
  LET t == slots[held[u].campaign]
      accepted == held[u].row.state = "DRAFT" /\ ReadyToFinalize(t)
  IN  /\ phase[u] = "slots"
      /\ held[u].op = "finalize"
      /\ \/ /\ accepted
            /\ clock' = clock + 1
            /\ phase' = [phase EXCEPT ![u] = "finalize"]
            /\ held' = [held EXCEPT ![u] =
                 [op |-> "finalize", campaign |-> held[u].campaign, now |-> clock',
                  projection |-> [label |-> held[u].row.label, slots |-> t]]]
         \/ /\ ~accepted
            /\ Leave(u)
            /\ UNCHANGED clock
      /\ UNCHANGED <<store, shown>>

(* Variant of CommitFinalize: AND state='DRAFT' is left out.               *)
FinalizeAgain(u) ==
  LET w == held[u]
      c == w.campaign
  IN  /\ phase[u] = "finalize"
      /\ campaigns' = [campaigns EXCEPT ![c].state = "FINALIZED",
                                        ![c].updated = w.now,
                                        ![c].frozen = w.projection]
      /\ audit' = audit \cup {<<c, w.projection>>}
      /\ Leave(u)
      /\ UNCHANGED <<saved, slots, submitted, clock, shown>>

(* finalize_campaign's transaction: the UPDATE touches a row that is still *)
(* a draft, whatever its token; the audit entry and the successful answer  *)
(* do not depend on whether it touched one.                                *)
CommitFinalize(u) ==
  LET w == held[u]
      c == w.campaign
  IN  /\ phase[u] = "finalize"
      /\ IF campaigns[c].state = "DRAFT"
         THEN campaigns' = [campaigns EXCEPT ![c].state = "FINALIZED",
                                             ![c].updated = w.now,
                                             ![c].frozen = w.projection]
         ELSE UNCHANGED campaigns
      /\ audit' = audit \cup {<<c, w.projection>>}
      /\ Leave(u)
      /\ UNCHANGED <<saved, slots, submitted, clock, shown>>

CampaignNext ==
  \/ \E r \in Run : RunIsSaved(r)
  \/ \E c \in Campaign, l \in Label, t \in DraftTables : CreateCampaign(c, l, t)
  \/ \E u \in Client :
       \/ \E c \in Campaign, op \in {"view", "update", "finalize"} : ReadRow(u, c, op)
       \/ ShowCampaign(u)
       \/ \E l \in Label, t \in DraftTables : PrepareEdit(u, l, t)
       \/ CommitEdit(u)
       \/ PrepareFinalize(u)
       \/ CommitFinalize(u)

CampaignSpec == CampaignInit /\ [][CampaignNext]_campaignVars

-----------------------------------------------------------------------------
(* Types of every variable.                                                *)
Reading == [op : {"view", "update", "finalize"}, campaign : Campaign, row : Row]
Editing == [op : {"update"}, campaign : Campaign, expected : Nat, now : Nat,
            label : Label, table : Table]
Finalizing == [op : {"finalize"}, campaign : Campaign, now : Nat,
               projection : Projection]

HeldType == Reading \cup Editing \cup Finalizing \cup {NoCall}

WorkAt(u) ==
  /\ phase[u] = "idle" => held[u] = NoCall
  /\ phase[u] = "slots" => held[u] \in Reading
  /\ phase[u] = "edit" => held[u] \in Editing
  /\ phase[u] = "finalize" => held[u] \in Finalizing
  /\ phase[u] # "idle" => campaigns[held[u].campaign] # Nothing
  /\ phase[u] # "idle" /\ held[u].op = "update" =>
       shown[u] # Nothing /\ shown[u].campaign = held[u].campaign

CampaignTypeOK ==
  /\ saved \subseteq Run
  /\ campaigns \in [Campaign -> Row \cup {Nothing}]
  /\ slots \in [Campaign -> Table \cup {Nothing}]
  /\ audit \subseteq Campaign \X Projection
  /\ clock \in Nat
  /\ phase \in [Client -> {"idle", "slots", "edit", "finalize"}]
  /\ held \in [Client -> HeldType]
  /\ \A u \in Client : WorkAt(u)
  /\ shown \in [Client -> Screen \cup {Nothing}]
  /\ submitted \in [Campaign -> SUBSET Table]
  /\ \A c \in Campaign : campaigns[c] = Nothing <=> slots[c] = Nothing

(* A token that is still current certifies what its holder saw: while the  *)
(* `updated' a client was shown is the one in the store, the label and the *)
(* slots it was shown are the ones in the store, although campaign() read  *)
(* them in two snapshots (the row first: the order matters).               *)
TokenNamesContent ==
  \A u \in Client :
    LET s == shown[u] IN
    s # Nothing /\ campaigns[s.campaign].updated = s.token =>
      /\ campaigns[s.campaign].label = s.label
      /\ slots[s.campaign] = s.slots

(* The inductive invariant behind it.  A reading of the clock that is not  *)
(* written yet differs from every token in the store, on a screen or in a  *)
(* row that is being read; all of them lie behind the clock; and the row   *)
(* a call has read names the label it came with.                           *)
Stamping == {u \in Client : phase[u] \in {"edit", "finalize"}}

TokensBehindClock ==
  /\ \A c \in Campaign : campaigns[c] # Nothing => campaigns[c].updated <= clock
  /\ \A u \in Client :
       /\ shown[u] # Nothing => shown[u].token <= clock
       /\ phase[u] = "slots" => held[u].row.updated <= clock
       /\ u \in Stamping => held[u].now <= clock

StampsAreFresh ==
  \A u \in Stamping :
    /\ \A c \in Campaign :
         campaigns[c] # Nothing => campaigns[c].updated # held[u].now
    /\ \A v \in Client :
         /\ shown[v] # Nothing => shown[v].token # held[u].now
         /\ phase[v] = "slots" => held[v].row.updated # held[u].now
         /\ v \in Stamping /\ v # u => held[v].now # held[u].now

ReadingNamesLabel ==
  \A u \in Client :
    LET w == held[u] IN
    phase[u] = "slots" /\ campaigns[w.campaign].updated = w.row.updated =>
      campaigns[w.campaign].label = w.row.label

CallsMatchScreens ==
  \A u \in Client :
    /\ shown[u] # Nothing => campaigns[shown[u].campaign] # Nothing
    /\ phase[u] = "edit" => held[u].expected = shown[u].token

TokenInv ==
  /\ CampaignTypeOK
  /\ TokensBehindClock
  /\ StampsAreFresh
  /\ ReadingNamesLabel
  /\ CallsMatchScreens
  /\ TokenNamesContent

(* Optimistic concurrency of update_campaign: an edit is accepted only     *)
(* from a client that was shown exactly the label and slots it replaces,   *)
(* so no accepted edit is overwritten by somebody who has not seen it.     *)
EditsReplaceWhatWasShown ==
  \A c \in Campaign :
    /\ campaigns[c] # Nothing
    /\ <<campaigns[c].label, slots[c]>>' # <<campaigns[c].label, slots[c]>>
    => \E u \in Client :
         /\ phase[u] = "edit" /\ phase'[u] = "idle"
         /\ shown[u].campaign = c
         /\ shown[u].label = campaigns[c].label
         /\ shown[u].slots = slots[c]

NoLostUpdate == [][EditsReplaceWhatWasShown]_campaignVars

(* A campaign is finalized exactly when a CAMPAIGN_FINALIZED entry exists  *)
(* for it, and one of them records the projection the row holds, even when *)
(* several clients finalize at once.                                       *)
FrozenIsAudited ==
  \A c \in Campaign :
    IF campaigns[c] # Nothing /\ campaigns[c].state = "FINALIZED"
    THEN <<c, campaigns[c].frozen>> \in audit
    ELSE \A entry \in audit : entry[1] # c

(* What may be frozen, told from the table alone: no slot lacks its run,   *)
(* or some run failed.                                                     *)
CompleteOrFailed(t) ==
  \/ \A k \in DOMAIN t : t[k] # NoRun
  \/ \E k \in DOMAIN t : t[k] # NoRun /\ RunInfo[t[k]].decision = "FAIL"

FrozenTable(c) ==
  IF campaigns[c] = Nothing \/ campaigns[c].frozen = Nothing
  THEN Nothing ELSE campaigns[c].frozen.slots

(* The store implements CampaignReview: edits and finalization are atomic, *)
(* a sealed campaign never changes again, and what is sealed is one of the *)
(* tables that were submitted and accepted, complete or failed.            *)
Review ==
  INSTANCE CampaignReview WITH
    Content <- Table, Sealable <- CompleteOrFailed,
    current <- slots, past <- submitted,
    seal <- [c \in Campaign |-> FrozenTable(c)]

ImplementsReview == Review!Spec

(* What makes each step of the store a step of CampaignReview: the table   *)
(* of a campaign was submitted, a draft has nothing frozen, and a client   *)
(* about to finalize carries a table that was submitted and may be frozen. *)
TablesAreSubmitted ==
  \A c \in Campaign : slots[c] # Nothing => slots[c] \in submitted[c]

DraftsAreUnsealed ==
  \A c \in Campaign : campaigns[c] # Nothing =>
    (campaigns[c].state = "DRAFT" <=> campaigns[c].frozen = Nothing)

FinalizersHoldSealable ==
  \A u \in Client :
    phase[u] = "finalize" =>
      /\ held[u].projection.slots \in submitted[held[u].campaign]
      /\ CompleteOrFailed(held[u].projection.slots)

ReviewInv ==
  /\ CampaignTypeOK
  /\ TablesAreSubmitted
  /\ DraftsAreUnsealed
  /\ FinalizersHoldSealable
  /\ FrozenIsAudited

(* docs/release-campaigns.md, line 3: "Finalization is allowed only when   *)
(* every slot references a persisted run."  FAIL ranks above INCOMPLETE,   *)
(* so a campaign with a failed run is finalized with slots still missing.  *)
FinalizedHasEveryRun ==
  \A c \in Campaign :
    FrozenTable(c) # Nothing =>
      \A k \in DOMAIN FrozenTable(c) : FrozenTable(c)[k] \in saved

=============================================================================
