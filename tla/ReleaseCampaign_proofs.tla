----------------------- MODULE ReleaseCampaign_proofs -----------------------
(***************************************************************************)
(* Proofs about ReleaseCampaign, for every value of its constants.         *)
(***************************************************************************)
EXTENDS ReleaseCampaign, TLAPS

(* A client that returns from a call leaves every other call in place, as  *)
(* long as no campaign disappears.                                         *)
LEMMA ReturnKeepsWork ==
  ASSUME CampaignTypeOK, NEW u \in Client, Leave(u), UNCHANGED shown,
         \A d \in Campaign : campaigns[d] # Nothing => campaigns'[d] # Nothing
  PROVE  /\ phase' \in [Client -> {"idle", "slots", "edit", "finalize"}]
         /\ held' \in [Client -> HeldType]
         /\ \A v \in Client : WorkAt(v)'
<1> USE DEF CampaignTypeOK, Leave
<1>1. phase' \in [Client -> {"idle", "slots", "edit", "finalize"}]
  OBVIOUS
<1>2. held' \in [Client -> HeldType]
  BY DEF HeldType
<1>3. ASSUME NEW v \in Client, v # u
      PROVE  WorkAt(v)'
  <2>1. phase'[v] = phase[v] /\ held'[v] = held[v] /\ WorkAt(v)
    BY <1>3
  <2>2. phase[v] # "idle" => held[v].campaign \in Campaign
    BY <2>1 DEF WorkAt, Reading, Editing, Finalizing
  <2> QED
    BY <2>1, <2>2 DEF WorkAt
<1>4. WorkAt(u)'
  BY DEF WorkAt
<1> QED
  BY <1>1, <1>2, <1>3, <1>4

(* Every step keeps the types.                                             *)
LEMMA StepKeepsTypes == CampaignTypeOK /\ [CampaignNext]_campaignVars => CampaignTypeOK'
<1> SUFFICES ASSUME CampaignTypeOK, [CampaignNext]_campaignVars
             PROVE  CampaignTypeOK'
  OBVIOUS
<1> USE DEF CampaignTypeOK, WorkAt, HeldType
<1>1. ASSUME NEW r \in Run, RunIsSaved(r)
      PROVE  CampaignTypeOK'
  BY <1>1 DEF RunIsSaved, SaveAnalysisRun
<1>2. ASSUME NEW c \in Campaign, NEW l \in Label, NEW t \in DraftTables,
             CreateCampaign(c, l, t)
      PROVE  CampaignTypeOK'
  BY <1>2, CampaignAssumption DEF CreateCampaign, Row, Projection
<1>3. ASSUME NEW u \in Client, NEW c \in Campaign,
             NEW op \in {"view", "update", "finalize"}, ReadRow(u, c, op)
      PROVE  CampaignTypeOK'
  BY <1>3 DEF ReadRow, store, Reading
<1>4. ASSUME NEW u \in Client, ShowCampaign(u)
      PROVE  CampaignTypeOK'
  <2>1. held[u] \in Reading /\ slots[held[u].campaign] \in Table
    BY <1>4 DEF ShowCampaign, Reading
  <2>2. shown' \in [Client -> Screen \cup {Nothing}]
    BY <1>4, <2>1 DEF ShowCampaign, Reading, Row, Screen
  <2> QED
    BY <1>4, <2>2 DEF ShowCampaign, store, Leave
<1>5. ASSUME NEW u \in Client, NEW l \in Label, NEW t \in DraftTables,
             PrepareEdit(u, l, t)
      PROVE  CampaignTypeOK'
  <2>1. /\ held[u] \in Reading /\ held[u].op = "update"
        /\ shown[u] \in Screen /\ t \in Table
    BY <1>5, CampaignAssumption DEF PrepareEdit
  <2>2. CASE /\ clock' = clock + 1
             /\ phase' = [phase EXCEPT ![u] = "edit"]
             /\ held' = [held EXCEPT ![u] =
                  [op |-> "update", campaign |-> held[u].campaign,
                   expected |-> shown[u].token, now |-> clock',
                   label |-> l, table |-> t]]
    <3>1. held'[u] \in Editing /\ held'[u].campaign = held[u].campaign
      BY <2>1, <2>2 DEF Reading, Editing, Screen
    <3> QED
      BY <1>5, <2>1, <2>2, <3>1 DEF PrepareEdit, store
  <2>3. CASE Leave(u) /\ UNCHANGED clock
    BY <1>5, <2>3 DEF PrepareEdit, store, Leave
  <2> QED
    BY <1>5, <2>2, <2>3 DEF PrepareEdit
<1>6. ASSUME NEW u \in Client, CommitEdit(u)
      PROVE  CampaignTypeOK'
  <2>1. held[u] \in Editing /\ campaigns[held[u].campaign] \in Row
    BY <1>6 DEF CommitEdit, Editing
  <2> DEFINE c == held[u].campaign
  <2>2. CASE UNCHANGED <<campaigns, slots, submitted>>
    BY <1>6, <2>2 DEF CommitEdit, Leave
  <2>3. CASE /\ campaigns' = [campaigns EXCEPT ![c].label = held[u].label,
                                              ![c].updated = held[u].now]
             /\ slots' = [slots EXCEPT ![c] = held[u].table]
             /\ submitted' = [submitted EXCEPT ![c] = @ \cup {held[u].table}]
    <3>1. campaigns'[c] \in Row /\ slots'[c] \in Table
      BY <2>1, <2>3 DEF Editing, Row
    <3>2. campaigns' \in [Campaign -> Row \cup {Nothing}]
      BY <2>1, <2>3, <3>1 DEF Editing
    <3>3. campaigns'[c] # Nothing /\ slots'[c] # Nothing
      BY <3>1, CampaignAssumption
    <3>4. \A d \in Campaign :
            /\ campaigns'[d] = Nothing <=> campaigns[d] = Nothing
            /\ slots'[d] = Nothing <=> slots[d] = Nothing
      BY <2>1, <2>3, <3>3, CampaignAssumption DEF Editing
    <3>5. Leave(u) /\ UNCHANGED <<saved, audit, clock, shown>>
      BY <1>6 DEF CommitEdit
    <3>6. /\ slots' \in [Campaign -> Table \cup {Nothing}]
          /\ submitted' \in [Campaign -> SUBSET Table]
      BY <2>1, <2>3 DEF Editing
    <3>7. /\ phase' \in [Client -> {"idle", "slots", "edit", "finalize"}]
          /\ held' \in [Client -> HeldType]
          /\ \A v \in Client : WorkAt(v)'
      BY <3>4, <3>5, ReturnKeepsWork
    <3> QED
      BY <3>2, <3>4, <3>5, <3>6, <3>7
  <2> QED
    BY <1>6, <2>2, <2>3 DEF CommitEdit
<1>7. ASSUME NEW u \in Client, PrepareFinalize(u)
      PROVE  CampaignTypeOK'
  <2>1. held[u] \in Reading /\ slots[held[u].campaign] \in Table
    BY <1>7 DEF PrepareFinalize, Reading
  <2> QED
    BY <1>7, <2>1 DEF PrepareFinalize, store, Leave, Reading, Finalizing, Projection, Row
<1>8. ASSUME NEW u \in Client, CommitFinalize(u)
      PROVE  CampaignTypeOK'
  <2>1. held[u] \in Finalizing /\ campaigns[held[u].campaign] \in Row
    BY <1>8 DEF CommitFinalize, Finalizing
  <2> DEFINE c == held[u].campaign
  <2>2. campaigns' \in [Campaign -> Row \cup {Nothing}] /\ campaigns'[c] \in Row
    BY <1>8, <2>1 DEF CommitFinalize, Finalizing, Row
  <2>3. \A d \in Campaign : campaigns'[d] = Nothing <=> campaigns[d] = Nothing
    BY <1>8, <2>1, <2>2, CampaignAssumption DEF CommitFinalize, Finalizing
  <2>4. Leave(u) /\ UNCHANGED <<saved, slots, submitted, clock, shown>>
    BY <1>8 DEF CommitFinalize
  <2>5. audit' \subseteq Campaign \X Projection
    BY <1>8, <2>1 DEF CommitFinalize, Finalizing
  <2> QED
    BY <2>2, <2>3, <2>4, <2>5, ReturnKeepsWork
<1>9. CASE UNCHANGED campaignVars
  BY <1>9 DEF campaignVars
<1> QED
  BY <1>1, <1>2, <1>3, <1>4, <1>5, <1>6, <1>7, <1>8, <1>9 DEF CampaignNext

(* Type correctness: every variable keeps its type, a client's local       *)
(* variables fit its place in the call, and a campaign has slots exactly   *)
(* when it has a row.                                                      *)
THEOREM TypeCorrect == CampaignSpec => []CampaignTypeOK
<1>1. CampaignInit => CampaignTypeOK
  BY CampaignAssumption DEF CampaignInit, CampaignTypeOK, WorkAt, HeldType
<1> QED
  BY <1>1, StepKeepsTypes, PTL DEF CampaignSpec

-----------------------------------------------------------------------------
(* Tokens.  Every row, screen and reading carries a token behind the       *)
(* clock, and a call that took a new reading holds a value none of them    *)
(* has; so when it writes that value no older screen matches the row.      *)

(* What the type invariant says of the tokens in one state.                *)
LEMMA TokenTypes ==
  ASSUME CampaignTypeOK
  PROVE  /\ clock \in Nat
         /\ \A c \in Campaign : campaigns[c] # Nothing =>
              campaigns[c] \in Row /\ campaigns[c].updated \in Nat
         /\ \A u \in Client :
              /\ shown[u] # Nothing => /\ shown[u] \in Screen
                                       /\ shown[u].campaign \in Campaign
                                       /\ shown[u].token \in Nat
              /\ phase[u] = "slots" => /\ held[u] \in Reading
                                    /\ held[u].campaign \in Campaign
                                    /\ held[u].row.updated \in Nat
              /\ u \in Stamping => /\ held[u].now \in Nat
                                    /\ held[u].campaign \in Campaign
              /\ phase[u] # "idle" => campaigns[held[u].campaign] # Nothing
BY DEF CampaignTypeOK, WorkAt, Row, Screen, Reading, Editing, Finalizing, Stamping

(* Putting a new token on campaign c, held so far by nobody, keeps the     *)
(* two facts that tie tokens to labels and slots.                          *)
LEMMA FreshTokenKeepsNames ==
  ASSUME NEW c \in Campaign, CampaignTypeOK, ReadingNamesLabel, TokenNamesContent,
         CallsMatchScreens,
         \A d \in Campaign \ {c} : campaigns'[d] = campaigns[d] /\ slots'[d] = slots[d],
         \A u \in Client : shown[u] # Nothing => shown[u].token # campaigns'[c].updated,
         \A u \in Client : phase[u] = "slots" => held[u].row.updated # campaigns'[c].updated,
         \A u \in Client : phase'[u] = "slots" => phase[u] = "slots" /\ held'[u] = held[u],
         UNCHANGED shown
  PROVE  ReadingNamesLabel' /\ TokenNamesContent'
<1>1. ReadingNamesLabel'
  BY TokenTypes DEF ReadingNamesLabel
<1>2. TokenNamesContent'
  BY TokenTypes DEF TokenNamesContent
<1> QED
  BY <1>1, <1>2

(* One step keeps the token invariant.                                     *)
LEMMA StepKeepsTokens == TokenInv /\ [CampaignNext]_campaignVars => TokenInv'
<1> SUFFICES ASSUME TokenInv, [CampaignNext]_campaignVars
             PROVE  /\ TokensBehindClock' /\ StampsAreFresh'
                    /\ ReadingNamesLabel' /\ CallsMatchScreens'
                    /\ TokenNamesContent'
  BY StepKeepsTypes DEF TokenInv
<1> USE TokenTypes DEF TokenInv
<1>1. ASSUME NEW r \in Run, RunIsSaved(r)
      PROVE  /\ TokensBehindClock' /\ StampsAreFresh'
             /\ ReadingNamesLabel' /\ CallsMatchScreens'
             /\ TokenNamesContent'
  BY <1>1 DEF RunIsSaved, SaveAnalysisRun, TokensBehindClock, StampsAreFresh, Stamping,
              ReadingNamesLabel, CallsMatchScreens, TokenNamesContent
<1>2. ASSUME NEW c \in Campaign, NEW l \in Label, NEW t \in DraftTables,
             CreateCampaign(c, l, t)
      PROVE  /\ TokensBehindClock' /\ StampsAreFresh'
             /\ ReadingNamesLabel' /\ CallsMatchScreens'
             /\ TokenNamesContent'
  <2> USE DEF CreateCampaign
  <2>1. /\ campaigns'[c].updated = clock + 1
        /\ campaigns'[c] # Nothing
        /\ \A d \in Campaign \ {c} :
             campaigns'[d] = campaigns[d] /\ slots'[d] = slots[d]
        /\ UNCHANGED <<phase, held, shown>>
    <3>1. campaigns'[c] = [label |-> l, state |-> "DRAFT",
                           updated |-> clock + 1, frozen |-> Nothing]
      BY <1>2 DEF CampaignTypeOK
    <3>2. campaigns'[c] \in Row
      BY <3>1, TokenTypes DEF Row
    <3> QED
      BY <1>2, <3>1, <3>2, CampaignAssumption DEF CampaignTypeOK
  <2>2. TokensBehindClock' /\ StampsAreFresh' /\ CallsMatchScreens'
    BY <1>2, <2>1 DEF TokensBehindClock, StampsAreFresh, Stamping, CallsMatchScreens
  <2>3. ReadingNamesLabel' /\ TokenNamesContent'
    BY <1>2, <2>1, FreshTokenKeepsNames DEF TokensBehindClock, CampaignTypeOK
  <2> QED
    BY <2>2, <2>3
<1>3. ASSUME NEW u \in Client, NEW c \in Campaign,
             NEW op \in {"view", "update", "finalize"}, ReadRow(u, c, op)
      PROVE  /\ TokensBehindClock' /\ StampsAreFresh'
             /\ ReadingNamesLabel' /\ CallsMatchScreens'
             /\ TokenNamesContent'
  <2>1. /\ held'[u].row = campaigns[c] /\ held'[u].campaign = c
        /\ \A v \in Client \ {u} : held'[v] = held[v] /\ phase'[v] = phase[v]
        /\ phase'[u] = "slots"
        /\ UNCHANGED <<campaigns, slots, clock, shown>>
    BY <1>3 DEF ReadRow, store, CampaignTypeOK
  <2> QED
    BY <1>3, <2>1 DEF ReadRow, TokensBehindClock, StampsAreFresh, Stamping,
                      ReadingNamesLabel, CallsMatchScreens, TokenNamesContent
<1>4. ASSUME NEW u \in Client, ShowCampaign(u)
      PROVE  /\ TokensBehindClock' /\ StampsAreFresh'
             /\ ReadingNamesLabel' /\ CallsMatchScreens'
             /\ TokenNamesContent'
  <2>1. /\ phase[u] = "slots"
        /\ shown'[u].campaign = held[u].campaign
        /\ shown'[u].token = held[u].row.updated
        /\ shown'[u].label = held[u].row.label
        /\ shown'[u].slots = slots[held[u].campaign]
        /\ \A v \in Client \ {u} :
             shown'[v] = shown[v] /\ held'[v] = held[v] /\ phase'[v] = phase[v]
        /\ phase'[u] = "idle"
        /\ UNCHANGED <<campaigns, slots, clock>>
    BY <1>4 DEF ShowCampaign, Leave, store, CampaignTypeOK
  <2> QED
    BY <2>1 DEF TokensBehindClock, StampsAreFresh, Stamping,
                ReadingNamesLabel, CallsMatchScreens, TokenNamesContent
<1>5. ASSUME NEW u \in Client, NEW l \in Label, NEW t \in DraftTables,
             PrepareEdit(u, l, t)
      PROVE  /\ TokensBehindClock' /\ StampsAreFresh'
             /\ ReadingNamesLabel' /\ CallsMatchScreens'
             /\ TokenNamesContent'
  <2>1. UNCHANGED <<campaigns, slots, shown>> /\ phase[u] = "slots"
    BY <1>5 DEF PrepareEdit, store
  <2>2. CASE /\ clock' = clock + 1
             /\ phase' = [phase EXCEPT ![u] = "edit"]
             /\ held' = [held EXCEPT ![u] =
                  [op |-> "update", campaign |-> held[u].campaign,
                   expected |-> shown[u].token, now |-> clock',
                   label |-> l, table |-> t]]
    <3>1. /\ phase'[u] = "edit" /\ held'[u].now = clock + 1
          /\ held'[u].expected = shown[u].token
          /\ \A v \in Client \ {u} : held'[v] = held[v] /\ phase'[v] = phase[v]
      BY <2>2 DEF CampaignTypeOK
    <3> QED
      BY <2>1, <2>2, <3>1 DEF TokensBehindClock, StampsAreFresh, Stamping,
                         ReadingNamesLabel, CallsMatchScreens, TokenNamesContent
  <2>3. CASE Leave(u) /\ UNCHANGED clock
    <3>1. /\ phase'[u] = "idle"
          /\ \A v \in Client \ {u} : held'[v] = held[v] /\ phase'[v] = phase[v]
      BY <2>3 DEF Leave, CampaignTypeOK
    <3> QED
      BY <2>1, <2>3, <3>1 DEF TokensBehindClock, StampsAreFresh, Stamping,
                         ReadingNamesLabel, CallsMatchScreens, TokenNamesContent
  <2> QED
    BY <1>5, <2>2, <2>3 DEF PrepareEdit
<1>6. ASSUME NEW u \in Client, CommitEdit(u)
      PROVE  /\ TokensBehindClock' /\ StampsAreFresh'
             /\ ReadingNamesLabel' /\ CallsMatchScreens'
             /\ TokenNamesContent'
  <2> DEFINE c == held[u].campaign
  <2>1. /\ u \in Stamping /\ phase'[u] = "idle"
        /\ \A v \in Client \ {u} : held'[v] = held[v] /\ phase'[v] = phase[v]
        /\ UNCHANGED <<clock, shown>>
    BY <1>6 DEF CommitEdit, Leave, Stamping, CampaignTypeOK
  <2>2. CASE UNCHANGED <<campaigns, slots>>
    BY <2>1, <2>2 DEF TokensBehindClock, StampsAreFresh, Stamping,
                      ReadingNamesLabel, CallsMatchScreens, TokenNamesContent
  <2>3. CASE /\ campaigns' = [campaigns EXCEPT ![c].label = held[u].label,
                                              ![c].updated = held[u].now]
             /\ slots' = [slots EXCEPT ![c] = held[u].table]
    <3>1. /\ c \in Campaign
          /\ campaigns'[c].updated = held[u].now
          /\ campaigns[c] # Nothing
          /\ campaigns'[c] # Nothing
          /\ \A d \in Campaign \ {c} :
               campaigns'[d] = campaigns[d] /\ slots'[d] = slots[d]
      <4>1. c \in Campaign /\ campaigns[c] # Nothing /\ campaigns[c] \in Row
        BY <2>1, TokenTypes DEF Stamping
      <4>2. campaigns'[c].updated = held[u].now
        BY <2>3, <4>1 DEF CampaignTypeOK, Row
      <4>3. campaigns'[c] # Nothing
        <5>1. held[u] \in Editing
          BY <1>6 DEF CommitEdit, CampaignTypeOK, WorkAt
        <5>2. campaigns'[c] \in Row
          BY <2>3, <4>1, <5>1 DEF CampaignTypeOK, Row, Editing
        <5> QED
          BY <5>2, CampaignAssumption
      <4> QED
        BY <2>1, <2>3, <4>1, <4>2, <4>3 DEF CampaignTypeOK
    <3>2. TokensBehindClock' /\ StampsAreFresh' /\ CallsMatchScreens'
      BY <2>1, <3>1 DEF TokensBehindClock, StampsAreFresh, Stamping, CallsMatchScreens
    <3>3. ReadingNamesLabel' /\ TokenNamesContent'
      BY <2>1, <3>1, FreshTokenKeepsNames DEF StampsAreFresh
    <3> QED
      BY <3>2, <3>3
  <2> QED
    BY <1>6, <2>2, <2>3 DEF CommitEdit
<1>7. ASSUME NEW u \in Client, PrepareFinalize(u)
      PROVE  /\ TokensBehindClock' /\ StampsAreFresh'
             /\ ReadingNamesLabel' /\ CallsMatchScreens'
             /\ TokenNamesContent'
  <2>1. UNCHANGED <<campaigns, slots, shown>> /\ phase[u] = "slots"
    BY <1>7 DEF PrepareFinalize, store
  <2>2. CASE /\ clock' = clock + 1
             /\ phase' = [phase EXCEPT ![u] = "finalize"]
             /\ held' = [held EXCEPT ![u] =
                  [op |-> "finalize", campaign |-> held[u].campaign, now |-> clock',
                   projection |-> [label |-> held[u].row.label,
                                   slots |-> slots[held[u].campaign]]]]
    <3>1. /\ phase'[u] = "finalize" /\ held'[u].now = clock + 1
          /\ \A v \in Client \ {u} : held'[v] = held[v] /\ phase'[v] = phase[v]
      BY <2>2 DEF CampaignTypeOK
    <3> QED
      BY <2>1, <2>2, <3>1 DEF TokensBehindClock, StampsAreFresh, Stamping,
                         ReadingNamesLabel, CallsMatchScreens, TokenNamesContent
  <2>3. CASE Leave(u) /\ UNCHANGED clock
    <3>1. /\ phase'[u] = "idle"
          /\ \A v \in Client \ {u} : held'[v] = held[v] /\ phase'[v] = phase[v]
      BY <2>3 DEF Leave, CampaignTypeOK
    <3> QED
      BY <2>1, <2>3, <3>1 DEF TokensBehindClock, StampsAreFresh, Stamping,
                         ReadingNamesLabel, CallsMatchScreens, TokenNamesContent
  <2> QED
    BY <1>7, <2>2, <2>3 DEF PrepareFinalize
<1>8. ASSUME NEW u \in Client, CommitFinalize(u)
      PROVE  /\ TokensBehindClock' /\ StampsAreFresh'
             /\ ReadingNamesLabel' /\ CallsMatchScreens'
             /\ TokenNamesContent'
  <2> DEFINE c == held[u].campaign
  <2>1. /\ u \in Stamping /\ phase'[u] = "idle"
        /\ \A v \in Client \ {u} : held'[v] = held[v] /\ phase'[v] = phase[v]
        /\ UNCHANGED <<slots, clock, shown>>
    BY <1>8 DEF CommitFinalize, Leave, Stamping, CampaignTypeOK
  <2>2. CASE UNCHANGED campaigns
    BY <2>1, <2>2 DEF TokensBehindClock, StampsAreFresh, Stamping,
                      ReadingNamesLabel, CallsMatchScreens, TokenNamesContent
  <2>3. CASE campaigns' = [campaigns EXCEPT ![c].state = "FINALIZED",
                                            ![c].updated = held[u].now,
                                            ![c].frozen = held[u].projection]
    <3>1. /\ c \in Campaign
          /\ campaigns'[c].updated = held[u].now
          /\ campaigns[c] # Nothing
          /\ campaigns'[c] # Nothing
          /\ \A d \in Campaign \ {c} :
               campaigns'[d] = campaigns[d] /\ slots'[d] = slots[d]
      <4>1. c \in Campaign /\ campaigns[c] # Nothing /\ campaigns[c] \in Row
        BY <2>1, TokenTypes DEF Stamping
      <4>2. campaigns'[c].updated = held[u].now
        BY <2>3, <4>1 DEF CampaignTypeOK, Row
      <4>3. campaigns'[c] # Nothing
        BY <4>1, StepKeepsTypes, <1>8 DEF CampaignTypeOK, CommitFinalize
      <4> QED
        BY <2>1, <2>3, <4>1, <4>2, <4>3 DEF CampaignTypeOK
    <3>2. TokensBehindClock' /\ StampsAreFresh' /\ CallsMatchScreens'
      BY <2>1, <3>1 DEF TokensBehindClock, StampsAreFresh, Stamping, CallsMatchScreens
    <3>3. ReadingNamesLabel' /\ TokenNamesContent'
      BY <2>1, <3>1, FreshTokenKeepsNames DEF StampsAreFresh
    <3> QED
      BY <3>2, <3>3
  <2> QED
    BY <1>8, <2>2, <2>3 DEF CommitFinalize
<1>9. CASE UNCHANGED campaignVars
  BY <1>9 DEF campaignVars, TokensBehindClock, StampsAreFresh, Stamping,
              ReadingNamesLabel, CallsMatchScreens, TokenNamesContent
<1> QED
  BY <1>1, <1>2, <1>3, <1>4, <1>5, <1>6, <1>7, <1>8, <1>9 DEF CampaignNext

(* The token invariant holds initially.                                    *)
LEMMA InitTokens == CampaignInit => TokenInv
BY CampaignAssumption DEF CampaignInit, TokenInv, CampaignTypeOK, WorkAt, HeldType,
   TokensBehindClock, StampsAreFresh, Stamping, ReadingNamesLabel,
   CallsMatchScreens, TokenNamesContent

(* A token that is still current certifies what its holder saw, for every  *)
(* number of clients, campaigns and runs (campaign() and update_campaign). *)
THEOREM TokensNameContent == CampaignSpec => []TokenNamesContent
<1>1. TokenInv => TokenNamesContent
  BY DEF TokenInv
<1> QED
  BY <1>1, InitTokens, StepKeepsTokens, PTL DEF CampaignSpec

-----------------------------------------------------------------------------
(* Optimistic concurrency.                                                 *)

(* Only the commit of an edit changes a label or slots, and its WHERE      *)
(* clause finds the row only while the token its client was shown is the   *)
(* current one; TokenNamesContent then says what that client was shown.    *)
LEMMA StepReplacesWhatWasShown ==
  TokenInv /\ [CampaignNext]_campaignVars => EditsReplaceWhatWasShown
<1> SUFFICES ASSUME TokenInv, [CampaignNext]_campaignVars, NEW c \in Campaign,
                    campaigns[c] # Nothing,
                    <<campaigns'[c].label, slots'[c]>> # <<campaigns[c].label, slots[c]>>
             PROVE  \E u \in Client :
                      /\ phase[u] = "edit" /\ phase'[u] = "idle"
                      /\ shown[u].campaign = c
                      /\ shown[u].label = campaigns[c].label
                      /\ shown[u].slots = slots[c]
  BY DEF EditsReplaceWhatWasShown
<1> USE TokenTypes DEF TokenInv
<1>1. CASE UNCHANGED <<campaigns, slots>>
  BY <1>1
<1>2. ASSUME NEW r \in Run, RunIsSaved(r)
      PROVE  FALSE
  BY <1>2 DEF RunIsSaved, SaveAnalysisRun
<1>3. ASSUME NEW d \in Campaign, NEW l \in Label, NEW t \in DraftTables,
             CreateCampaign(d, l, t)
      PROVE  FALSE
  <2>1. d # c
    BY <1>3 DEF CreateCampaign
  <2> QED
    BY <1>3, <2>1 DEF CreateCampaign, CampaignTypeOK
<1>4. ASSUME NEW u \in Client, CommitEdit(u)
      PROVE  /\ phase[u] = "edit" /\ phase'[u] = "idle"
             /\ shown[u].campaign = c
             /\ shown[u].label = campaigns[c].label
             /\ shown[u].slots = slots[c]
  <2>1. /\ phase[u] = "edit" /\ phase'[u] = "idle"
        /\ held[u] \in Editing /\ held[u].op = "update"
    BY <1>4 DEF CommitEdit, Leave, CampaignTypeOK, WorkAt, Editing
  <2>2. shown[u] # Nothing /\ shown[u].campaign = held[u].campaign
    BY <2>1 DEF CampaignTypeOK, WorkAt
  <2>3. held[u].campaign = c
    BY <1>4, <2>1 DEF CommitEdit, CampaignTypeOK, Editing
  <2>4. campaigns[c].updated = shown[u].token
    BY <1>4, <2>1, <2>3 DEF CommitEdit, StillDraftAsExpected, CallsMatchScreens
  <2> QED
    BY <2>1, <2>2, <2>3, <2>4 DEF TokenNamesContent
<1>5. ASSUME NEW u \in Client, CommitFinalize(u)
      PROVE  FALSE
  <2>1. held[u].campaign \in Campaign /\ campaigns[held[u].campaign] \in Row
    BY <1>5 DEF CommitFinalize, Stamping
  <2>2. UNCHANGED slots
    BY <1>5 DEF CommitFinalize
  <2>3. campaigns'[c].label = campaigns[c].label
    BY <1>5, <2>1 DEF CommitFinalize, CampaignTypeOK, Row
  <2> QED
    BY <2>2, <2>3
<1> QED
  BY <1>1, <1>2, <1>3, <1>4, <1>5
  DEF CampaignNext, ReadRow, ShowCampaign, PrepareEdit, PrepareFinalize, store, campaignVars

(* No lost update, for every number of clients and edits: an accepted edit *)
(* replaces exactly the label and slots its client was shown.              *)
THEOREM NoUpdateIsLost == CampaignSpec => NoLostUpdate
<1>1. TokenInv /\ [CampaignNext]_campaignVars => [EditsReplaceWhatWasShown]_campaignVars
  BY StepReplacesWhatWasShown
<1> QED
  BY <1>1, InitTokens, StepKeepsTokens, PTL DEF CampaignSpec, NoLostUpdate

-----------------------------------------------------------------------------
(* Finalization: the audit trail and the refinement of CampaignReview.     *)

(* What finalize_campaign accepts may be frozen: build_campaign ranks FAIL *)
(* first, then UNKNOWN, so a table that is not INCOMPLETE has a failed run *)
(* or no empty slot.                                                       *)
LEMMA ReadyIsSealable ==
  ASSUME CampaignTypeOK, NEW t \in Table, ReadyToFinalize(t)
  PROVE  CompleteOrFailed(t)
<1>1. \A k \in DOMAIN t : Status(t, k) = "FAIL" =>
        t[k] # NoRun /\ RunInfo[t[k]].decision = "FAIL"
  BY CampaignAssumption DEF Status, CampaignTypeOK
<1>2. \A k \in DOMAIN t : t[k] = NoRun => Status(t, k) = "UNKNOWN"
  BY CampaignAssumption DEF Status, CampaignTypeOK
<1>3. \/ \E k \in DOMAIN t : Status(t, k) = "FAIL"
      \/ \A k \in DOMAIN t : Status(t, k) # "UNKNOWN"
  BY DEF ReadyToFinalize, Readiness
<1> QED
  BY <1>1, <1>2, <1>3 DEF CompleteOrFailed

(* The refinement invariant holds initially.                               *)
LEMMA InitReview == CampaignInit => ReviewInv
BY CampaignAssumption DEF CampaignInit, ReviewInv, CampaignTypeOK, WorkAt, HeldType,
   TablesAreSubmitted, DraftsAreUnsealed, FinalizersHoldSealable, FrozenIsAudited

(* One step keeps the invariant behind the refinement.                     *)
LEMMA StepKeepsReview == ReviewInv /\ [CampaignNext]_campaignVars => ReviewInv'
<1> SUFFICES ASSUME ReviewInv, [CampaignNext]_campaignVars
             PROVE  /\ TablesAreSubmitted' /\ DraftsAreUnsealed'
                    /\ FinalizersHoldSealable' /\ FrozenIsAudited'
  BY StepKeepsTypes DEF ReviewInv
<1> USE TokenTypes DEF ReviewInv
<1>0. ASSUME \A d \in Campaign : submitted[d] \subseteq submitted'[d],
             \A v \in Client : phase'[v] = "finalize" =>
               phase[v] = "finalize" /\ held'[v] = held[v]
      PROVE  FinalizersHoldSealable'
  BY <1>0 DEF FinalizersHoldSealable, CompleteOrFailed, Stamping
<1>1. ASSUME NEW c \in Campaign, NEW l \in Label, NEW t \in DraftTables,
             CreateCampaign(c, l, t)
      PROVE  /\ TablesAreSubmitted' /\ DraftsAreUnsealed'
             /\ FinalizersHoldSealable' /\ FrozenIsAudited'
  <2>1. /\ campaigns'[c] = [label |-> l, state |-> "DRAFT",
                            updated |-> clock + 1, frozen |-> Nothing]
        /\ slots'[c] = t /\ submitted'[c] = submitted[c] \cup {t}
        /\ \A d \in Campaign \ {c} :
             /\ campaigns'[d] = campaigns[d] /\ slots'[d] = slots[d]
             /\ submitted'[d] = submitted[d]
        /\ UNCHANGED <<phase, held, audit>>
    BY <1>1 DEF CreateCampaign, CampaignTypeOK
  <2>2. FinalizersHoldSealable'
    <3>1. \A d \in Campaign : submitted[d] \subseteq submitted'[d]
      BY <2>1
    <3> QED
      BY <1>0, <2>1, <3>1
  <2>3. TablesAreSubmitted' /\ DraftsAreUnsealed'
    BY <2>1 DEF TablesAreSubmitted, DraftsAreUnsealed
  <2>4. FrozenIsAudited'
    <3>1. /\ campaigns'[c].state = "DRAFT" /\ campaigns[c] = Nothing
          /\ UNCHANGED audit
          /\ \A d \in Campaign \ {c} : campaigns'[d] = campaigns[d]
      BY <1>1, <2>1 DEF CreateCampaign
    <3> QED
      BY <3>1 DEF FrozenIsAudited
  <2> QED
    BY <2>2, <2>3, <2>4
<1>2. ASSUME NEW u \in Client, PrepareFinalize(u)
      PROVE  FinalizersHoldSealable'
  <2>1. /\ \A v \in Client \ {u} : held'[v] = held[v] /\ phase'[v] = phase[v]
        /\ UNCHANGED submitted
    BY <1>2 DEF PrepareFinalize, Leave, store, CampaignTypeOK
  <2>2. CASE phase'[u] = "finalize"
    <3>1. /\ held[u].campaign \in Campaign
          /\ slots[held[u].campaign] \in Table
          /\ slots[held[u].campaign] # Nothing
      BY <1>2, CampaignAssumption DEF PrepareFinalize, CampaignTypeOK
    <3>2. /\ ReadyToFinalize(slots[held[u].campaign])
          /\ held'[u].campaign = held[u].campaign
          /\ held'[u].projection.slots = slots[held[u].campaign]
      BY <1>2, <2>2 DEF PrepareFinalize, Leave, CampaignTypeOK
    <3>3. CompleteOrFailed(held'[u].projection.slots)
      BY <3>1, <3>2, ReadyIsSealable
    <3>4. held'[u].projection.slots \in submitted'[held'[u].campaign]
      BY <2>1, <3>1, <3>2 DEF TablesAreSubmitted
    <3> QED
      BY <2>1, <3>3, <3>4 DEF FinalizersHoldSealable, CompleteOrFailed
  <2>3. CASE phase'[u] # "finalize"
    BY <2>1, <2>3 DEF FinalizersHoldSealable, CompleteOrFailed
  <2> QED
    BY <2>2, <2>3
<1>3. ASSUME NEW u \in Client, CommitEdit(u)
      PROVE  /\ TablesAreSubmitted' /\ DraftsAreUnsealed'
             /\ FinalizersHoldSealable' /\ FrozenIsAudited'
  <2> DEFINE c == held[u].campaign
  <2>1. /\ \A v \in Client \ {u} : held'[v] = held[v] /\ phase'[v] = phase[v]
        /\ phase'[u] = "idle" /\ UNCHANGED audit
        /\ c \in Campaign /\ campaigns[c] \in Row /\ campaigns[c] # Nothing
        /\ held[u] \in Editing
    BY <1>3 DEF CommitEdit, Leave, CampaignTypeOK, WorkAt, Stamping
  <2>2. CASE UNCHANGED <<campaigns, slots, submitted>>
    BY <2>1, <2>2 DEF TablesAreSubmitted, DraftsAreUnsealed,
       FinalizersHoldSealable, FrozenIsAudited, CompleteOrFailed
  <2>3. CASE /\ campaigns' = [campaigns EXCEPT ![c].label = held[u].label,
                                              ![c].updated = held[u].now]
             /\ slots' = [slots EXCEPT ![c] = held[u].table]
             /\ submitted' = [submitted EXCEPT ![c] = @ \cup {held[u].table}]
    <3>1. /\ campaigns'[c].state = campaigns[c].state
          /\ campaigns'[c].frozen = campaigns[c].frozen
          /\ campaigns'[c] \in Row
          /\ \A d \in Campaign \ {c} :
               /\ campaigns'[d] = campaigns[d] /\ slots'[d] = slots[d]
               /\ submitted'[d] = submitted[d]
          /\ slots'[c] = held[u].table
          /\ submitted'[c] = submitted[c] \cup {held[u].table}
      BY <2>1, <2>3 DEF CampaignTypeOK, Row, Editing
    <3>2. campaigns'[c] # Nothing
      BY <3>1, CampaignAssumption
    <3>3. TablesAreSubmitted' /\ DraftsAreUnsealed'
      BY <2>1, <3>1 DEF TablesAreSubmitted, DraftsAreUnsealed
    <3>4. FinalizersHoldSealable'
      <4>1. \A d \in Campaign : submitted[d] \subseteq submitted'[d]
        BY <3>1
      <4> QED
        BY <1>0, <2>1, <4>1
    <3>5. FrozenIsAudited'
      BY <2>1, <3>1, <3>2 DEF FrozenIsAudited
    <3> QED
      BY <3>3, <3>4, <3>5
  <2> QED
    BY <1>3, <2>2, <2>3 DEF CommitEdit
<1>4. ASSUME NEW u \in Client, CommitFinalize(u)
      PROVE  /\ TablesAreSubmitted' /\ DraftsAreUnsealed'
             /\ FinalizersHoldSealable' /\ FrozenIsAudited'
  <2> DEFINE c == held[u].campaign
  <2> DEFINE p == held[u].projection
  <2>1. /\ \A v \in Client \ {u} : held'[v] = held[v] /\ phase'[v] = phase[v]
        /\ phase'[u] = "idle" /\ UNCHANGED <<slots, submitted>>
        /\ c \in Campaign /\ campaigns[c] \in Row /\ campaigns[c] # Nothing
        /\ p \in Projection /\ p # Nothing
        /\ audit' = audit \cup {<<c, p>>}
    BY <1>4, CampaignAssumption
    DEF CommitFinalize, Leave, CampaignTypeOK, WorkAt, Stamping, Finalizing
  <2>2. TablesAreSubmitted' /\ FinalizersHoldSealable'
    BY <2>1 DEF TablesAreSubmitted, FinalizersHoldSealable, CompleteOrFailed
  <2>3. CASE campaigns[c].state # "DRAFT"
    <3>1. UNCHANGED campaigns /\ campaigns[c].state = "FINALIZED"
      BY <1>4, <2>1, <2>3 DEF CommitFinalize, Row
    <3> QED
      BY <2>1, <2>2, <3>1 DEF DraftsAreUnsealed, FrozenIsAudited
  <2>4. CASE campaigns[c].state = "DRAFT"
    <3>1. /\ campaigns'[c].state = "FINALIZED" /\ campaigns'[c].frozen = p
          /\ \A d \in Campaign \ {c} : campaigns'[d] = campaigns[d]
      BY <1>4, <2>1, <2>4 DEF CommitFinalize, CampaignTypeOK, Row
    <3>2. campaigns'[c] # Nothing
      BY <1>4, <2>1, StepKeepsTypes DEF CommitFinalize, CampaignTypeOK
    <3> QED
      BY <2>1, <2>2, <3>1, <3>2 DEF DraftsAreUnsealed, FrozenIsAudited
  <2> QED
    BY <2>3, <2>4
<1>5. ASSUME UNCHANGED <<campaigns, slots, submitted, audit>>
      PROVE  TablesAreSubmitted' /\ DraftsAreUnsealed' /\ FrozenIsAudited'
  BY <1>5 DEF TablesAreSubmitted, DraftsAreUnsealed, FrozenIsAudited
<1>7. ASSUME NEW r \in Run, RunIsSaved(r)
      PROVE  /\ TablesAreSubmitted' /\ DraftsAreUnsealed'
             /\ FinalizersHoldSealable' /\ FrozenIsAudited'
  BY <1>5, <1>0, <1>7 DEF RunIsSaved, SaveAnalysisRun
<1>8. ASSUME NEW u \in Client, NEW c \in Campaign,
             NEW op \in {"view", "update", "finalize"}, ReadRow(u, c, op)
      PROVE  /\ TablesAreSubmitted' /\ DraftsAreUnsealed'
             /\ FinalizersHoldSealable' /\ FrozenIsAudited'
  BY <1>5, <1>0, <1>8 DEF ReadRow, store, CampaignTypeOK
<1>9. ASSUME NEW u \in Client, ShowCampaign(u)
      PROVE  /\ TablesAreSubmitted' /\ DraftsAreUnsealed'
             /\ FinalizersHoldSealable' /\ FrozenIsAudited'
  BY <1>5, <1>0, <1>9 DEF ShowCampaign, Leave, store, CampaignTypeOK
<1>10. ASSUME NEW u \in Client, NEW l \in Label, NEW t \in DraftTables,
              PrepareEdit(u, l, t)
       PROVE  /\ TablesAreSubmitted' /\ DraftsAreUnsealed'
              /\ FinalizersHoldSealable' /\ FrozenIsAudited'
  BY <1>5, <1>0, <1>10 DEF PrepareEdit, Leave, store, CampaignTypeOK
<1>11. CASE UNCHANGED campaignVars
  BY <1>5, <1>0, <1>11 DEF campaignVars
<1> QED
  BY <1>1, <1>2, <1>3, <1>4, <1>5, <1>7, <1>8, <1>9, <1>10, <1>11
  DEF CampaignNext, PrepareFinalize, store

(* A campaign is finalized exactly when CAMPAIGN_FINALIZED was audited for *)
(* it, and the frozen projection is one of those audited, for every number *)
(* of clients finalizing at once (finalize_campaign).                      *)
THEOREM FrozenMatchesAudit == CampaignSpec => []FrozenIsAudited
<1>1. ReviewInv => FrozenIsAudited
  BY DEF ReviewInv
<1> QED
  BY <1>1, InitReview, StepKeepsReview, PTL DEF CampaignSpec

(* The table that is frozen for a campaign changes only with its row.      *)
LEMMA SealMoves ==
  ASSUME NEW c \in Campaign, campaigns \in [Campaign -> Row \cup {Nothing}],
         \A d \in Campaign \ {c} : campaigns'[d] = campaigns[d]
  PROVE  [d \in Campaign |-> FrozenTable(d)]' =
           [[d \in Campaign |-> FrozenTable(d)] EXCEPT ![c] = FrozenTable(c)']
BY DEF FrozenTable

(* Every step of the store is a step of CampaignReview or changes nothing  *)
(* that CampaignReview sees.                                               *)
LEMMA StepRefines ==
  ReviewInv /\ ReviewInv' /\ [CampaignNext]_campaignVars => [Review!Next]_(Review!vars)
<1> SUFFICES ASSUME ReviewInv, ReviewInv', [CampaignNext]_campaignVars
             PROVE  [Review!Next]_(Review!vars)
  OBVIOUS
<1> USE TokenTypes DEF ReviewInv
<1>1. ASSUME UNCHANGED <<campaigns, slots, submitted>>
      PROVE  UNCHANGED Review!vars
  BY <1>1 DEF Review!vars, FrozenTable
<1>2. ASSUME NEW c \in Campaign, NEW l \in Label, NEW t \in DraftTables,
             CreateCampaign(c, l, t)
      PROVE  Review!Next
  <2>1. t \in Table /\ slots[c] = Nothing
    BY <1>2, CampaignAssumption DEF CreateCampaign, CampaignTypeOK
  <2>2. /\ campaigns'[c] = [label |-> l, state |-> "DRAFT",
                            updated |-> clock + 1, frozen |-> Nothing]
        /\ \A d \in Campaign \ {c} : campaigns'[d] = campaigns[d]
        /\ campaigns[c] = Nothing
    BY <1>2 DEF CreateCampaign, CampaignTypeOK
  <2>3. [d \in Campaign |-> FrozenTable(d)]' = [d \in Campaign |-> FrozenTable(d)]
    BY <2>2 DEF FrozenTable
  <2>4. Review!Open(c)
    BY <1>2, <2>1, <2>3 DEF CreateCampaign, Review!Open, Review!Put
  <2> QED
    BY <2>1, <2>4 DEF Review!Next
<1>3. ASSUME NEW u \in Client, CommitEdit(u)
      PROVE  Review!Next \/ UNCHANGED Review!vars
  <2> DEFINE c == held[u].campaign
  <2> DEFINE t == held[u].table
  <2>1. c \in Campaign /\ campaigns[c] \in Row /\ campaigns[c] # Nothing /\ t \in Table
    BY <1>3 DEF CommitEdit, CampaignTypeOK, WorkAt, Editing
  <2>2. CASE UNCHANGED <<campaigns, slots, submitted>>
    BY <1>1, <2>2
  <2>3. CASE /\ StillDraftAsExpected(held[u])
             /\ campaigns' = [campaigns EXCEPT ![c].label = held[u].label,
                                              ![c].updated = held[u].now]
             /\ slots' = [slots EXCEPT ![c] = t]
             /\ submitted' = [submitted EXCEPT ![c] = @ \cup {t}]
    <3>1. campaigns[c].state = "DRAFT" /\ campaigns[c].frozen = Nothing
      BY <2>1, <2>3 DEF StillDraftAsExpected, DraftsAreUnsealed
    <3>2. /\ campaigns'[c].frozen = Nothing
          /\ \A d \in Campaign \ {c} : campaigns'[d] = campaigns[d]
      BY <2>1, <2>3, <3>1 DEF CampaignTypeOK, Row
    <3>3. [d \in Campaign |-> FrozenTable(d)]' = [d \in Campaign |-> FrozenTable(d)]
      BY <3>1, <3>2 DEF FrozenTable
    <3>4. slots[c] # Nothing /\ FrozenTable(c) = Nothing
      BY <2>1, <3>1 DEF FrozenTable, CampaignTypeOK
    <3>5. Review!Revise(c)
      BY <2>1, <2>3, <3>3, <3>4 DEF Review!Revise, Review!Put
    <3> QED
      BY <2>1, <3>5 DEF Review!Next
  <2> QED
    BY <1>3, <2>2, <2>3 DEF CommitEdit
<1>4. ASSUME NEW u \in Client, CommitFinalize(u)
      PROVE  Review!Next \/ UNCHANGED Review!vars
  <2>0. PICK c \in Campaign, p \in Projection :
          c = held[u].campaign /\ p = held[u].projection
    BY <1>4 DEF CommitFinalize, CampaignTypeOK, WorkAt, Finalizing
  <2>1. /\ c \in Campaign /\ campaigns[c] \in Row /\ campaigns[c] # Nothing
        /\ p \in Projection /\ p # Nothing /\ p.slots \in Table
        /\ p.slots \in submitted[c] /\ CompleteOrFailed(p.slots)
        /\ UNCHANGED <<slots, submitted>>
    BY <1>4, <2>0, CampaignAssumption
    DEF CommitFinalize, CampaignTypeOK, WorkAt, Finalizing, Projection, FinalizersHoldSealable
  <2>2. CASE UNCHANGED campaigns
    BY <1>1, <2>1, <2>2
  <2>3. CASE /\ campaigns[c].state = "DRAFT"
             /\ campaigns' = [campaigns EXCEPT ![c].state = "FINALIZED",
                                               ![c].updated = held[u].now,
                                               ![c].frozen = p]
    <3>1. FrozenTable(c) = Nothing
      BY <2>1, <2>3 DEF FrozenTable, DraftsAreUnsealed
    <3>2. /\ campaigns'[c].frozen = p
          /\ \A d \in Campaign \ {c} : campaigns'[d] = campaigns[d]
      BY <2>1, <2>3 DEF CampaignTypeOK, Row
    <3>3. campaigns'[c] # Nothing
      BY <1>4, <2>0, <2>1 DEF CommitFinalize, CampaignTypeOK
    <3>4. FrozenTable(c)' = p.slots
      BY <2>1, <3>2, <3>3 DEF FrozenTable
    <3>5. [d \in Campaign |-> FrozenTable(d)]' =
            [[d \in Campaign |-> FrozenTable(d)] EXCEPT ![c] = p.slots]
      BY <3>2, <3>4, SealMoves DEF CampaignTypeOK
    <3>6. Review!Seal(c)
      BY <2>1, <3>1, <3>5 DEF Review!Seal
    <3> QED
      BY <2>1, <3>6 DEF Review!Next
  <2> QED
    BY <1>4, <2>0, <2>2, <2>3 DEF CommitFinalize
<1> QED
  BY <1>1, <1>2, <1>3, <1>4
  DEF CampaignNext, RunIsSaved, SaveAnalysisRun, ReadRow, ShowCampaign, PrepareEdit,
      PrepareFinalize, store, campaignVars

(* The store, with its two-snapshot reads and racing clients, implements   *)
(* CampaignReview: whole tables replace each other atomically, a campaign  *)
(* is sealed at most once, with a submitted table that is complete or      *)
(* failed, and nothing changes afterwards.                                 *)
THEOREM StoreImplementsReview == CampaignSpec => ImplementsReview
<1>1. CampaignInit => Review!Init
  BY DEF CampaignInit, Review!Init, FrozenTable
<1>2. CampaignSpec => []ReviewInv
  BY InitReview, StepKeepsReview, PTL DEF CampaignSpec
<1> QED
  BY <1>1, <1>2, StepRefines, PTL DEF CampaignSpec, ImplementsReview, Review!Spec

=============================================================================
