-------------------------- MODULE ProductWorkspace --------------------------
(***************************************************************************)
(* PerformanceWorkspace: the campaigns (ReleaseCampaign) and the rest of   *)
(* the store (WorkspaceStore) on one table of analysis runs, which only    *)
(* grows.  A call of one uses no other table of the other, so a behaviour  *)
(* has the calls of one or the other.                                      *)
(***************************************************************************)
EXTENDS ReleaseCampaign, WorkspaceStore

VARIABLE topic  \* "campaigns" or "store"

campaignTables == <<campaigns, slots, audit, clock, phase, held, shown, submitted>>
storeTables == <<baselines, keyed, capacity, prices, pc, work, calls>>

WorkspaceInit ==
  /\ topic \in {"campaigns", "store"}
  /\ CampaignInit
  /\ Init

WorkspaceNext ==
  \/ topic = "campaigns" /\ CampaignNext /\ UNCHANGED <<topic, storeTables>>
  \/ topic = "store" /\ Next /\ UNCHANGED <<topic, campaignTables>>

WorkspaceSpec == WorkspaceInit /\ [][WorkspaceNext]_<<topic, saved, campaignTables, storeTables>>

=============================================================================
