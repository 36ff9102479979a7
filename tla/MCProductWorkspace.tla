------------------------- MODULE MCProductWorkspace -------------------------
(***************************************************************************)
(* Small instance of ProductWorkspace: two clients; an advisory run, one   *)
(* that fails and a sample; two environments, with a slot for each in the  *)
(* campaigns.  x1 and x2 are ids drawn from uuid4: of campaigns, baselines *)
(* (with a third), scenarios and load runs.                                *)
(***************************************************************************)
EXTENDS ProductWorkspace, TLC

CONSTANTS u1, u2, advisory, fail, sample, x1, x2, b3, w1, w2, z, d1, e1

MCRunInfo ==
  [r \in {advisory, fail, sample} |->
     [decision |-> CASE r = advisory -> "ADVISORY" [] r = fail -> "FAIL" [] OTHER -> "PASS",
      env |-> "prod",
      sample |-> r = sample,
      policy |-> "p",
      base |-> NoBase]]

MCSlotKey == {<<"prod", "api">>, <<"stage", "api">>}

One(r) == (<<"prod", "api">> :> r)
Both(r, s) == (<<"prod", "api">> :> r) @@ (<<"stage", "api">> :> s)

MCDraftTables == {One(advisory), Both(sample, NoRun), Both(fail, NoRun)}

MCDemands == {z :> 1, z :> 2}

Symmetry == Permutations(Client) \cup Permutations({x1, x2})
=============================================================================
