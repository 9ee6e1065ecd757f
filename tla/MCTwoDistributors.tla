-------------------------- MODULE MCTwoDistributors --------------------------
(***************************************************************************)
(* Two distributors of one mint, with a tree each, that share a claimant.  *)
(***************************************************************************)
EXTENDS Distributor, TLC

CONSTANTS
  alice, drop1, drop2, vault1, vault2, aliceAta, mint, tree1, tree2

TwoDistributors == {drop1, drop2}
TwoTokenAccounts == {vault1, vault2, aliceAta}
TwoVaultOf == drop1 :> vault1 @@ drop2 :> vault2
TwoOwnerOf == vault1 :> drop1 @@ vault2 :> drop2 @@ aliceAta :> alice
TwoMintOf == [a \in TwoTokenAccounts |-> mint]
TwoInitialBalance == vault1 :> 0 @@ vault2 :> 0 @@ aliceAta :> 5
TwoRoots == {tree1, tree2}
TwoProvable ==
  tree1 :> {[claimant |-> alice, unlocked |-> 1, locked |-> 1]}
    @@ tree2 :> {[claimant |-> alice, unlocked |-> 2, locked |-> 0]}
TwoArgs ==
  {[root |-> r, max_total_claim |-> 3, max_num_nodes |-> 1,
    start_ts |-> 1, end_ts |-> 3, clawback_start_ts |-> 4] : r \in TwoRoots}
=============================================================================
