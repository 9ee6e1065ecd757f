---------------------------- MODULE MCDistributor ----------------------------
(***************************************************************************)
(* One airdrop: two claimants, one of them also its admin, a vault, a      *)
(* second account the distributor owns, and an account of another mint.    *)
(***************************************************************************)
EXTENDS DistributorEscrow, TLC

CONSTANTS
  alice, bob,                          \* wallets
  drop,                                \* the distributor
  vault, side, aliceAta, bobAta,       \* token accounts of the mint
  otherAta,                            \* a token account of another mint
  mint, otherMint,
  tree, otherTree

MCWallets == {alice, bob}
MCDistributors == {drop}
MCTokenAccounts == {vault, side, aliceAta, bobAta, otherAta}
MCVaultOf == drop :> vault
MCOwnerOf ==
  vault :> drop @@ side :> drop @@ aliceAta :> alice @@ bobAta :> bob @@ otherAta :> alice
MCMintOf == [a \in MCTokenAccounts |-> IF a = otherAta THEN otherMint ELSE mint]
Supply == 5
MCInitialBalance == [a \in MCTokenAccounts |-> IF a = aliceAta THEN Supply ELSE 0]
MCRoots == {tree, otherTree}

LeafOf(k, u, l) == [claimant |-> k, unlocked |-> u, locked |-> l]

(* The tree has two entries for alice, of equal amounts, so that it does not*)
(* matter which one claim_locked takes for the locked one (LayoutsAgree).   *)
MCProvable ==
  tree :> {LeafOf(alice, 2, 2), LeafOf(alice, 1, 1), LeafOf(bob, 1, 2)}
    @@ otherTree :> {LeafOf(bob, 2, 1)}

(* An entry for alice that locks nothing. *)
UnevenProvable ==
  tree :> {LeafOf(alice, 2, 0), LeafOf(bob, 1, 2)} @@ otherTree :> {LeafOf(bob, 2, 1)}

Args(cap, nodes, start, end, clawback) ==
  [root |-> tree, max_total_claim |-> cap, max_num_nodes |-> nodes,
   start_ts |-> start, end_ts |-> end, clawback_start_ts |-> clawback]

(* Roomy and tight caps; a schedule that is refused for its short delay and *)
(* one whose delay overflows an i64.                                        *)
MCArgs ==
  {Args(U64Max, 2, 1, 3, 5), Args(3, 2, 1, 3, 5), Args(U64Max, 1, 2, 3, 5),
   Args(U64Max, 2, 1, 3, 4), Args(U64Max, 2, 1, I64Max - 1, I64Max)}

(* The set-up the tools prepare: one leaf per claimant and caps computed    *)
(* from the tree.                                                           *)
HonestProvable ==
  tree :> {LeafOf(alice, 1, 1), LeafOf(bob, 2, 1)} @@ otherTree :> {LeafOf(bob, 2, 1)}
HonestArgs == {Args(5, 2, 1, 3, 5)}
=============================================================================
