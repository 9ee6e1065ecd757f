----------------------------- MODULE MCTreeShape -----------------------------
(* Trees of every width, the paths of their claimants, and the tests' trees.  *)
EXTENDS TestTree, MCMerkleTree
=============================================================================
