---------------------------- MODULE MCMerkleTree ----------------------------
(***************************************************************************)
(* Trees over the first entries of a list, of every width, and lists with  *)
(* an entry twice.                                                         *)
(***************************************************************************)
EXTENDS MerkleTree, TLC

CONSTANTS Widths, Outsiders

Entry(k, l) == [claimant |-> k, unlocked |-> 1, locked |-> l]

MCInputs ==
  {[k \in 1 .. n |-> Entry(k, 1)] : n \in Widths}
    \cup {<<Entry(1, 1), Entry(1, 1)>>, <<Entry(1, 1), Entry(2, 1), Entry(2, 1)>>}

(* Also an entry no tree has and one whose claimant asks for a larger       *)
(* locked amount.                                                           *)
MCItems ==
  {Entry(k, 1) : k \in 1 .. Max(Widths)} \cup {Entry(0, 1), Entry(1, 2)}

MCForeignHashes ==
  {LeafHash(Entry(k, 1)) : k \in Outsiders}
    \cup {SortedHash(LeafHash(Entry(k, 1)), LeafHash(Entry(1, 1))) : k \in Outsiders}
=============================================================================
