------------------------------ MODULE MerkleTree ------------------------------
(***************************************************************************)
(* The merkle tree of an airdrop (merkle-tree/src/merkle_tree.rs), built   *)
(* hash by hash into one vector as MerkleTree::new does, the paths that    *)
(* find_path reads out of it, and the check of a proof that new_claim      *)
(* makes with verify (verify/src/lib.rs), for proofs made of any hashes.   *)
(*                                                                         *)
(* A hash is the term that was hashed: two are equal when their preimages  *)
(* are.  The prefixes 0 and 1 are the tags "leaf" and "intermediate".      *)
(* Hashing two siblings in byte order forgets which of them was the left   *)
(* one, so that the preimage is the set of the two.                        *)
(***************************************************************************)
EXTENDS Naturals, Sequences, SequencesExt

CONSTANTS
  Items,          \* the entries a claim may be made for
  Inputs,         \* the sequences of entries trees are built from
  ForeignHashes,  \* elements of a proof that are not hashes of the tree
  MaxProofLen,    \* bound on the length of a proof
  NoItem          \* no claim is being checked

ASSUME InputAssumption ==
  /\ \A item \in Items : item = [claimant |-> item.claimant,
                                 unlocked |-> item.unlocked,
                                 locked   |-> item.locked]
  /\ Inputs \subseteq Seq(Items)
  /\ MaxProofLen \in Nat
  /\ NoItem \notin Items

VARIABLES
  items,             \* the entries of the tree
  sorted_hashes,     \* TRUE for airdrops, FALSE for the tree's own proofs
  nodes,             \* the hashes of all levels, one level after the other
  level_len, level_start, prev_level_len, prev_level_start,
  candidate,         \* the entry a claim is checked for
  computed_hash,     \* what verify has computed from it
  proof_len          \* the elements of the proof it has used

tree_vars == <<items, sorted_hashes, nodes,
               level_len, level_start, prev_level_len, prev_level_start>>
verify_vars == <<candidate, computed_hash, proof_len>>
vars == <<tree_vars, verify_vars>>

-----------------------------------------------------------------------------
\* Mutant: the locked amount is not hashed.
LeafHashWithoutLocked(item) == <<"leaf", <<item.claimant, item.unlocked>>>>

LeafHash(item) == <<"leaf", <<item.claimant, item.unlocked, item.locked>>>>

SortedHash(a, b) == <<"intermediate", {a, b}>>
OrderedHash(l, r) == <<"ordered", <<l, r>>>>
ParentHash(l, r) == IF sorted_hashes THEN SortedHash(l, r) ELSE OrderedHash(l, r)

\* Mutant: an unpaired node gets no parent.
NextLevelLenRoundedDown(len) == IF len = 1 THEN 0 ELSE len \div 2

NextLevelLen(len) == IF len = 1 THEN 0 ELSE (len + 1) \div 2

Node(index) == nodes[index + 1]
LeafCount == Len(items)
Built == level_len = 0
HasRoot == Built /\ nodes # <<>>
Root == nodes[Len(nodes)]

-----------------------------------------------------------------------------
(* MerkleTree::new *)

Init ==
  /\ items \in Inputs
  /\ sorted_hashes \in BOOLEAN
  /\ nodes = [k \in 1 .. LeafCount |-> LeafHash(items[k])]
  /\ level_len = NextLevelLen(LeafCount)
  /\ level_start = LeafCount
  /\ prev_level_len = LeafCount
  /\ prev_level_start = 0
  /\ candidate = NoItem
  /\ computed_hash = <<>>
  /\ proof_len = 0

(* The i of the inner loop: the hashes pushed on this level. *)
Pushed == Len(nodes) - level_start

\* Mutant: the right sibling is looked for beyond the end of the level.
RightSiblingBeyondLevel(index) ==
  IF index + 1 <= prev_level_len
  THEN Node(prev_level_start + index + 1)
  ELSE Node(prev_level_start + index)

(* The last node of a level of odd length is its own right sibling. *)
RightSibling(index) ==
  IF index + 1 < prev_level_len
  THEN Node(prev_level_start + index + 1)
  ELSE Node(prev_level_start + index)

PushParent ==
  LET prev_level_idx == 2 * Pushed
  IN  /\ Pushed < level_len
      /\ nodes' = Append(nodes, ParentHash(Node(prev_level_start + prev_level_idx),
                                           RightSibling(prev_level_idx)))
      /\ UNCHANGED <<items, sorted_hashes, level_len, level_start,
                     prev_level_len, prev_level_start, verify_vars>>

NextLevel ==
  /\ level_len > 0
  /\ Pushed = level_len
  /\ prev_level_start' = level_start
  /\ prev_level_len' = level_len
  /\ level_start' = level_start + level_len
  /\ level_len' = NextLevelLen(level_len)
  /\ UNCHANGED <<items, sorted_hashes, nodes, verify_vars>>

-----------------------------------------------------------------------------
(* find_path: from a leaf upwards, the sibling on each level below the      *)
(* root's and the node the two hash to.                                     *)

NoHash == <<>>

\* Mutant: off by one at the end of the level.
ProofEntryBeyondLevel(len, start, index) ==
  [target |-> Node(start + len + (index \div 2)),
   lsib   |-> IF index % 2 = 0 THEN NoHash ELSE Node(start + index - 1),
   rsib   |-> IF index % 2 = 1 THEN NoHash ELSE Node(start + index + 1)]

ProofEntry(len, start, index) ==
  [target |-> Node(start + len + (index \div 2)),
   lsib   |-> IF index % 2 = 0 THEN NoHash ELSE Node(start + index - 1),
   rsib   |-> IF index % 2 = 1 THEN NoHash
              ELSE IF index + 1 < len THEN Node(start + index + 1)
              ELSE Node(start + index)]

FindPath(index) ==
  LET path[len \in Nat] ==
        [start \in Nat |-> [node_index \in Nat |->
           IF len <= 1 THEN <<>>
           ELSE <<ProofEntry(len, start, node_index)>>
                  \o path[NextLevelLen(len)][start + len][node_index \div 2]]]
  IN  path[LeafCount][0][index]

GetProof(index) ==
  LET path == FindPath(index)
  IN  [k \in DOMAIN path |-> IF path[k].lsib # NoHash THEN path[k].lsib ELSE path[k].rsib]

(* Proof::verify, which hashes siblings in their order in the tree. *)
FollowEntry(hash, entry) ==
  LET lsib == IF entry.lsib = NoHash THEN hash ELSE entry.lsib
      rsib == IF entry.rsib = NoHash THEN hash ELSE entry.rsib
  IN  IF hash # NoHash /\ OrderedHash(lsib, rsib) = entry.target
      THEN entry.target ELSE NoHash

PathVerifies(hash, path) == FoldLeft(FollowEntry, hash, path) # NoHash

-----------------------------------------------------------------------------
(* verify, as new_claim calls it with the claimed entry and any proof. *)

FoldHash(hash, proof_element) == SortedHash(hash, proof_element)

StartVerify(item) ==
  /\ HasRoot /\ sorted_hashes
  /\ candidate = NoItem
  /\ candidate' = item
  /\ computed_hash' = LeafHash(item)
  /\ UNCHANGED <<tree_vars, proof_len>>

FoldProofElement(proof_element) ==
  /\ candidate # NoItem
  /\ proof_len < MaxProofLen
  /\ computed_hash' = FoldHash(computed_hash, proof_element)
  /\ proof_len' = proof_len + 1
  /\ UNCHANGED <<tree_vars, candidate>>

Verified == candidate # NoItem /\ computed_hash = Root

Verifies(hash, proof) == FoldLeft(FoldHash, hash, proof) = Root

-----------------------------------------------------------------------------
Next ==
  \/ PushParent
  \/ NextLevel
  \/ \E item \in Items : StartVerify(item)
  \/ \E proof_element \in Range(nodes) \cup ForeignHashes : FoldProofElement(proof_element)

Spec == Init /\ [][Next]_vars

-----------------------------------------------------------------------------
(* While the tree is built, its levels lie one after the other in nodes,   *)
(* each has a parent for every node of the one before, its last one as well *)
(* when it has no pair, and the children of the next parent are there: no   *)
(* index of MerkleTree::new leaves the vector or the level.                 *)
LevelsInPlace ==
  /\ {level_len, level_start, prev_level_len, prev_level_start} \subseteq Nat
  /\ prev_level_start + prev_level_len = level_start
  /\ level_start <= Len(nodes)
  /\ Len(nodes) <= level_start + level_len
  /\ IF level_len = 0 THEN prev_level_len <= 1
     ELSE prev_level_len \in {2 * level_len - 1, 2 * level_len}

(* Every leaf of a finished tree verifies on chain with the proof the tools *)
(* hand to its claimant, whatever the widths of the levels.                 *)
ProofsComplete ==
  HasRoot /\ sorted_hashes =>
    \A index \in 0 .. LeafCount - 1 :
      Verifies(LeafHash(items[index + 1]), GetProof(index))

(* In a tree of ordered hashes with more than one leaf, a path accepts the  *)
(* leaf it was found for and no other (tests test_path_verify_good and      *)
(* test_path_verify_bad).                                                   *)
PathsExact ==
  Built /\ ~sorted_hashes /\ LeafCount > 1 =>
    \A index \in 0 .. LeafCount - 1, item \in Items :
      PathVerifies(LeafHash(item), FindPath(index)) <=> item = items[index + 1]

(* verify accepts only entries of the tree, amounts included, whatever the  *)
(* elements and the length of the proof.                                    *)
ProofsSound == Verified => candidate \in Range(items)
=============================================================================
