------------------------------ MODULE MerklePath ------------------------------
(***************************************************************************)
(* find_path as the loop it is in the code, one level of the tree per step,*)
(* with get_proof, which keeps the sibling of each entry pushed, and with  *)
(* the on-chain loop of verify, which hashes each element of the proof     *)
(* when it comes to it: a claimant's proof from its leaf to the root.      *)
(***************************************************************************)
EXTENDS MerkleTree

VARIABLES
  leaf_index,    \* the claimant whose path is looked for, or NoItem
  find_len, find_start, node_index,  \* level_len, level_start, node_index
  sib,           \* lsib or rsib, the one that is some
  proof,         \* the siblings of the entries pushed so far
  climb_hash     \* what verify computes from them

path_vars == <<leaf_index, find_len, find_start, node_index, sib, proof, climb_hash>>
all_vars == <<vars, path_vars>>

PathInit ==
  /\ Init
  /\ leaf_index = NoItem
  /\ find_len = 0
  /\ find_start = 0
  /\ node_index = 0
  /\ sib = NoHash
  /\ proof = <<>>
  /\ climb_hash = NoHash

-----------------------------------------------------------------------------
StartFindPath(index) ==
  /\ HasRoot /\ sorted_hashes
  /\ leaf_index = NoItem
  /\ leaf_index' = index
  /\ find_len' = LeafCount
  /\ find_start' = 0
  /\ node_index' = index
  /\ sib' = NoHash
  /\ proof' = <<>>
  /\ climb_hash' = LeafHash(items[index + 1])
  /\ UNCHANGED vars

\* Mutant: the last node of a level of odd length has no sibling.
SiblingSkipped(len, start, index) ==
  IF index % 2 = 1 THEN Node(start + index - 1)
  ELSE IF index + 1 < len THEN Node(start + index + 1) ELSE NoHash

SiblingOf(len, start, index) ==
  IF index % 2 = 1 THEN Node(start + index - 1)
  ELSE IF index + 1 < len THEN Node(start + index + 1) ELSE Node(start + index)

(* One turn of the loop: the entry with the sibling found on the level      *)
(* below is pushed, then the sibling on this level is looked up.            *)
FindPathLevel ==
  /\ leaf_index # NoItem
  /\ find_len > 0
  /\ IF sib = NoHash
     THEN UNCHANGED <<proof, climb_hash>>
     ELSE /\ proof' = Append(proof, sib)
          /\ climb_hash' = FoldHash(climb_hash, sib)
  /\ sib' = SiblingOf(find_len, find_start, node_index)
  /\ node_index' = node_index \div 2
  /\ find_start' = find_start + find_len
  /\ find_len' = NextLevelLen(find_len)
  /\ UNCHANGED <<vars, leaf_index>>

PathNext ==
  \/ (PushParent \/ NextLevel) /\ UNCHANGED path_vars
  \/ \E index \in 0 .. LeafCount - 1 : StartFindPath(index)
  \/ FindPathLevel

PathSpec == PathInit /\ [][PathNext]_all_vars

PathFound == leaf_index # NoItem /\ find_len = 0

-----------------------------------------------------------------------------
(* The proof handed to any claimant leads verify from its leaf to the root, *)
(* whatever the width of the tree and of its levels.                        *)
ClimbReachesRoot == PathFound => climb_hash = Root

(* The proof handed to a claimant verifies the claimant's entry and no      *)
(* other: although hashing in byte order forgets which sibling was the left *)
(* one, it serves neither the neighbour nor other amounts, and no one else  *)
(* where an unpaired node is its own sibling.                               *)
ProofServesOneEntry ==
  PathFound =>
    \A item \in Items :
      Verifies(LeafHash(item), proof) <=> item = items[leaf_index + 1]
=============================================================================
