------------------------------ MODULE TestTree ------------------------------
(***************************************************************************)
(* The tree the tests build (tests/merkle-tree.ts), beside the one of      *)
(* MerkleTree over the same entries, whose paths are looked for.  It keeps *)
(* a layer of hashes per level and carries an unpaired hash up as it is,   *)
(* where MerkleTree::new pairs it with itself; leaves and pairs are hashed *)
(* alike.                                                                  *)
(***************************************************************************)
EXTENDS MerklePath

VARIABLE layers   \* the layers pushed so far, the leaves' first

test_vars == <<all_vars, layers>>

\* Mutant: an unpaired hash is paired with itself.
InternalHashDuplicating(hashes, idx) ==
  SortedHash(hashes[idx + 1], IF idx + 1 < Len(hashes) THEN hashes[idx + 2] ELSE hashes[idx + 1])

InternalHash(hashes, idx) ==
  IF idx + 1 < Len(hashes)
  THEN SortedHash(hashes[idx + 1], hashes[idx + 2])
  ELSE hashes[idx + 1]

TestInit ==
  /\ PathInit
  /\ layers = IF LeafCount = 0 \/ ~sorted_hashes THEN <<>> ELSE <<nodes>>

(* One turn of the constructor's loop, once MerkleTree::new is done. *)
PushLayer ==
  LET hashes == Last(layers)
  IN  /\ Built
      /\ layers # <<>>
      /\ Len(hashes) > 1
      /\ layers' = Append(layers, [n \in 1 .. (Len(hashes) + 1) \div 2 |->
                                     InternalHash(hashes, 2 * (n - 1))])
      /\ UNCHANGED all_vars

TestNext ==
  \/ PathNext /\ UNCHANGED layers
  \/ PushLayer

TestSpec == TestInit /\ [][TestNext]_test_vars

TestBuilt == Built /\ layers # <<>> /\ Len(Last(layers)) = 1
TestRoot == Last(layers)[1]

-----------------------------------------------------------------------------
\* Mutant: the sibling is always looked for on the right.
SiblingToTheRight(idx) == idx + 1

Sibling(idx) == IF idx % 2 = 0 THEN idx + 1 ELSE idx - 1

(* getProof: a layer on which the hash has no sibling adds nothing. *)
TestProof(index) ==
  LET At[level \in DOMAIN layers] == IF level = 1 THEN index ELSE At[level - 1] \div 2
      Element(level) ==
        IF Sibling(At[level]) < Len(layers[level])
        THEN <<layers[level][Sibling(At[level]) + 1]>> ELSE <<>>
  IN  FlattenSeq([level \in DOMAIN layers |-> Element(level)])

-----------------------------------------------------------------------------
(* The proofs of the test tree pass verify under the test tree's root, of   *)
(* any width: the on-chain loop does not ask how long a proof is.           *)
TestProofsVerify ==
  TestBuilt =>
    \A index \in 0 .. LeafCount - 1 :
      FoldLeft(FoldHash, LeafHash(items[index + 1]), TestProof(index)) = TestRoot

TwoTo[level \in Nat] == IF level = 0 THEN 1 ELSE 2 * TwoTo[level - 1]

(* The two trees of the same entries have one root exactly when no level    *)
(* has an unpaired hash, that is for widths that are powers of two; a proof *)
(* of one of them is worth nothing under the root of the other otherwise.   *)
RootsAgreeWhenPaired ==
  TestBuilt => (TestRoot = Root <=> \E level \in 0 .. LeafCount : LeafCount = TwoTo[level])
=============================================================================
