--------------------------- MODULE MerklePathProofs ---------------------------
(***************************************************************************)
(* Proofs about MerklePath: every claimant of every tree of sorted hashes  *)
(* is led from its leaf to the root by the proof the tools hand out, and    *)
(* nobody else is.                                                         *)
(*                                                                         *)
(* find_path walks from one level of the tree to the next.  What it has     *)
(* pushed, the sibling it holds and the path that is left are together the  *)
(* whole proof on every turn.                                              *)
(***************************************************************************)
EXTENDS MerklePath, MerkleTreeProofs

(* What verify has computed when it comes to the level. *)
Climbed == IF sib = NoHash THEN climb_hash ELSE FoldHash(climb_hash, sib)

(* The siblings that are still to be pushed. *)
ToPush ==
  LET above == ProofOf(PathRec[find_len][find_start][node_index])
  IN  IF sib = NoHash THEN above ELSE <<sib>> \o above

(* The proof so far is the beginning of the claimant's, and climb_hash what *)
(* verify has computed when it has used it.                                 *)
ProofSoFar ==
  /\ leaf_index \in 0 .. LeafCount - 1
  /\ IsVector(proof)
  /\ climb_hash = FoldLeft(FoldHash, LeafHash(items[leaf_index + 1]), proof)
  /\ GetProof(leaf_index) = IF find_len = 0 THEN proof ELSE proof \o ToPush

OnPath(L) ==
  leaf_index # NoItem =>
    /\ HasRoot /\ sorted_hashes
    /\ LeafCount > 0
    /\ find_len \in Nat
    /\ IF find_len = 0 THEN climb_hash = Root
       ELSE /\ find_start \in Nat
            /\ <<find_start, find_len>> \in L
            /\ node_index \in 0 .. find_len - 1
            /\ Climbed = Node(find_start + node_index)
    /\ ProofSoFar

PathInv == BuildInv /\ \E L : AreLevels(L) /\ OnPath(L)

-----------------------------------------------------------------------------
(* Vectors put together *)

LEMMA ConcatEmpty ==
  ASSUME NEW s, IsVector(s)
  PROVE  s \o <<>> = s
<1>1. /\ IsVector(s \o <<>>) /\ Len(s) \in Nat
      /\ Len(s \o <<>>) = Len(s)
      /\ \A k \in 1 .. Len(s) : (s \o <<>>)[k] = s[k]
  BY EmptyVector, VectorConcat
<1> QED
  BY <1>1, VectorsEqual

LEMMA EmptyConcat ==
  ASSUME NEW s, IsVector(s)
  PROVE  <<>> \o s = s
<1>1. /\ IsVector(<<>> \o s) /\ Len(s) \in Nat
      /\ Len(<<>> \o s) = Len(s)
      /\ \A k \in 1 .. Len(s) : (<<>> \o s)[k] = s[k]
  BY EmptyVector, VectorConcat
<1> QED
  BY <1>1, VectorsEqual

LEMMA AppendConcat ==
  ASSUME NEW s, IsVector(s), NEW e, NEW t, IsVector(t)
  PROVE  Append(s, e) \o t = s \o (<<e>> \o t)
<1> DEFINE l == Append(s, e) \o t
           c == <<e>> \o t
           r == s \o c
<1>1. /\ IsVector(Append(s, e)) /\ Len(s) \in Nat /\ Len(Append(s, e)) = Len(s) + 1
      /\ \A k \in 1 .. Len(s) : Append(s, e)[k] = s[k]
      /\ Append(s, e)[Len(s) + 1] = e
  BY VectorAppend
<1>2. /\ IsVector(c) /\ Len(t) \in Nat /\ Len(c) = Len(t) + 1
      /\ c[1] = e
      /\ \A k \in 1 .. Len(t) : c[k + 1] = t[k]
  BY VectorCons
<1>3. /\ IsVector(l) /\ Len(l) = Len(s) + 1 + Len(t)
      /\ \A k \in 1 .. Len(s) + 1 + Len(t) :
           l[k] = IF k <= Len(s) + 1 THEN Append(s, e)[k] ELSE t[k - (Len(s) + 1)]
  <2> DEFINE a == Append(s, e)
  <2>1. IsVector(a) /\ Len(a) = Len(s) + 1
    BY <1>1
  <2> HIDE DEF a
  <2>2. /\ IsVector(a \o t) /\ Len(a \o t) = Len(a) + Len(t)
        /\ \A k \in 1 .. Len(a) + Len(t) :
             (a \o t)[k] = IF k <= Len(a) THEN a[k] ELSE t[k - Len(a)]
    BY <2>1, VectorConcat
  <2> QED
    BY <2>1, <2>2 DEF a
<1> HIDE DEF c, l
<1>4. /\ IsVector(r) /\ Len(r) = Len(s) + (Len(t) + 1)
      /\ \A k \in 1 .. Len(s) + (Len(t) + 1) :
           r[k] = IF k <= Len(s) THEN s[k] ELSE c[k - Len(s)]
  <2>1. IsVector(c) /\ Len(c) = Len(t) + 1
    BY <1>2
  <2>2. /\ IsVector(s \o c) /\ Len(s \o c) = Len(s) + Len(c)
        /\ \A k \in 1 .. Len(s) + Len(c) :
             (s \o c)[k] = IF k <= Len(s) THEN s[k] ELSE c[k - Len(s)]
    BY <2>1, VectorConcat
  <2> QED
    BY <2>1, <2>2
<1> HIDE DEF r
<1>5. ASSUME NEW k \in 1 .. Len(s) + 1 + Len(t) PROVE l[k] = r[k]
  <2>1. CASE k <= Len(s)
    BY <1>1, <1>2, <1>3, <1>4, <2>1
  <2>2. CASE k = Len(s) + 1
    BY <1>1, <1>2, <1>3, <1>4, <2>2
  <2>3. CASE k > Len(s) + 1
    <3>1. k - (Len(s) + 1) \in 1 .. Len(t) /\ (k - (Len(s) + 1)) + 1 = k - Len(s)
      BY <1>1, <1>2, <2>3
    <3>2. l[k] = t[k - (Len(s) + 1)]
      BY <1>1, <1>3, <2>3
    <3>3. r[k] = c[k - Len(s)]
      BY <1>1, <1>2, <1>4, <2>3
    <3> QED
      BY <1>2, <3>1, <3>2, <3>3
  <2> QED
    BY <1>1, <1>2, <2>1, <2>2, <2>3
<1>6. Len(l) = Len(s) + 1 + Len(t) /\ Len(r) = Len(l)
  BY <1>1, <1>2, <1>3, <1>4
<1>7. l = r
  BY <1>3, <1>4, <1>5, <1>6, VectorsEqual, Zenon
<1> QED
  BY <1>7 DEF l, r, c

-----------------------------------------------------------------------------
(* The path *)

(* The sibling looked up in a turn of the loop is the one get_proof takes   *)
(* from the entry the next turn pushes.                                     *)
LEMMA SiblingPushed ==
  ASSUME NEW len \in Nat, NEW start \in Nat, NEW index \in Nat,
         SiblingOf(len, start, index) # NoHash
  PROVE  SiblingOf(len, start, index) = SiblingIn(ProofEntry(len, start, index))
  <1>1. index % 2 = 0 \/ index % 2 = 1
    OBVIOUS
  <1> QED
    BY <1>1 DEF SiblingOf, SiblingIn, ProofEntry

(* The parent of a node is the hash of it with the sibling find_path picks, *)
(* in the level that follows.                                               *)
ParentFollows(L, start, len, index) ==
  /\ <<start + len, NextLevelLen(len)>> \in L
  /\ index \div 2 \in 0 .. NextLevelLen(len) - 1
  /\ SiblingOf(len, start, index) # NoHash
  /\ FoldHash(Node(start + index), SiblingOf(len, start, index))
       = Node(start + len + index \div 2)

(* On every level below the top, hashing a node with the sibling find_path  *)
(* picks gives the node's parent.                                           *)
LEMMA SiblingGivesParent ==
  ASSUME BuildInv, NEW L, AreLevels(L), Built, sorted_hashes,
         NEW start \in Nat, NEW len \in Nat, <<start, len>> \in L, len > 1,
         NEW index \in 0 .. len - 1
  PROVE  ParentFollows(L, start, len, index)
  <1> DEFINE entry == ProofEntry(len, start, index)
             node  == Node(start + index)
             above == Node((start + len) + index \div 2)
  <1>1. EntryIsParent(L, len, start, index)
    BY EntryHasParent
  <1>2. /\ <<start + len, NextLevelLen(len)>> \in L
        /\ index \div 2 \in 0 .. NextLevelLen(len) - 1
        /\ entry.target = above
        /\ \/ /\ entry.lsib = NoHash /\ entry.rsib # NoHash
              /\ entry.target = ParentHash(node, entry.rsib)
           \/ /\ entry.rsib = NoHash /\ entry.lsib # NoHash
              /\ entry.target = ParentHash(entry.lsib, node)
    BY <1>1, Zenon DEF EntryIsParent
  <1>3. SiblingOf(len, start, index) = SiblingIn(entry)
    <2>1. index % 2 = 0 \/ index % 2 = 1
      OBVIOUS
    <2> QED
      BY <1>2, <2>1 DEF SiblingOf, SiblingIn, ProofEntry
  <1> HIDE DEF entry, node, above
  <1>4. SiblingIn(entry) # NoHash /\ FoldHash(node, SiblingIn(entry)) = above
    BY <1>2 DEF SiblingIn, FoldHash, ParentHash, SortedHash
  <1> QED
    BY <1>2, <1>3, <1>4, Zenon DEF ParentFollows, node, above

(* The proof of a claimant and the path it is made from depend on the tree  *)
(* alone.                                                                  *)
LEMMA PathOfTree ==
  ASSUME items' = items, nodes' = nodes, NEW index, leaf_index' = index
  PROVE  PathRec' = PathRec /\ GetProof(leaf_index)' = GetProof(index)
  <1>1. PathRec' = PathRec
    BY DEF PathRec, ProofEntry, Node, NextLevelLen, NoHash
  <1>2. GetProof(leaf_index)' = GetProof(index)
    BY DEF GetProof, FindPath, ProofEntry, Node, NextLevelLen, NoHash, LeafCount
  <1> QED
    BY <1>1, <1>2

LEMMA ClimbOfProof ==
  ASSUME NEW item, items'[leaf_index' + 1] = item, NEW s, proof' = s
  PROVE  FoldLeft(FoldHash, LeafHash(items[leaf_index + 1]), proof)'
           = FoldLeft(FoldHash, LeafHash(item), s)
  OBVIOUS

LEMMA StartProofSoFar ==
  ASSUME BuildInv, NEW index \in 0 .. LeafCount - 1, StartFindPath(index)
  PROVE  ProofSoFar'
  <1>1. LeafCount \in Nat /\ LeafCount > 0
    BY LevelTypes DEF BuildInv
  <1>2. UNCHANGED <<items, nodes>>
    BY DEF StartFindPath, vars, tree_vars
  <1>3. /\ leaf_index' = index /\ find_len' = LeafCount /\ find_start' = 0
        /\ node_index' = index /\ sib' = NoHash /\ proof' = <<>>
        /\ climb_hash' = LeafHash(items[index + 1])
    BY DEF StartFindPath
  <1> DEFINE above == ProofOf(PathRec[LeafCount][0][index])
  <1>4. PathRec' = PathRec /\ GetProof(leaf_index)' = above
    BY <1>2, <1>3, PathOfTree, GetProofIs
  <1>5. ToPush' = above
    BY <1>3, <1>4 DEF ToPush, NoHash
  <1>6. IsVector(above)
    <2>1. index \in Nat /\ 0 \in Nat
      BY <1>1
    <2>2. IsVector(PathRec[LeafCount][0][index])
      BY <1>1, <2>1, PathIsVector, Zenon
    <2> QED
      BY <2>2, ProofOfVector, Zenon
  <1> HIDE DEF above
  <1>7. IsVector(proof)' /\ GetProof(leaf_index)' = (proof \o ToPush)'
    BY <1>3, <1>4, <1>5, <1>6, EmptyVector, EmptyConcat
  <1>8. climb_hash' = FoldLeft(FoldHash, LeafHash(items[index + 1]), proof')
    BY <1>3, EmptyFolds
  <1>9. climb_hash' = FoldLeft(FoldHash, LeafHash(items[leaf_index + 1]), proof)'
    BY <1>2, <1>3, <1>8, ClimbOfProof
  <1> QED
    BY <1>1, <1>2, <1>3, <1>7, <1>9 DEF ProofSoFar, LeafCount

LEMMA LevelProofSoFar ==
  ASSUME BuildInv, NEW L, AreLevels(L), OnPath(L), FindPathLevel
  PROVE  ProofSoFar'
  <1>1. /\ Built /\ sorted_hashes
        /\ find_len \in Nat /\ find_len > 0
        /\ find_start \in Nat
        /\ <<find_start, find_len>> \in L
        /\ node_index \in 0 .. find_len - 1 /\ node_index \in Nat
        /\ ProofSoFar
    BY DEF FindPathLevel, OnPath, HasRoot
  <1>2. UNCHANGED <<items, nodes, leaf_index>>
    BY DEF FindPathLevel, vars, tree_vars
  <1> DEFINE above == ProofOf(PathRec[find_len][find_start][node_index])
             base == LeafHash(items[leaf_index + 1])
  <1>3. IsVector(above)
    <2>1. IsVector(PathRec[find_len][find_start][node_index])
      BY <1>1, PathIsVector, Zenon
    <2> QED
      BY <2>1, ProofOfVector, Zenon
  <1>4. IsVector(proof) /\ climb_hash = FoldLeft(FoldHash, base, proof)
    BY <1>1 DEF ProofSoFar
  <1>5. GetProof(leaf_index) = proof \o (IF sib = NoHash THEN above ELSE <<sib>> \o above)
    BY <1>1 DEF ProofSoFar, ToPush
  <1>6. PathRec' = PathRec /\ GetProof(leaf_index)' = GetProof(leaf_index)
    BY <1>2, PathOfTree
  <1> HIDE DEF above, base
  <1>7. /\ IsVector(proof')
        /\ climb_hash' = FoldLeft(FoldHash, base, proof')
        /\ GetProof(leaf_index) = proof' \o above
    <2>1. CASE sib = NoHash
      <3>1. proof' = proof /\ climb_hash' = climb_hash
        BY <2>1 DEF FindPathLevel
      <3> QED
        BY <1>4, <1>5, <2>1, <3>1
    <2>2. CASE sib # NoHash
      <3>1. proof' = Append(proof, sib) /\ climb_hash' = FoldHash(climb_hash, sib)
        BY <2>2 DEF FindPathLevel
      <3>2. IsVector(Append(proof, sib))
        BY <1>4, VectorAppend
      <3>3. FoldHash(climb_hash, sib) = FoldLeft(FoldHash, base, Append(proof, sib))
        BY <1>4, HashFoldAppend
      <3>4. Append(proof, sib) \o above = proof \o (<<sib>> \o above)
        <4>1. \A s, e, v : IsVector(s) /\ IsVector(v) => Append(s, e) \o v = s \o (<<e>> \o v)
          BY AppendConcat
        <4> QED
          BY <1>3, <1>4, <4>1
      <3> QED
        BY <1>5, <2>2, <3>1, <3>2, <3>3, <3>4, Zenon
    <2> QED
      BY <2>1, <2>2
  <1>8. climb_hash' = FoldLeft(FoldHash, LeafHash(items[leaf_index + 1]), proof)'
    BY <1>2, <1>7, ClimbOfProof DEF base
  <1>9. GetProof(leaf_index) = IF find_len' = 0 THEN proof' ELSE proof' \o ToPush'
    <2>1. CASE find_len = 1
      <3>1. above = <<>>
        BY <1>1, <2>1, PathEnds DEF above
      <3>2. find_len' = 0
        BY <2>1 DEF FindPathLevel, NextLevelLen
      <3> QED
        BY <1>7, <3>1, <3>2, ConcatEmpty
    <2>2. CASE find_len > 1
      <3> DEFINE entry == ProofEntry(find_len, find_start, node_index)
                 rest  == PathAbove(find_len, find_start, node_index)
      <3>1. above = <<SiblingIn(entry)>> \o ProofOf(rest)
        BY <1>1, <2>2, PathSplits, Zenon DEF above
      <3>2. SiblingOf(find_len, find_start, node_index) # NoHash
        <4>1. ParentFollows(L, find_start, find_len, node_index)
          BY <1>1, <2>2, SiblingGivesParent
        <4> QED
          BY <4>1 DEF ParentFollows
      <3>3. sib' = SiblingIn(entry) /\ sib' # NoHash
        BY <1>1, <3>2, SiblingPushed DEF FindPathLevel
      <3>4. rest = PathRec'[find_len'][find_start'][node_index']
        BY <1>6 DEF PathAbove, FindPathLevel
      <3>5. find_len' # 0
        BY <1>1, <2>2, NextLevelLenHalves DEF FindPathLevel
      <3> HIDE DEF entry, rest
      <3>6. ToPush' = above
        BY <3>1, <3>3, <3>4 DEF ToPush, NoHash
      <3> QED
        BY <1>7, <3>5, <3>6
    <2> QED
      BY <1>1, <2>1, <2>2
  <1>10. leaf_index' \in 0 .. LeafCount' - 1
    BY <1>1, <1>2 DEF ProofSoFar, LeafCount
  <1> QED
    BY <1>6, <1>7, <1>8, <1>9, <1>10 DEF ProofSoFar

LEMMA UnchangedProofSoFar ==
  ASSUME ProofSoFar, UNCHANGED <<items, nodes, sorted_hashes>>, UNCHANGED path_vars
  PROVE  ProofSoFar'
  <1>1. /\ leaf_index' = leaf_index /\ find_len' = find_len /\ find_start' = find_start
        /\ node_index' = node_index /\ sib' = sib /\ proof' = proof
        /\ climb_hash' = climb_hash
    BY DEF path_vars
  <1>2. PathRec' = PathRec /\ GetProof(leaf_index)' = GetProof(leaf_index)
    BY <1>1, PathOfTree
  <1>3. ToPush' = ToPush
    BY <1>1, <1>2 DEF ToPush, NoHash
  <1>4. FoldLeft(FoldHash, LeafHash(items[leaf_index + 1]), proof)'
          = FoldLeft(FoldHash, LeafHash(items[leaf_index + 1]), proof)
    BY <1>1, ClimbOfProof
  <1>5. leaf_index' \in 0 .. LeafCount' - 1 /\ IsVector(proof')
    BY <1>1 DEF ProofSoFar, LeafCount
  <1> QED
    BY <1>1, <1>2, <1>3, <1>4, <1>5 DEF ProofSoFar

-----------------------------------------------------------------------------
LEMMA StartOnPath ==
  ASSUME BuildInv, NEW L, AreLevels(L), NEW index \in 0 .. LeafCount - 1,
         StartFindPath(index)
  PROVE  OnPath(L)'
  <1>1. TreeInv
    BY DEF BuildInv
  <1>2. LeafCount \in Nat /\ LeafCount > 0
    BY <1>1, LevelTypes
  <1>3. UNCHANGED vars
    BY DEF StartFindPath
  <1>4. UNCHANGED <<items, nodes, sorted_hashes, level_len>>
    BY <1>3 DEF vars, tree_vars
  <1>5. Climbed' = Node(0 + index)
    <2>1. index + 1 \in 1 .. LeafCount
      BY <1>2
    <2> QED
      BY <1>2, <1>4, <2>1
      DEF StartFindPath, Climbed, BuildInv, LeavesInPlace, Node
  <1> QED
    BY <1>2, <1>4, <1>5, StartProofSoFar
    DEF StartFindPath, OnPath, AreLevels, HasRoot, Built, LeafCount, Node

LEMMA LevelOnPath ==
  ASSUME BuildInv, NEW L, AreLevels(L), OnPath(L), FindPathLevel
  PROVE  OnPath(L)'
  <1>1. /\ HasRoot /\ Built /\ sorted_hashes
        /\ LeafCount > 0
        /\ find_len \in Nat /\ find_len > 0
        /\ find_start \in Nat
        /\ <<find_start, find_len>> \in L
        /\ node_index \in 0 .. find_len - 1
        /\ Climbed = Node(find_start + node_index)
    BY DEF FindPathLevel, OnPath, HasRoot
  <1>2. UNCHANGED <<items, nodes, sorted_hashes, level_len>>
    BY DEF FindPathLevel, vars, tree_vars
  <1>3. /\ HasRoot' /\ sorted_hashes'
        /\ LeafCount' = LeafCount
        /\ Root' = Root
        /\ \A k : Node(k)' = Node(k)
    BY <1>1, <1>2 DEF HasRoot, Built, LeafCount, Root, Node
  <1>4. /\ climb_hash' = Node(find_start + node_index)
        /\ sib' = SiblingOf(find_len, find_start, node_index)
        /\ node_index' = node_index \div 2
        /\ find_start' = find_start + find_len
        /\ find_len' = NextLevelLen(find_len)
    BY <1>1 DEF FindPathLevel, Climbed
  <1>5. CASE find_len = 1
    <2>1. find_len' = 0
      BY <1>4, <1>5 DEF NextLevelLen
    <2>2. climb_hash' = Root
      <3>1. node_index = 0
        BY <1>1, <1>5
      <3>2. Node(find_start) = Root
        BY <1>1, <1>5, TopIsRoot
      <3> QED
        BY <1>1, <1>4, <3>1, <3>2
    <2> QED
      BY <1>1, <1>3, <2>1, <2>2, LevelProofSoFar DEF OnPath
  <1>6. CASE find_len > 1
    <2>1. /\ <<find_start + find_len, NextLevelLen(find_len)>> \in L
          /\ node_index \div 2 \in 0 .. NextLevelLen(find_len) - 1
          /\ SiblingOf(find_len, find_start, node_index) # NoHash
          /\ FoldHash(Node(find_start + node_index),
                      SiblingOf(find_len, find_start, node_index))
               = Node(find_start + find_len + node_index \div 2)
      <3>1. ParentFollows(L, find_start, find_len, node_index)
        BY <1>1, <1>6, SiblingGivesParent
      <3> QED
        BY <3>1 DEF ParentFollows
    <2>2. NextLevelLen(find_len) \in Nat /\ NextLevelLen(find_len) > 0
      BY <1>1, <1>6, NextLevelLenHalves
    <2>3. Climbed' = Node(find_start + node_index)'
      BY <1>2, <1>4, <2>1 DEF Climbed, FoldHash, SortedHash, Node
    <2> QED
      BY <1>1, <1>3, <1>4, <2>1, <2>2, <2>3, LevelProofSoFar DEF OnPath
  <1> QED
    BY <1>1, <1>5, <1>6

(* Once a path is looked for, the tree is finished: no step builds on it.   *)
LEMMA NothingBuiltOnPath ==
  ASSUME BuildInv, NEW L, OnPath(L), PushParent \/ NextLevel
  PROVE  leaf_index = NoItem
  <1>1. level_len # 0
    BY LevelTypes DEF BuildInv, PushParent, NextLevel
  <1> QED
    BY <1>1 DEF OnPath, HasRoot, Built

LEMMA InitPath == PathInit => PathInv
  <1> SUFFICES ASSUME PathInit PROVE PathInv
    OBVIOUS
  <1>1. Init
    BY DEF PathInit
  <1>2. BuildInv /\ AreLevels({<<0, LeafCount>>})
    BY <1>1, InitBuild
  <1>3. \A L : OnPath(L)
    BY DEF PathInit, OnPath
  <1> QED
    BY <1>2, <1>3 DEF PathInv

LEMMA NextPath == PathInv /\ [PathNext]_all_vars => PathInv'
  <1> SUFFICES ASSUME PathInv, [PathNext]_all_vars PROVE PathInv'
    OBVIOUS
  <1>1. PICK L : AreLevels(L) /\ OnPath(L)
    BY DEF PathInv
  <1>2. BuildInv
    BY DEF PathInv
  <1>3. ASSUME UNCHANGED vars PROVE BuildInv' /\ AreLevels(L)'
    BY <1>1, <1>2, <1>3, UnchangedBuild DEF vars
  <1>4. CASE (PushParent \/ NextLevel) /\ UNCHANGED path_vars
    <2>1. leaf_index' = NoItem
      BY <1>1, <1>2, <1>4, NothingBuiltOnPath DEF path_vars
    <2>2. \A M : OnPath(M)'
      BY <2>1 DEF OnPath
    <2>3. BuildInv' /\ \E M : AreLevels(M)'
      BY <1>1, <1>2, <1>4, PushParentBuild, NextLevelBuild
    <2> QED
      BY <2>2, <2>3 DEF PathInv
  <1>5. CASE \E index \in 0 .. LeafCount - 1 : StartFindPath(index)
    BY <1>1, <1>2, <1>3, <1>5, StartOnPath DEF PathInv, StartFindPath
  <1>6. CASE FindPathLevel
    BY <1>1, <1>2, <1>3, <1>6, LevelOnPath DEF PathInv, FindPathLevel
  <1>7. CASE UNCHANGED all_vars
    <2>1. UNCHANGED vars /\ UNCHANGED path_vars
      BY <1>7 DEF all_vars
    <2>2. UNCHANGED <<items, nodes, sorted_hashes, level_len>>
      BY <2>1 DEF vars, tree_vars
    <2>3. UNCHANGED <<leaf_index, find_len, find_start, node_index, sib, climb_hash>>
      BY <2>1 DEF path_vars
    <2>4. /\ HasRoot' = HasRoot /\ Root' = Root /\ LeafCount' = LeafCount
          /\ Node(find_start + node_index)' = Node(find_start + node_index)
          /\ Climbed' = Climbed
      BY <2>2, <2>3
      DEF HasRoot, Built, Root, LeafCount, Node, Climbed, FoldHash, SortedHash
    <2>5. OnPath(L)'
      BY <1>1, <2>1, <2>2, <2>3, <2>4, UnchangedProofSoFar DEF OnPath
    <2> QED
      BY <1>3, <2>1, <2>5 DEF PathInv
  <1> QED
    BY <1>4, <1>5, <1>6, <1>7 DEF PathNext

(* find_path and get_proof give every claimant of every tree of sorted      *)
(* hashes a proof that verify follows to the root, for any entries and any  *)
(* width: the duplication of unpaired nodes is done alike by the two.       *)
THEOREM EveryPathReachesRoot == PathSpec => []ClimbReachesRoot
  <1>1. PathInv => ClimbReachesRoot
    BY DEF PathInv, OnPath, ClimbReachesRoot, PathFound
  <1> QED
    BY <1>1, InitPath, NextPath, PTL DEF PathSpec

(* The loop makes the proof of MerkleTree's recursive definition.           *)
LEMMA LoopMakesProof ==
  ASSUME PathInv, PathFound
  PROVE  proof = GetProof(leaf_index)
  BY DEF PathInv, OnPath, PathFound, ProofSoFar

(* Different hashes stay different along a proof.                           *)
LEMMA FoldInjective ==
  ASSUME NEW s, IsVector(s), NEW a, NEW b, a # b
  PROVE  FoldLeft(FoldHash, a, s) # FoldLeft(FoldHash, b, s)
  <1>1. PICK F : Folds(F, "proof", a, s)
    BY FoldHasResults
  <1>2. PICK G : Folds(G, "proof", b, s)
    BY FoldHasResults
  <1>3. Len(s) \in Nat
    BY DEF IsVector
  <1> DEFINE T == {n \in Nat : n <= Len(s) => F[n] # G[n]}
  <1>4. 0 \in T
    BY <1>1, <1>2 DEF Folds
  <1>5. ASSUME NEW n \in Nat, n \in T PROVE n + 1 \in T
    <2> SUFFICES ASSUME n + 1 <= Len(s) PROVE F[n + 1] # G[n + 1]
      OBVIOUS
    <2>1. n < Len(s) /\ F[n] # G[n]
      BY <1>3, <1>5
    <2>2. /\ F[n + 1] = FoldHash(F[n], s[n + 1])
          /\ G[n + 1] = FoldHash(G[n], s[n + 1])
      BY <1>1, <1>2, <2>1 DEF Folds, FoldStep
    <2>3. ASSUME NEW x, NEW y, NEW e, FoldHash(x, e) = FoldHash(y, e) PROVE x = y
      <3>1. x \in {y, e} /\ y \in {x, e}
        BY <2>3, SortedHashInjective DEF FoldHash
      <3> QED
        BY <3>1
    <2> QED
      BY <2>1, <2>2, <2>3
  <1>6. Nat \subseteq T
    <2> HIDE DEF T
    <2> QED
      BY <1>4, <1>5, NatSetInduction
  <1>7. F[Len(s)] # G[Len(s)]
    BY <1>3, <1>6
  <1> QED
    BY <1>1, <1>2, <1>7, HashFold

(* The proof of a claimant of any tree of sorted hashes makes verify accept *)
(* the claimant's own entry and no other, for any entries and any width.    *)
THEOREM EveryProofServesOne == PathSpec => []ProofServesOneEntry
  <1>1. ASSUME PathInv PROVE ProofServesOneEntry
    <2> SUFFICES ASSUME PathFound, NEW item \in Items
                 PROVE  Verifies(LeafHash(item), proof) <=> item = items[leaf_index + 1]
      BY DEF ProofServesOneEntry
    <2> DEFINE own == items[leaf_index + 1]
    <2>1. /\ climb_hash = Root /\ IsVector(proof)
          /\ climb_hash = FoldLeft(FoldHash, LeafHash(own), proof)
          /\ leaf_index \in 0 .. LeafCount - 1
      BY <1>1 DEF PathInv, OnPath, PathFound, ProofSoFar
    <2>2. own \in Items
      <3>1. LeafCount \in Nat /\ TreeInv
        BY <1>1, LevelTypes DEF PathInv, BuildInv
      <3>2. leaf_index + 1 \in 1 .. LeafCount
        BY <2>1, <3>1
      <3> QED
        BY <3>1, <3>2 DEF TreeInv, LeafCount
    <2>3. CASE item = own
      BY <2>1, <2>3 DEF Verifies
    <2>4. CASE item # own
      <3>1. LeafHash(item) # LeafHash(own)
        BY <2>2, <2>4, LeafHashInjective
      <3> QED
        BY <2>1, <2>4, <3>1, FoldInjective DEF Verifies
    <2> QED
      BY <2>3, <2>4
  <1> QED
    BY <1>1, InitPath, NextPath, PTL DEF PathSpec
=============================================================================
