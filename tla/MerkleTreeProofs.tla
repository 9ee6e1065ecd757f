--------------------------- MODULE MerkleTreeProofs ---------------------------
(***************************************************************************)
(* Proofs about MerkleTree, for any entries, inputs and proofs: the levels *)
(* stay in place while the tree is built; the proof and the path that are  *)
(* found for a leaf verify, and a path no other leaf; a claim verify       *)
(* accepts is for an entry of the tree.                                    *)
(***************************************************************************)
EXTENDS MerkleTree, FiniteSums, SequenceTheorems

(* Vectors: nodes is a sequence, whatever its elements are.                 *)
IsVector(s) == \E T : s \in Seq(T)

(* Vec::push keeps what is there and puts the new element behind it.        *)
LEMMA VectorAppend ==
  ASSUME NEW s, IsVector(s), NEW e
  PROVE  /\ Len(s) \in Nat
         /\ IsVector(Append(s, e))
         /\ Len(Append(s, e)) = Len(s) + 1
         /\ \A k \in 1 .. Len(s) : Append(s, e)[k] = s[k]
         /\ Append(s, e)[Len(s) + 1] = e
  <1>1. PICK T : s \in Seq(T)
    BY DEF IsVector
  <1> DEFINE S == T \cup {e}
  <1>2. s \in Seq(S) /\ e \in S
    BY <1>1
  <1> HIDE DEF S
  <1>3. Append(s, e) \in Seq(S)
    BY <1>2
  <1>4. IsVector(Append(s, e))
    BY <1>3 DEF IsVector
  <1> QED
    BY <1>2, <1>4

(* A vector made by mapping over a sequence has its length.                 *)
LEMMA VectorMap ==
  ASSUME NEW s, NEW n \in Nat, s = [k \in 1 .. n |-> s[k]]
  PROVE  IsVector(s) /\ Len(s) = n
  <1> DEFINE T == {s[k] : k \in 1 .. n}
  <1>1. s \in [1 .. n -> T]
    OBVIOUS
  <1>2. s \in Seq(T)
    BY <1>1
  <1> HIDE DEF T
  <1> QED
    BY <1>1, <1>2 DEF IsVector

LEMMA EmptyVector == IsVector(<<>>) /\ Len(<<>>) = 0
<1>1. <<>> \in Seq({})
  OBVIOUS
<1> QED
  BY <1>1 DEF IsVector

LEMMA VectorConcat ==
  ASSUME NEW s, IsVector(s), NEW t, IsVector(t)
  PROVE  /\ IsVector(s \o t)
         /\ Len(s) \in Nat /\ Len(t) \in Nat
         /\ Len(s \o t) = Len(s) + Len(t)
         /\ \A k \in 1 .. Len(s) + Len(t) :
              (s \o t)[k] = IF k <= Len(s) THEN s[k] ELSE t[k - Len(s)]
<1>1. PICK S : s \in Seq(S)
  BY DEF IsVector
<1>2. PICK T : t \in Seq(T)
  BY DEF IsVector
<1> DEFINE U == S \cup T
<1>3. s \in Seq(U) /\ t \in Seq(U)
  BY <1>1, <1>2, SeqMonotonic
<1> HIDE DEF U
<1> QED
  BY <1>3, ConcatProperties DEF IsVector

LEMMA VectorCons ==
  ASSUME NEW s, IsVector(s), NEW e
  PROVE  /\ IsVector(<<e>> \o s)
         /\ Len(s) \in Nat
         /\ Len(<<e>> \o s) = Len(s) + 1
         /\ (<<e>> \o s)[1] = e
         /\ \A k \in 1 .. Len(s) : (<<e>> \o s)[k + 1] = s[k]
<1>1. <<e>> \in Seq({e}) /\ Len(<<e>>) = 1 /\ <<e>>[1] = e
  OBVIOUS
<1>2. IsVector(<<e>>)
  BY <1>1 DEF IsVector
<1>3. /\ IsVector(<<e>> \o s) /\ Len(s) \in Nat
      /\ Len(<<e>> \o s) = 1 + Len(s)
      /\ \A k \in 1 .. 1 + Len(s) :
           (<<e>> \o s)[k] = IF k <= 1 THEN <<e>>[k] ELSE s[k - 1]
  BY <1>1, <1>2, VectorConcat
<1> HIDE <1>2
<1>4. (<<e>> \o s)[1] = e
  BY <1>1, <1>3
<1>5. ASSUME NEW k \in 1 .. Len(s) PROVE (<<e>> \o s)[k + 1] = s[k]
  <2>1. k + 1 \in 1 .. 1 + Len(s) /\ ~(k + 1 <= 1) /\ (k + 1) - 1 = k
    BY <1>3
  <2> QED
    BY <1>3, <2>1
<1> QED
  BY <1>3, <1>4, <1>5

-----------------------------------------------------------------------------
(* The building of the tree *)

(* Every hash is that of an entry or that of two hashes of the vector.      *)
LeafOrParent ==
  \A k \in 1 .. Len(nodes) :
    \/ \E j \in 1 .. LeafCount : nodes[k] = LeafHash(items[j])
    \/ \E l, r \in 1 .. Len(nodes) : nodes[k] = ParentHash(nodes[l], nodes[r])

TreeInv ==
  /\ items \in Seq(Items)
  /\ IsVector(nodes)
  /\ LevelsInPlace
  /\ LeafOrParent

LEMMA InitTree == Init => TreeInv
  <1> SUFFICES ASSUME Init PROVE TreeInv
    OBVIOUS
  <1>1. items \in Seq(Items)
    BY InputAssumption DEF Init
  <1>2. Len(items) \in Nat
    BY <1>1
  <1>3. nodes = [k \in 1 .. Len(items) |-> nodes[k]]
    BY DEF Init, LeafCount
  <1>4. IsVector(nodes) /\ Len(nodes) = Len(items)
    BY <1>2, <1>3, VectorMap
  <1>5. LevelsInPlace
    BY <1>2, <1>4 DEF Init, LevelsInPlace, NextLevelLen, LeafCount
  <1>6. LeafOrParent
    BY <1>4 DEF Init, LeafOrParent, LeafCount
  <1> QED
    BY <1>1, <1>4, <1>5, <1>6 DEF TreeInv

(* The two children of the next parent are in the vector.                   *)
LEMMA ChildrenInVector ==
  ASSUME TreeInv, Pushed < level_len
  PROVE  /\ Pushed \in Nat
         /\ prev_level_start + 2 * Pushed + 1 \in 1 .. Len(nodes)
         /\ \E r \in 1 .. Len(nodes) : RightSibling(2 * Pushed) = nodes[r]
  <1>1. Len(nodes) \in Nat
    BY VectorAppend DEF TreeInv
  <1>3. level_len \in Nat /\ level_start \in Nat
        /\ prev_level_len \in Nat /\ prev_level_start \in Nat
    BY DEF TreeInv, LevelsInPlace
  <1>2. /\ Pushed \in Nat
        /\ prev_level_start + 2 * Pushed + 1 \in 1 .. Len(nodes)
        /\ 2 * Pushed + 1 < prev_level_len
             => prev_level_start + 2 * Pushed + 1 + 1 \in 1 .. Len(nodes)
    BY <1>1, <1>3 DEF TreeInv, LevelsInPlace, Pushed
  <1> QED
    BY <1>2 DEF RightSibling, Node

LEMMA PushParentTree ==
  ASSUME TreeInv, PushParent
  PROVE  TreeInv'
  <1> DEFINE a == prev_level_start + 2 * Pushed + 1
  <1>1. PICK r \in 1 .. Len(nodes) : RightSibling(2 * Pushed) = nodes[r]
    BY ChildrenInVector DEF PushParent
  <1>2. a \in 1 .. Len(nodes)
    BY ChildrenInVector DEF PushParent
  <1>3. nodes' = Append(nodes, ParentHash(nodes[a], nodes[r]))
    BY <1>1 DEF PushParent, Node
  <1> HIDE DEF a
  <1>4. /\ Len(nodes) \in Nat
        /\ IsVector(nodes')
        /\ Len(nodes') = Len(nodes) + 1
        /\ \A k \in 1 .. Len(nodes) : nodes'[k] = nodes[k]
        /\ nodes'[Len(nodes) + 1] = ParentHash(nodes[a], nodes[r])
    BY <1>3, VectorAppend DEF TreeInv
  <1>5. items' \in Seq(Items)
    BY DEF PushParent, TreeInv
  <1>6. LevelsInPlace'
    <2>1. level_len \in Nat /\ level_start \in Nat
          /\ prev_level_len \in Nat /\ prev_level_start \in Nat
      BY DEF TreeInv, LevelsInPlace
    <2>2. Len(nodes) - level_start < level_len
      BY DEF PushParent, Pushed
    <2> QED
      BY <1>4, <2>1, <2>2 DEF PushParent, TreeInv, LevelsInPlace
  <1>7. LeafOrParent'
    <2>1. sorted_hashes' = sorted_hashes /\ items' = items
      BY DEF PushParent
    <2> SUFFICES ASSUME NEW k \in 1 .. Len(nodes')
                 PROVE  \/ \E j \in 1 .. LeafCount' : nodes'[k] = LeafHash(items'[j])
                        \/ \E l, q \in 1 .. Len(nodes') :
                             nodes'[k] = ParentHash(nodes'[l], nodes'[q])
      BY <2>1 DEF LeafOrParent, LeafHash, ParentHash
    <2>2. CASE k = Len(nodes) + 1
      <3>1. nodes'[k] = ParentHash(nodes'[a], nodes'[r])
        BY <1>1, <1>2, <1>4, <2>2
      <3> QED
        BY <1>1, <1>2, <1>4, <3>1
    <2>3. CASE k \in 1 .. Len(nodes)
      <3>1. CASE \E j \in 1 .. LeafCount : nodes[k] = LeafHash(items[j])
        BY <1>4, <2>1, <2>3, <3>1 DEF LeafCount
      <3>2. CASE \E l, q \in 1 .. Len(nodes) : nodes[k] = ParentHash(nodes[l], nodes[q])
        <4>1. PICK l \in 1 .. Len(nodes), q \in 1 .. Len(nodes) :
                nodes[k] = ParentHash(nodes[l], nodes[q])
          BY <3>2
        <4>2. nodes'[k] = ParentHash(nodes'[l], nodes'[q])
          BY <1>4, <2>3, <4>1
        <4> QED
          BY <1>4, <4>1, <4>2
      <3> QED
        BY <2>3, <3>1, <3>2 DEF TreeInv, LeafOrParent
    <2> QED
      BY <1>4, <2>2, <2>3
  <1> QED
    BY <1>4, <1>5, <1>6, <1>7 DEF TreeInv

LEMMA NextLevelTree ==
  ASSUME TreeInv, NextLevel
  PROVE  TreeInv'
  <1>1. Len(nodes) \in Nat
    BY VectorAppend DEF TreeInv
  <1>2. LevelsInPlace'
    <2>1. level_len \in Nat /\ level_start \in Nat
          /\ prev_level_len \in Nat /\ prev_level_start \in Nat
      BY DEF TreeInv, LevelsInPlace
    <2>2. level_len > 0 /\ Len(nodes) - level_start = level_len
      BY DEF NextLevel, Pushed
    <2>3. /\ NextLevelLen(level_len) \in Nat
          /\ IF NextLevelLen(level_len) = 0 THEN level_len <= 1
             ELSE level_len \in {2 * NextLevelLen(level_len) - 1,
                                 2 * NextLevelLen(level_len)}
      BY <2>1, <2>2 DEF NextLevelLen
    <2> QED
      BY <1>1, <2>1, <2>2, <2>3 DEF NextLevel, TreeInv, LevelsInPlace
  <1>3. LeafOrParent'
    BY DEF NextLevel, TreeInv, LeafOrParent, LeafCount, ParentHash
  <1> QED
    BY <1>2, <1>3 DEF NextLevel, TreeInv

LEMMA UnchangedTree ==
  ASSUME TreeInv, UNCHANGED tree_vars
  PROVE  TreeInv'
  BY DEF TreeInv, tree_vars, LevelsInPlace, LeafOrParent, LeafCount, ParentHash

(* Every step keeps the vector and its levels in order.                     *)
LEMMA NextTree == TreeInv /\ [Next]_vars => TreeInv'
  <1> SUFFICES ASSUME TreeInv, [Next]_vars PROVE TreeInv'
    OBVIOUS
  <1>1. CASE PushParent
    BY <1>1, PushParentTree
  <1>2. CASE NextLevel
    BY <1>2, NextLevelTree
  <1>3. CASE \E item \in Items : StartVerify(item)
    BY <1>3, UnchangedTree DEF StartVerify
  <1>4. CASE \E p \in Range(nodes) \cup ForeignHashes : FoldProofElement(p)
    BY <1>4, UnchangedTree DEF FoldProofElement
  <1>5. CASE UNCHANGED vars
    BY <1>5, UnchangedTree DEF vars
  <1> QED
    BY <1>1, <1>2, <1>3, <1>4, <1>5 DEF Next

LEMMA TreeInvHolds == Spec => []TreeInv
  BY InitTree, NextTree, PTL DEF Spec

(* MerkleTree::new never reads outside its vector, pairs every node of a    *)
(* level, and lays the levels one after the other, for any input.           *)
THEOREM LevelsStayInPlace == Spec => []LevelsInPlace
  <1>1. TreeInv => LevelsInPlace
    BY DEF TreeInv
  <1> QED
    BY <1>1, TreeInvHolds, PTL

-----------------------------------------------------------------------------
(* The levels of the tree.  While it is built, a set of pairs               *)
(* <<start, length>> records the levels laid out so far; each but the last  *)
(* has all its parents in the next.                                         *)

RightOf(len, start, index) ==
  IF index + 1 < len THEN Node(start + index + 1) ELSE Node(start + index)

ParentAt(len, start, i) ==
  Node(start + len + i) = ParentHash(Node(start + 2 * i), RightOf(len, start, 2 * i))

(* The level is below another one, and every parent is there.               *)
ParentsDone(start, len) ==
  /\ start + len + NextLevelLen(len) <= Len(nodes)
  /\ \A i \in Nat : i < NextLevelLen(len) => ParentAt(len, start, i)

LeavesInPlace ==
  /\ LeafCount <= Len(nodes)
  /\ \A k \in 1 .. LeafCount : nodes[k] = LeafHash(items[k])

CurrentParents ==
  \A i \in Nat : i < Pushed => ParentAt(prev_level_len, prev_level_start, i)

(* The levels laid out so far. *)
AreLevels(L) ==
  /\ <<0, LeafCount>> \in L
  /\ <<prev_level_start, prev_level_len>> \in L
  /\ \A start, len \in Nat : <<start, len>> \in L =>
       /\ len > 0 \/ LeafCount = 0
       /\ \/ start = prev_level_start /\ len = prev_level_len
          \/ ParentsDone(start, len) /\ <<start + len, NextLevelLen(len)>> \in L

BuildInv ==
  /\ TreeInv
  /\ level_len = NextLevelLen(prev_level_len)
  /\ LeavesInPlace
  /\ CurrentParents

LEMMA NextLevelLenHalves ==
  ASSUME NEW len \in Nat
  PROVE  /\ NextLevelLen(len) \in Nat
         /\ len <= 1 => NextLevelLen(len) = 0
         /\ len > 1 => /\ NextLevelLen(len) > 0
                       /\ NextLevelLen(len) < len
                       /\ 2 * NextLevelLen(len) \in {len, len + 1}
  BY DEF NextLevelLen

LEMMA LevelTypes ==
  ASSUME TreeInv
  PROVE  /\ LeafCount \in Nat
         /\ Len(nodes) \in Nat
         /\ level_len \in Nat /\ level_start \in Nat
         /\ prev_level_len \in Nat /\ prev_level_start \in Nat
         /\ prev_level_start + prev_level_len = level_start
         /\ level_start <= Len(nodes)
         /\ Pushed \in Nat /\ Pushed <= level_len
  <1>1. Len(nodes) \in Nat
    BY VectorAppend DEF TreeInv
  <1>2. items \in Seq(Items)
    BY DEF TreeInv
  <1>3. LeafCount \in Nat
    BY <1>2 DEF LeafCount
  <1> QED
    BY <1>1, <1>3 DEF TreeInv, LevelsInPlace, Pushed

(* A hash pushed behind the others leaves the parents below it in place.    *)
LEMMA ParentKept ==
  ASSUME TreeInv, NEW e, nodes' = Append(nodes, e), sorted_hashes' = sorted_hashes,
         NEW start \in Nat, NEW len \in Nat, NEW i \in Nat,
         2 * i < len, start + len + i < Len(nodes), ParentAt(len, start, i)
  PROVE  ParentAt(len, start, i)'
  <1>1. /\ Len(nodes) \in Nat
        /\ \A k \in 1 .. Len(nodes) : nodes'[k] = nodes[k]
    BY VectorAppend DEF TreeInv
  <1>2. /\ Node(start + len + i)' = Node(start + len + i)
        /\ Node(start + 2 * i)' = Node(start + 2 * i)
        /\ 2 * i + 1 < len => Node(start + 2 * i + 1)' = Node(start + 2 * i + 1)
    BY <1>1 DEF Node
  <1>3. RightOf(len, start, 2 * i)' = RightOf(len, start, 2 * i)
    BY <1>2 DEF RightOf
  <1> QED
    BY <1>2, <1>3 DEF ParentAt, ParentHash, SortedHash, OrderedHash

LEMMA InitBuild == Init => BuildInv /\ AreLevels({<<0, LeafCount>>})
  <1> SUFFICES ASSUME Init PROVE BuildInv /\ AreLevels({<<0, LeafCount>>})
    OBVIOUS
  <1>1. TreeInv
    BY InitTree
  <1>2. LeafCount \in Nat /\ Len(nodes) = LeafCount
    <2>1. LeafCount \in Nat
      BY <1>1, LevelTypes
    <2>2. nodes = [k \in 1 .. LeafCount |-> nodes[k]]
      BY DEF Init
    <2> QED
      BY <2>1, <2>2, VectorMap
  <1>3. LeavesInPlace
    BY <1>2 DEF Init, LeavesInPlace
  <1>4. CurrentParents
    BY <1>2 DEF Init, CurrentParents, Pushed
  <1>5. AreLevels({<<0, LeafCount>>})
    BY <1>2 DEF Init, AreLevels
  <1>6. level_len = NextLevelLen(prev_level_len)
    BY DEF Init
  <1> QED
    BY <1>1, <1>3, <1>4, <1>5, <1>6 DEF BuildInv

LEMMA PushParentBuild ==
  ASSUME BuildInv, NEW L, AreLevels(L), PushParent
  PROVE  BuildInv' /\ AreLevels(L)'
  <1> DEFINE e == ParentHash(Node(prev_level_start + 2 * Pushed), RightSibling(2 * Pushed))
  <1>1. /\ nodes' = Append(nodes, e)
        /\ UNCHANGED <<items, sorted_hashes, level_len, level_start,
                       prev_level_len, prev_level_start>>
        /\ Pushed < level_len
    BY DEF PushParent
  <1> HIDE DEF e
  <1>2. TreeInv /\ TreeInv'
    BY PushParentTree DEF BuildInv
  <1>3. /\ Len(nodes) \in Nat
        /\ Len(nodes') = Len(nodes) + 1
        /\ \A k \in 1 .. Len(nodes) : nodes'[k] = nodes[k]
        /\ nodes'[Len(nodes) + 1] = e
    BY <1>1, <1>2, VectorAppend DEF TreeInv
  <1>4. LeafCount' = LeafCount /\ LeafCount \in Nat
    BY <1>1, <1>2, LevelTypes DEF LeafCount
  <1>5. LeavesInPlace'
    BY <1>1, <1>3, <1>4 DEF BuildInv, LeavesInPlace, LeafHash
  <1>6. CurrentParents'
    <2> SUFFICES ASSUME NEW i \in Nat, i < Pushed'
                 PROVE  ParentAt(prev_level_len, prev_level_start, i)'
      BY <1>1 DEF CurrentParents
    <2>1. Pushed' = Pushed + 1
      BY <1>1, <1>2, <1>3, LevelTypes DEF Pushed
    <2>0. /\ prev_level_len \in Nat /\ prev_level_start \in Nat
          /\ Pushed \in Nat /\ Len(nodes) \in Nat
          /\ prev_level_start + prev_level_len + Pushed = Len(nodes)
      <3>1. /\ prev_level_len \in Nat /\ prev_level_start \in Nat
            /\ Pushed \in Nat /\ Len(nodes) \in Nat /\ level_start \in Nat
            /\ prev_level_start + prev_level_len = level_start
        BY <1>2, LevelTypes
      <3>2. Pushed = Len(nodes) - level_start
        BY DEF Pushed
      <3> QED
        BY <3>1, <3>2
    <2>2. 2 * Pushed < prev_level_len
      <3>1. /\ level_len \in Nat /\ Pushed + 1 <= level_len
            /\ prev_level_len \in {2 * level_len - 1, 2 * level_len}
        BY <1>1, <1>2, <2>0 DEF TreeInv, LevelsInPlace
      <3> QED
        BY <2>0, <3>1
    <2>3. CASE i < Pushed
      <3>1. ParentAt(prev_level_len, prev_level_start, i)
        BY <2>3 DEF BuildInv, CurrentParents
      <3>2. 2 * i < prev_level_len
            /\ prev_level_start + prev_level_len + i < Len(nodes)
        BY <2>0, <2>2, <2>3
      <3>3. \A s, l \in Nat : s = prev_level_start /\ l = prev_level_len
              => ParentAt(l, s, i)'
        BY <1>1, <1>2, <3>1, <3>2, ParentKept
      <3> QED
        BY <1>1, <2>0, <3>3 DEF ParentAt, RightOf, Node, ParentHash
    <2>4. CASE i = Pushed
      <3>1. Node(prev_level_start + prev_level_len + i)' = e
        BY <1>1, <1>3, <2>0, <2>4 DEF Node
      <3>2. /\ Node(prev_level_start + 2 * i)' = Node(prev_level_start + 2 * i)
            /\ 2 * i + 1 < prev_level_len =>
                 Node(prev_level_start + 2 * i + 1)' = Node(prev_level_start + 2 * i + 1)
        <4>1. /\ prev_level_start + 2 * i + 1 \in 1 .. Len(nodes)
              /\ 2 * i + 1 < prev_level_len =>
                   prev_level_start + 2 * i + 1 + 1 \in 1 .. Len(nodes)
          BY <2>0, <2>2, <2>4
        <4> QED
          BY <1>1, <1>3, <4>1 DEF Node
      <3>3. RightOf(prev_level_len, prev_level_start, 2 * i)' = RightSibling(2 * i)
        BY <1>1, <3>2 DEF RightOf, RightSibling
      <3> QED
        BY <1>1, <2>4, <3>1, <3>2, <3>3
        DEF e, ParentAt, ParentHash, SortedHash, OrderedHash
    <2> QED
      BY <2>0, <2>1, <2>3, <2>4
  <1>7. AreLevels(L)'
    <2> SUFFICES ASSUME NEW start \in Nat, NEW len \in Nat, <<start, len>> \in L,
                        ParentsDone(start, len)
                 PROVE  ParentsDone(start, len)'
      BY <1>1, <1>4 DEF AreLevels, NextLevelLen
    <2>1. start + len + NextLevelLen(len) <= Len(nodes)'
      BY <1>3, NextLevelLenHalves DEF ParentsDone
    <2>2. ASSUME NEW i \in Nat, i < NextLevelLen(len)
          PROVE  ParentAt(len, start, i)'
      <3>1. 2 * i < len /\ start + len + i < Len(nodes)
        <4>1. /\ NextLevelLen(len) \in Nat
              /\ NextLevelLen(len) > 0 => 2 * NextLevelLen(len) <= len + 1
          BY NextLevelLenHalves
        <4>2. start + len + NextLevelLen(len) <= Len(nodes)
          BY DEF ParentsDone
        <4> QED
          BY <1>3, <2>2, <4>1, <4>2
      <3> QED
        BY <1>1, <1>2, <2>2, <3>1, ParentKept DEF ParentsDone
    <2> QED
      BY <2>1, <2>2 DEF ParentsDone, NextLevelLen
  <1>8. level_len' = NextLevelLen(prev_level_len)'
    BY <1>1 DEF BuildInv, NextLevelLen
  <1> QED
    BY <1>2, <1>5, <1>6, <1>7, <1>8 DEF BuildInv

LEMMA NextLevelBuild ==
  ASSUME BuildInv, NEW L, AreLevels(L), NextLevel
  PROVE  BuildInv' /\ \E M : AreLevels(M)'
  <1>1. /\ UNCHANGED <<items, sorted_hashes, nodes>>
        /\ prev_level_start' = level_start
        /\ prev_level_len' = level_len
        /\ level_start' = level_start + level_len
        /\ level_len > 0
        /\ Pushed = level_len
    BY DEF NextLevel
  <1>2. TreeInv /\ TreeInv'
    BY NextLevelTree DEF BuildInv
  <1>3. LeavesInPlace'
    BY <1>1 DEF BuildInv, LeavesInPlace, LeafCount
  <1>4. CurrentParents'
    BY <1>1, <1>2, LevelTypes DEF CurrentParents, Pushed
  <1>5. level_len = NextLevelLen(prev_level_len)
    BY DEF BuildInv
  <1>6. ParentsDone(prev_level_start, prev_level_len)
    <2>1. prev_level_start + prev_level_len + NextLevelLen(prev_level_len) <= Len(nodes)
      BY <1>1, <1>2, <1>5, LevelTypes DEF Pushed
    <2>2. \A i \in Nat : i < NextLevelLen(prev_level_len)
            => ParentAt(prev_level_len, prev_level_start, i)
      BY <1>1, <1>5 DEF BuildInv, CurrentParents
    <2> QED
      BY <2>1, <2>2 DEF ParentsDone
  <1>7. \A start, len \in Nat : ParentsDone(start, len) => ParentsDone(start, len)'
    BY <1>1 DEF ParentsDone, ParentAt, RightOf, Node, ParentHash, NextLevelLen
  <1>8. LeafCount' = LeafCount
    BY <1>1 DEF LeafCount
  <1>9. PICK M : M = L \cup {<<level_start, level_len>>}
    OBVIOUS
  <1>10. AreLevels(M)'
    <2>1. <<0, LeafCount>> \in M
      BY <1>9 DEF AreLevels
    <2>2. ASSUME NEW start \in Nat, NEW len \in Nat, <<start, len>> \in M
          PROVE  /\ len > 0 \/ LeafCount = 0
                 /\ \/ start = level_start /\ len = level_len
                    \/ ParentsDone(start, len)' /\ <<start + len, NextLevelLen(len)>> \in M
      <3>1. CASE start = level_start /\ len = level_len
        BY <1>1, <3>1
      <3>2. CASE <<start, len>> \in L
        <4>1. len > 0 \/ LeafCount = 0
          BY <3>2 DEF AreLevels
        <4>2. CASE start = prev_level_start /\ len = prev_level_len
          BY <1>2, <1>5, <1>6, <1>7, <1>9, <4>1, <4>2, LevelTypes
        <4>3. CASE ParentsDone(start, len) /\ <<start + len, NextLevelLen(len)>> \in L
          BY <1>7, <1>9, <4>1, <4>3
        <4> QED
          BY <3>2, <4>2, <4>3 DEF AreLevels
      <3> QED
        BY <1>9, <2>2, <3>1, <3>2
    <2>3. <<prev_level_start', prev_level_len'>> \in M
      BY <1>1, <1>9
    <2> QED
      BY <1>1, <1>8, <2>1, <2>2, <2>3 DEF AreLevels, NextLevelLen
  <1>11. level_len' = NextLevelLen(prev_level_len)'
    BY DEF NextLevel, NextLevelLen
  <1> QED
    BY <1>2, <1>3, <1>4, <1>10, <1>11 DEF BuildInv

(* A step that leaves the tree alone leaves its levels alone.               *)
LEMMA UnchangedBuild ==
  ASSUME BuildInv, NEW L, AreLevels(L), UNCHANGED tree_vars
  PROVE  BuildInv' /\ AreLevels(L)'
  <1>1. UNCHANGED <<items, nodes, sorted_hashes, level_len, level_start,
                    prev_level_len, prev_level_start>>
    BY DEF tree_vars
  <1>2. TreeInv'
    BY UnchangedTree DEF BuildInv
  <1>3. LeafCount' = LeafCount /\ Pushed' = Pushed
    BY <1>1 DEF LeafCount, Pushed
  <1>4. \A k : Node(k)' = Node(k)
    BY <1>1 DEF Node
  <1>5. \A len, start, i : ParentAt(len, start, i)' = ParentAt(len, start, i)
    BY <1>1, <1>4 DEF ParentAt, RightOf, ParentHash
  <1>6. \A start, len : ParentsDone(start, len)' = ParentsDone(start, len)
    BY <1>1, <1>5 DEF ParentsDone, NextLevelLen
  <1>7. LeavesInPlace' /\ CurrentParents'
    BY <1>1, <1>3, <1>5 DEF BuildInv, LeavesInPlace, CurrentParents, LeafHash
  <1>8. AreLevels(L)'
    BY <1>1, <1>3, <1>6 DEF AreLevels, NextLevelLen
  <1>9. level_len' = NextLevelLen(prev_level_len)'
    BY <1>1 DEF BuildInv, NextLevelLen
  <1> QED
    BY <1>2, <1>7, <1>8, <1>9 DEF BuildInv

(* The tree has its levels at every moment.                                 *)
LevelsInv == BuildInv /\ \E L : AreLevels(L)

LEMMA NextBuild == LevelsInv /\ [Next]_vars => LevelsInv'
  <1> SUFFICES ASSUME LevelsInv, [Next]_vars PROVE LevelsInv'
    OBVIOUS
  <1>1. BuildInv
    BY DEF LevelsInv
  <1>2. PICK L : AreLevels(L)
    BY DEF LevelsInv
  <1>3. CASE PushParent
    BY <1>1, <1>2, <1>3, PushParentBuild DEF LevelsInv
  <1>4. CASE NextLevel
    BY <1>1, <1>2, <1>4, NextLevelBuild DEF LevelsInv
  <1>5. CASE UNCHANGED tree_vars
    BY <1>1, <1>2, <1>5, UnchangedBuild DEF LevelsInv
  <1>6. PushParent \/ NextLevel \/ UNCHANGED tree_vars
    BY DEF Next, StartVerify, FoldProofElement, vars
  <1> QED
    BY <1>3, <1>4, <1>5, <1>6

LEMMA LevelsInvHolds == Spec => []LevelsInv
  <1>1. Init => LevelsInv
    BY InitBuild DEF LevelsInv
  <1> QED
    BY <1>1, NextBuild, PTL DEF Spec

(* Hashes are what was hashed: different tags, entries or siblings give     *)
(* different hashes.                                                        *)
LEMMA LeafHashInjective ==
  ASSUME NEW i \in Items, NEW j \in Items, LeafHash(i) = LeafHash(j)
  PROVE  i = j
  <1>1. /\ i.claimant = j.claimant
        /\ i.unlocked = j.unlocked
        /\ i.locked = j.locked
    BY DEF LeafHash
  <1> QED
    BY <1>1, InputAssumption

LEMMA SortedHashInjective ==
  ASSUME NEW a, NEW b, NEW c, NEW d, SortedHash(a, b) = SortedHash(c, d)
  PROVE  a \in {c, d}
  <1>1. {a, b} = {c, d}
    BY DEF SortedHash
  <1> QED
    BY <1>1

LEMMA NoLeafIsParent ==
  ASSUME NEW i, NEW a, NEW b
  PROVE  LeafHash(i) # SortedHash(a, b)
  BY DEF LeafHash, SortedHash

(* No hash is the marker for a sibling that is not there.                   *)
LEMMA HashIsSome ==
  ASSUME TreeInv, NEW k \in 1 .. Len(nodes)
  PROVE  nodes[k] # NoHash
  <1>1. CASE \E j \in 1 .. LeafCount : nodes[k] = LeafHash(items[j])
    BY <1>1 DEF LeafHash, NoHash
  <1>2. CASE \E l, r \in 1 .. Len(nodes) : nodes[k] = ParentHash(nodes[l], nodes[r])
    BY <1>2 DEF ParentHash, SortedHash, OrderedHash, NoHash
  <1> QED
    BY <1>1, <1>2 DEF TreeInv, LeafOrParent

(* In a finished tree, a level of one node is the last, and the root is it. *)
LEMMA TopIsRoot ==
  ASSUME BuildInv, NEW L, AreLevels(L), Built, LeafCount > 0,
         NEW start \in Nat, <<start, 1>> \in L
  PROVE  Node(start) = Root
  <1>1. TreeInv
    BY DEF BuildInv
  <1>2. start = prev_level_start /\ prev_level_len = 1
    <2>1. SUFFICES ASSUME <<start + 1, NextLevelLen(1)>> \in L PROVE FALSE
      BY DEF AreLevels
    <2>2. NextLevelLen(1) = 0
      BY DEF NextLevelLen
    <2>3. LeafCount \in Nat
      BY <1>1, LevelTypes
    <2>4. \A s, len \in Nat : <<s, len>> \in L => len > 0 \/ LeafCount = 0
      BY DEF AreLevels
    <2> QED
      BY <2>1, <2>2, <2>3, <2>4
  <1>3. Len(nodes) = start + 1
    BY <1>1, <1>2, LevelTypes DEF Built, Pushed
  <1> QED
    BY <1>3 DEF Node, Root

-----------------------------------------------------------------------------
(* Folds over a proof and over a path.  A fold of the community modules is  *)
(* a recursive function on sets of indices; what it computes for the first  *)
(* n elements is found by induction on n.                                   *)

(* The step of verify, and that of Proof::verify. *)
FoldStep(kind, hash, element) ==
  IF kind = "proof" THEN FoldHash(hash, element) ELSE FollowEntry(hash, element)

(* it computes the fold over s on each set of indices.                      *)
IsFold(it, kind, base, s) ==
  \A t \in SUBSET DOMAIN s :
    it[t] = IF t = {} THEN base
            ELSE FoldStep(kind, it[t \ {LastOf(t)}], s[LastOf(t)])

LEMMA FoldExists ==
  ASSUME NEW kind, NEW base, NEW s, IsVector(s)
  PROVE  \E it : /\ it = [t \in SUBSET DOMAIN s |-> it[t]]
                 /\ IsFold(it, kind, base, s)
<1> DEFINE S == DOMAIN s
           Body(h, t) == IF t = {} THEN base
                         ELSE FoldStep(kind, h[t \ {LastOf(t)}], s[LastOf(t)])
           Upto(h, n) == \A t \in SUBSET S : Cardinality(t) <= n => h[t] = Body(h, t)
           T == {n \in Nat : \E h : Upto(h, n)}
<1>1. S = 1 .. Len(s) /\ Len(s) \in Nat
  BY DEF IsVector
<1>2. IsFiniteSet(S)
  BY <1>1, FS_Interval
<1>3. \A t \in SUBSET S : t # {} => LastOf(t) \in t
  BY <1>1, LastIn
<1> HIDE DEF S
<1>4. 0 \in T
  <2> DEFINE h0 == [t \in SUBSET S |-> base]
  <2>1. \A t \in SUBSET S : Cardinality(t) <= 0 => t = {}
    BY <1>2, SubsetCardinality
  <2>2. Upto(h0, 0)
    BY <2>1
  <2> HIDE DEF h0, Upto
  <2> QED
    BY <2>2
<1>5. ASSUME NEW n \in Nat, n \in T PROVE n + 1 \in T
  <2>1. PICK h : Upto(h, n)
    BY <1>5
  <2> DEFINE h1 == [t \in SUBSET S |-> IF Cardinality(t) <= n THEN h[t] ELSE Body(h, t)]
  <2>2. ASSUME NEW t \in SUBSET S, Cardinality(t) <= n + 1
        PROVE  h1[t] = Body(h1, t)
    <3>1. CASE t = {}
      BY <2>1, <3>1
    <3>2. CASE t # {}
      <4>1. LastOf(t) \in t
        BY <1>3, <3>2
      <4>2. Cardinality(t \ {LastOf(t)}) <= n /\ t \ {LastOf(t)} \in SUBSET S
        BY <1>2, <2>2, <4>1, SubsetCardinality
      <4>3. h1[t \ {LastOf(t)}] = h[t \ {LastOf(t)}]
        BY <4>2
      <4>4. h1[t] = Body(h, t)
        BY <2>1
      <4> QED
        BY <4>3, <4>4
    <3> QED
      BY <3>1, <3>2
  <2>3. Upto(h1, n + 1)
    BY <2>2
  <2> HIDE DEF h1, Upto
  <2> QED
    BY <2>3
<1>6. Nat \subseteq T
  <2> HIDE DEF T
  <2> QED
    BY <1>4, <1>5, NatSetInduction
<1>7. PICK h : Upto(h, Cardinality(S))
  BY <1>2, <1>6, FS_CardinalityType
<1> DEFINE f == [t \in SUBSET S |-> h[t]]
<1>8. ASSUME NEW t \in SUBSET S PROVE f[t] = Body(f, t)
  <2>1. t \ {LastOf(t)} \in SUBSET S
    OBVIOUS
  <2>2. f[t \ {LastOf(t)}] = h[t \ {LastOf(t)}]
    BY <2>1
  <2>3. h[t] = Body(h, t)
    BY <1>2, <1>7, SubsetCardinality
  <2> QED
    BY <2>2, <2>3
<1>9. f = [t \in SUBSET S |-> f[t]]
  OBVIOUS
<1> HIDE DEF f
<1> QED
  BY <1>8, <1>9 DEF IsFold, S

(* The recursive functions inside the two folds. *)
HashRec(base, s) ==
  CHOOSE it : it = [t \in SUBSET DOMAIN s |->
    IF t = {} THEN base ELSE FoldHash(it[t \ {LastOf(t)}], s[LastOf(t)])]

EntryRec(base, s) ==
  CHOOSE it : it = [t \in SUBSET DOMAIN s |->
    IF t = {} THEN base ELSE FollowEntry(it[t \ {LastOf(t)}], s[LastOf(t)])]

LEMMA HashFoldIsRec ==
  ASSUME NEW base, NEW s, IsVector(s)
  PROVE  /\ FoldLeft(FoldHash, base, s) = HashRec(base, s)[DOMAIN s]
         /\ IsFold(HashRec(base, s), "proof", base, s)
<1>1. PICK it : it = [t \in SUBSET DOMAIN s |-> it[t]] /\ IsFold(it, "proof", base, s)
  BY FoldExists
<1>2. it = [t \in SUBSET DOMAIN s |->
              IF t = {} THEN base ELSE FoldHash(it[t \ {LastOf(t)}], s[LastOf(t)])]
  BY <1>1 DEF IsFold, FoldStep
<1> DEFINE r == HashRec(base, s)
<1>3. r = [t \in SUBSET DOMAIN s |->
             IF t = {} THEN base ELSE FoldHash(r[t \ {LastOf(t)}], s[LastOf(t)])]
  BY <1>2 DEF HashRec
<1> HIDE DEF r
<1>4. IsFold(r, "proof", base, s)
  BY <1>3 DEF IsFold, FoldStep
<1>5. FoldLeft(FoldHash, base, s) = HashRec(base, s)[DOMAIN s]
  BY DEF FoldLeft, MapThenFoldSet, HashRec, LastOf
<1> QED
  BY <1>4, <1>5 DEF r

LEMMA EntryFoldIsRec ==
  ASSUME NEW base, NEW s, IsVector(s)
  PROVE  /\ FoldLeft(FollowEntry, base, s) = EntryRec(base, s)[DOMAIN s]
         /\ IsFold(EntryRec(base, s), "path", base, s)
<1>1. PICK it : it = [t \in SUBSET DOMAIN s |-> it[t]] /\ IsFold(it, "path", base, s)
  BY FoldExists
<1>2. it = [t \in SUBSET DOMAIN s |->
              IF t = {} THEN base ELSE FollowEntry(it[t \ {LastOf(t)}], s[LastOf(t)])]
  BY <1>1 DEF IsFold, FoldStep
<1> DEFINE r == EntryRec(base, s)
<1>3. r = [t \in SUBSET DOMAIN s |->
             IF t = {} THEN base ELSE FollowEntry(r[t \ {LastOf(t)}], s[LastOf(t)])]
  BY <1>2 DEF EntryRec
<1> HIDE DEF r
<1>4. IsFold(r, "path", base, s)
  BY <1>3 DEF IsFold, FoldStep
<1>5. FoldLeft(FollowEntry, base, s) = EntryRec(base, s)[DOMAIN s]
  BY DEF FoldLeft, MapThenFoldSet, EntryRec, LastOf
<1> QED
  BY <1>4, <1>5 DEF r

(* F[n] is the fold over the first n elements of s. *)
Folds(F, kind, base, s) ==
  /\ F[0] = base
  /\ \A n \in Nat : n < Len(s) => F[n + 1] = FoldStep(kind, F[n], s[n + 1])

LEMMA PrefixIndices ==
  ASSUME NEW n \in Nat
  PROVE  LastOf(1 .. n + 1) = n + 1 /\ (1 .. n + 1) \ {n + 1} = 1 .. n
<1>1. (1 .. n + 1) # {} /\ (1 .. n + 1) \in SUBSET (1 .. n + 1)
  OBVIOUS
<1>2. \E x \in 1 .. n + 1 : \A y \in 1 .. n + 1 : x >= y
  OBVIOUS
<1>3. LastOf(1 .. n + 1) \in 1 .. n + 1 /\ \A y \in 1 .. n + 1 : LastOf(1 .. n + 1) >= y
  BY <1>2, Zenon DEF LastOf, Max
<1> QED
  BY <1>3

LEMMA FoldOfPrefix ==
  ASSUME NEW s, IsVector(s), NEW kind, NEW base,
         NEW it, IsFold(it, kind, base, s), NEW n \in Nat, n < Len(s)
  PROVE  it[1 .. n + 1] = FoldStep(kind, it[1 .. n], s[n + 1])
<1>1. DOMAIN s = 1 .. Len(s) /\ Len(s) \in Nat
  BY DEF IsVector
<1>2. 1 .. n + 1 \in SUBSET DOMAIN s /\ 1 .. n + 1 # {}
  BY <1>1
<1> QED
  BY <1>2, PrefixIndices DEF IsFold

LEMMA FoldAlong ==
  ASSUME NEW s, IsVector(s), NEW kind, NEW base,
         NEW it, IsFold(it, kind, base, s), NEW F, Folds(F, kind, base, s)
  PROVE  it[DOMAIN s] = F[Len(s)]
<1> DEFINE T == {n \in Nat : n <= Len(s) => it[1 .. n] = F[n]}
<1>1. DOMAIN s = 1 .. Len(s) /\ Len(s) \in Nat
  BY DEF IsVector
<1>2. 0 \in T
  <2>1. 1 .. 0 = {}
    OBVIOUS
  <2>2. it[{}] = base
    BY DEF IsFold
  <2> QED
    BY <2>1, <2>2 DEF Folds
<1>3. ASSUME NEW n \in Nat, n \in T PROVE n + 1 \in T
  <2>1. SUFFICES ASSUME n + 1 <= Len(s) PROVE it[1 .. n + 1] = F[n + 1]
    OBVIOUS
  <2>2. n < Len(s) /\ it[1 .. n] = F[n]
    BY <1>1, <1>3, <2>1
  <2>3. it[1 .. n + 1] = FoldStep(kind, it[1 .. n], s[n + 1])
    BY <2>2, FoldOfPrefix
  <2> QED
    BY <2>2, <2>3 DEF Folds
<1>4. Nat \subseteq T
  <2> HIDE DEF T
  <2> QED
    BY <1>2, <1>3, NatSetInduction
<1> QED
  BY <1>1, <1>4

(* Every fold has its partial results. *)
LEMMA FoldHasResults ==
  ASSUME NEW s, IsVector(s), NEW kind, NEW base
  PROVE  \E F : Folds(F, kind, base, s)
<1>1. PICK it : IsFold(it, kind, base, s)
  BY FoldExists
<1>2. Len(s) \in Nat
  BY DEF IsVector
<1> DEFINE F == [n \in 0 .. Len(s) |-> it[1 .. n]]
<1>3. F[0] = base
  <2>1. 1 .. 0 = {} /\ 0 \in 0 .. Len(s)
    BY <1>2
  <2>2. it[{}] = base
    BY <1>1 DEF IsFold
  <2> QED
    BY <2>1, <2>2
<1>4. ASSUME NEW n \in Nat, n < Len(s) PROVE F[n + 1] = FoldStep(kind, F[n], s[n + 1])
  BY <1>1, <1>2, <1>4, FoldOfPrefix
<1> HIDE DEF F
<1> QED
  BY <1>3, <1>4 DEF Folds

LEMMA HashFold ==
  ASSUME NEW s, IsVector(s), NEW base, NEW F, Folds(F, "proof", base, s)
  PROVE  FoldLeft(FoldHash, base, s) = F[Len(s)]
BY HashFoldIsRec, FoldAlong, Zenon

LEMMA EntryFold ==
  ASSUME NEW s, IsVector(s), NEW base, NEW F, Folds(F, "path", base, s)
  PROVE  FoldLeft(FollowEntry, base, s) = F[Len(s)]
BY EntryFoldIsRec, FoldAlong, Zenon

(* One more element before the others, and one behind them. *)
LEMMA FoldsCons ==
  ASSUME NEW s, IsVector(s), NEW e, NEW kind, NEW base,
         NEW F, Folds(F, kind, FoldStep(kind, base, e), s)
  PROVE  \E G : /\ Folds(G, kind, base, <<e>> \o s)
                /\ G[Len(<<e>> \o s)] = F[Len(s)]
<1> DEFINE t == <<e>> \o s
           G == [n \in Nat |-> IF n = 0 THEN base ELSE F[n - 1]]
<1>1. /\ Len(s) \in Nat /\ Len(t) = Len(s) + 1
      /\ t[1] = e
      /\ \A k \in 1 .. Len(s) : t[k + 1] = s[k]
  BY VectorCons
<1> HIDE DEF t
<1>2. G[0] = base
  OBVIOUS
<1>3. ASSUME NEW n \in Nat, n < Len(t)
      PROVE  G[n + 1] = FoldStep(kind, G[n], t[n + 1])
  <2>1. CASE n = 0
    BY <1>1, <2>1 DEF Folds
  <2>2. CASE n # 0
    <3>1. n - 1 \in Nat /\ n - 1 < Len(s) /\ n \in 1 .. Len(s) /\ (n - 1) + 1 = n
      BY <1>1, <1>3, <2>2
    <3>2. F[n] = FoldStep(kind, F[n - 1], s[n])
      BY <3>1 DEF Folds
    <3>3. t[n + 1] = s[n]
      BY <1>1, <3>1
    <3>4. G[n + 1] = F[n] /\ G[n] = F[n - 1]
      BY <2>2
    <3> QED
      BY <3>2, <3>3, <3>4
  <2> QED
    BY <2>1, <2>2
<1>4. G[Len(t)] = F[Len(s)]
  BY <1>1
<1> HIDE DEF G
<1>5. Folds(G, kind, base, t)
  BY <1>2, <1>3 DEF Folds
<1> QED
  BY <1>4, <1>5 DEF t

LEMMA HashFoldCons ==
  ASSUME NEW s, IsVector(s), NEW e, NEW base
  PROVE  FoldLeft(FoldHash, base, <<e>> \o s) = FoldLeft(FoldHash, FoldHash(base, e), s)
<1>1. FoldStep("proof", base, e) = FoldHash(base, e)
  BY DEF FoldStep
<1>2. PICK F : Folds(F, "proof", FoldStep("proof", base, e), s)
  BY FoldHasResults
<1>3. PICK G : Folds(G, "proof", base, <<e>> \o s) /\ G[Len(<<e>> \o s)] = F[Len(s)]
  BY <1>2, FoldsCons
<1>4. IsVector(<<e>> \o s)
  BY VectorCons
<1>5. FoldLeft(FoldHash, base, <<e>> \o s) = G[Len(<<e>> \o s)]
  BY <1>3, <1>4, HashFold, Zenon
<1>6. FoldLeft(FoldHash, FoldHash(base, e), s) = F[Len(s)]
  BY <1>1, <1>2, HashFold, Zenon
<1> QED
  BY <1>3, <1>5, <1>6, Zenon

LEMMA EntryFoldCons ==
  ASSUME NEW s, IsVector(s), NEW e, NEW base
  PROVE  FoldLeft(FollowEntry, base, <<e>> \o s)
           = FoldLeft(FollowEntry, FollowEntry(base, e), s)
<1>1. FoldStep("path", base, e) = FollowEntry(base, e)
  BY DEF FoldStep
<1>2. PICK F : Folds(F, "path", FoldStep("path", base, e), s)
  BY FoldHasResults
<1>3. PICK G : Folds(G, "path", base, <<e>> \o s) /\ G[Len(<<e>> \o s)] = F[Len(s)]
  BY <1>2, FoldsCons
<1>4. IsVector(<<e>> \o s)
  BY VectorCons
<1>5. FoldLeft(FollowEntry, base, <<e>> \o s) = G[Len(<<e>> \o s)]
  BY <1>3, <1>4, EntryFold, Zenon
<1>6. FoldLeft(FollowEntry, FollowEntry(base, e), s) = F[Len(s)]
  BY <1>1, <1>2, EntryFold, Zenon
<1> QED
  BY <1>3, <1>5, <1>6, Zenon

LEMMA EmptyFolds ==
  ASSUME NEW base
  PROVE  /\ FoldLeft(FoldHash, base, <<>>) = base
         /\ FoldLeft(FollowEntry, base, <<>>) = base
<1>1. IsVector(<<>>) /\ Len(<<>>) = 0
  BY EmptyVector
<1>2. \A kind : Folds([n \in Nat |-> base], kind, base, <<>>)
  BY <1>1 DEF Folds
<1>3. [n \in Nat |-> base][0] = base
  OBVIOUS
<1>4. FoldLeft(FoldHash, base, <<>>) = [n \in Nat |-> base][0]
  BY <1>1, <1>2, HashFold
<1>5. FoldLeft(FollowEntry, base, <<>>) = [n \in Nat |-> base][0]
  BY <1>1, <1>2, EntryFold
<1> QED
  BY <1>3, <1>4, <1>5

LEMMA HashFoldAppend ==
  ASSUME NEW s, IsVector(s), NEW e, NEW base
  PROVE  FoldLeft(FoldHash, base, Append(s, e))
           = FoldHash(FoldLeft(FoldHash, base, s), e)
<1> DEFINE t == Append(s, e)
<1>1. PICK F : Folds(F, "proof", base, s)
  BY FoldHasResults
<1>2. /\ Len(s) \in Nat /\ IsVector(t) /\ Len(t) = Len(s) + 1
      /\ \A k \in 1 .. Len(s) : t[k] = s[k]
      /\ t[Len(s) + 1] = e
  BY VectorAppend
<1> HIDE DEF t
<1> DEFINE G == [n \in Nat |-> IF n <= Len(s) THEN F[n] ELSE FoldHash(F[Len(s)], e)]
<1>3. G[0] = base
  BY <1>1, <1>2 DEF Folds
<1>4. ASSUME NEW n \in Nat, n < Len(t) PROVE G[n + 1] = FoldStep("proof", G[n], t[n + 1])
  <2>1. CASE n < Len(s)
    <3>1. n + 1 \in 1 .. Len(s) /\ n + 1 <= Len(s) /\ n <= Len(s)
      BY <1>2, <2>1
    <3>2. F[n + 1] = FoldStep("proof", F[n], s[n + 1])
      BY <1>1, <2>1 DEF Folds
    <3>3. t[n + 1] = s[n + 1] /\ G[n + 1] = F[n + 1] /\ G[n] = F[n]
      BY <1>2, <3>1
    <3> QED
      BY <3>2, <3>3
  <2>2. CASE n = Len(s)
    <3>1. ~(n + 1 <= Len(s)) /\ n <= Len(s) /\ n + 1 \in Nat
      BY <1>2, <2>2
    <3>2. G[n + 1] = FoldHash(F[Len(s)], e) /\ G[n] = F[Len(s)] /\ t[n + 1] = e
      BY <1>2, <2>2, <3>1
    <3> QED
      BY <3>2 DEF FoldStep
  <2>3. n < Len(s) \/ n = Len(s)
    BY <1>2, <1>4
  <2> HIDE DEF G
  <2> QED
    BY <2>1, <2>2, <2>3
<1>5. G[Len(t)] = FoldHash(F[Len(s)], e)
  BY <1>2
<1> HIDE DEF G
<1>6. Folds(G, "proof", base, t)
  BY <1>3, <1>4 DEF Folds
<1>7. FoldLeft(FoldHash, base, t) = G[Len(t)]
  BY <1>2, <1>6, HashFold, Zenon
<1>8. FoldLeft(FoldHash, base, s) = F[Len(s)]
  BY <1>1, HashFold, Zenon
<1> QED
  BY <1>5, <1>7, <1>8, Zenon DEF t
-----------------------------------------------------------------------------
(* find_path: the recursive function, one level of the tree per turn        *)

(* The paths from a level of len nodes, given those from the level above.   *)
PathsFrom(len, above) ==
  [start \in Nat |-> [node_index \in Nat |->
     IF len <= 1 THEN <<>>
     ELSE <<ProofEntry(len, start, node_index)>> \o above[start + len][node_index \div 2]]]

(* The recursive function inside FindPath. *)
PathRec ==
  CHOOSE path : path = [len \in Nat |->
    [start \in Nat |-> [node_index \in Nat |->
       IF len <= 1 THEN <<>>
       ELSE <<ProofEntry(len, start, node_index)>>
              \o path[NextLevelLen(len)][start + len][node_index \div 2]]]]

LEMMA FindPathIsRec ==
  ASSUME NEW index
  PROVE  FindPath(index) = PathRec[LeafCount][0][index]
BY DEF FindPath, PathRec

LEMMA PathsFromTop ==
  ASSUME NEW len \in Nat, len <= 1, NEW f, NEW g
  PROVE  PathsFrom(len, f) = PathsFrom(len, g)
BY DEF PathsFrom

(* A function that satisfies the recursive equation exists: there is one    *)
(* for the levels of up to n nodes, whatever n, and they agree.             *)
LEMMA PathRecDefined == \A len \in Nat : PathRec[len] = PathsFrom(len, PathRec[NextLevelLen(len)])
<1> DEFINE Upto(h, n) == \A len \in Nat : len <= n =>
                           h[len] = PathsFrom(len, h[NextLevelLen(len)])
           T == {n \in Nat : \E h : Upto(h, n)}
           Same(n) == \A h, g : Upto(h, n) /\ Upto(g, n) => h[n] = g[n]
           U == {n \in Nat : \A m \in 0 .. n : Same(m)}
<1>1. 0 \in T
  <2> DEFINE h0 == [len \in Nat |-> PathsFrom(len, 0)]
  <2>1. \A len \in Nat : len <= 0 => h0[len] = PathsFrom(len, h0[NextLevelLen(len)])
    <3>1. \A len \in Nat : h0[len] = PathsFrom(len, 0)
      OBVIOUS
    <3> HIDE DEF h0
    <3> QED
      BY <3>1, PathsFromTop
  <2> HIDE DEF h0
  <2> QED
    BY <2>1
<1>2. ASSUME NEW n \in Nat, n \in T PROVE n + 1 \in T
  <2>1. PICK h : Upto(h, n)
    BY <1>2
  <2> DEFINE h1 == [len \in Nat |-> IF len <= n THEN h[len]
                                    ELSE PathsFrom(len, h[NextLevelLen(len)])]
  <2>2. ASSUME NEW len \in Nat, len <= n + 1
        PROVE  h1[len] = PathsFrom(len, h1[NextLevelLen(len)])
    <3>1. h1[len] = PathsFrom(len, h[NextLevelLen(len)])
      BY <2>1
    <3>2. CASE len <= 1
      BY <3>1, <3>2, PathsFromTop
    <3>3. CASE len > 1
      <4>1. NextLevelLen(len) \in Nat /\ NextLevelLen(len) <= n
        BY <2>2, <3>3, NextLevelLenHalves
      <4>2. h1[NextLevelLen(len)] = h[NextLevelLen(len)]
        BY <4>1
      <4> QED
        BY <3>1, <4>2
    <3> QED
      BY <3>2, <3>3
  <2> HIDE DEF h1
  <2> QED
    BY <2>2
<1>3. Nat \subseteq T
  <2> HIDE DEF T
  <2> QED
    BY <1>1, <1>2, NatSetInduction
<1>4. ASSUME NEW n \in Nat, \A m \in Nat : m < n => Same(m)
      PROVE  Same(n)
  <2> SUFFICES ASSUME NEW h, NEW g, Upto(h, n), Upto(g, n) PROVE h[n] = g[n]
    OBVIOUS
  <2>1. h[n] = PathsFrom(n, h[NextLevelLen(n)]) /\ g[n] = PathsFrom(n, g[NextLevelLen(n)])
    OBVIOUS
  <2>2. CASE n <= 1
    <3> HIDE DEF Upto
    <3> QED
      BY <2>1, <2>2, PathsFromTop
  <2>3. CASE n > 1
    <3>1. NextLevelLen(n) \in Nat /\ NextLevelLen(n) < n
      BY <2>3, NextLevelLenHalves
    <3>2. Upto(h, NextLevelLen(n)) /\ Upto(g, NextLevelLen(n))
      BY <3>1
    <3> HIDE DEF Upto
    <3>3. h[NextLevelLen(n)] = g[NextLevelLen(n)]
      BY <1>4, <3>1, <3>2
    <3> QED
      BY <2>1, <3>3
  <2> QED
    BY <2>2, <2>3
<1>5. Nat \subseteq U
  <2> HIDE DEF Same
  <2>1. 0 \in U
    BY <1>4
  <2>2. ASSUME NEW n \in Nat, n \in U PROVE n + 1 \in U
    <3>1. \A m \in Nat : m < n + 1 => Same(m)
      BY <2>2
    <3>2. Same(n + 1)
      BY <1>4, <3>1
    <3> QED
      BY <3>1, <3>2
  <2> HIDE DEF U
  <2> QED
    BY <2>1, <2>2, NatSetInduction
<1>6. \A n \in Nat : Same(n)
  <2> HIDE DEF Same
  <2> QED
    BY <1>5
<1> DEFINE H(n) == CHOOSE h : Upto(h, n)
           f == [len \in Nat |-> H(len)[len]]
<1>7. \A n \in Nat : Upto(H(n), n)
  <2> HIDE DEF Upto
  <2> QED
    BY <1>3
<1>8. ASSUME NEW len \in Nat PROVE f[len] = PathsFrom(len, f[NextLevelLen(len)])
  <2>1. f[len] = PathsFrom(len, H(len)[NextLevelLen(len)])
    <3>1. Upto(H(len), len)
      BY <1>7
    <3> HIDE DEF H
    <3> QED
      BY <3>1
  <2>2. CASE len <= 1
    BY <2>1, <2>2, PathsFromTop
  <2>3. CASE len > 1
    <3> DEFINE m == NextLevelLen(len)
    <3>1. m \in Nat /\ m < len
      BY <2>3, NextLevelLenHalves
    <3> HIDE DEF m
    <3>2. Upto(H(len), m) /\ Upto(H(m), m)
      <4>1. Upto(H(len), len) /\ Upto(H(m), m)
        BY <1>7, <3>1
      <4> HIDE DEF H
      <4> QED
        BY <3>1, <4>1
    <3>3. H(len)[m] = H(m)[m]
      <4> HIDE DEF H, Upto
      <4> QED
        BY <1>6, <3>1, <3>2
    <3>4. f[m] = H(m)[m]
      BY <3>1
    <3> QED
      BY <2>1, <3>3, <3>4 DEF m
  <2> QED
    BY <2>2, <2>3
<1>9. f = [len \in Nat |-> PathsFrom(len, f[NextLevelLen(len)])]
  <2> HIDE DEF H
  <2>1. f = [len \in Nat |-> f[len]]
    OBVIOUS
  <2> HIDE DEF f
  <2> QED
    BY <1>8, <2>1
<1> HIDE DEF f
<1>10. PathRec = [len \in Nat |-> PathsFrom(len, PathRec[NextLevelLen(len)])]
  BY <1>9 DEF PathRec, PathsFrom
<1> QED
  BY <1>10

(* The path of a leaf without its first entry: the path of the parent.      *)
PathAbove(len, start, index) == PathRec[NextLevelLen(len)][start + len][index \div 2]

LEMMA PathLevel ==
  ASSUME NEW len \in Nat, NEW start \in Nat, NEW index \in Nat
  PROVE  PathRec[len][start][index]
           = IF len <= 1 THEN <<>>
             ELSE <<ProofEntry(len, start, index)>> \o PathAbove(len, start, index)
<1> DEFINE above == PathRec[NextLevelLen(len)]
           entry == ProofEntry(len, start, index)
<1>1. PathRec[len] = PathsFrom(len, above)
  BY PathRecDefined
<1> HIDE DEF above
<1>2. PathsFrom(len, above)[start][index] =
        IF len <= 1 THEN <<>> ELSE <<entry>> \o above[start + len][index \div 2]
  BY DEF PathsFrom
<1>3. above[start + len][index \div 2] = PathAbove(len, start, index)
  BY DEF PathAbove, above
<1> HIDE DEF entry
<1> QED
  BY <1>1, <1>2, <1>3, Zenon DEF entry

LEMMA PathTop ==
  ASSUME NEW len \in Nat, len <= 1, NEW start \in Nat, NEW index \in Nat
  PROVE  PathRec[len][start][index] = <<>>
BY PathLevel, Zenon

LEMMA PathStep ==
  ASSUME NEW len \in Nat, len > 1, NEW start \in Nat, NEW index \in Nat
  PROVE  PathRec[len][start][index]
           = <<ProofEntry(len, start, index)>> \o PathAbove(len, start, index)
<1>1. ~(len <= 1)
  OBVIOUS
<1> QED
  BY <1>1, PathLevel, Zenon

-----------------------------------------------------------------------------
(* What find_path reads on a level below the top: the parent and the        *)
(* sibling, on the side where it is.                                        *)
EntryIsParent(L, len, start, index) ==
  LET entry == ProofEntry(len, start, index)
  IN  /\ <<start + len, NextLevelLen(len)>> \in L
      /\ index \div 2 \in 0 .. NextLevelLen(len) - 1
      /\ Node(start + index) # NoHash
      /\ entry.target = Node(start + len + index \div 2)
      /\ \/ /\ entry.lsib = NoHash /\ entry.rsib # NoHash
            /\ entry.target = ParentHash(Node(start + index), entry.rsib)
         \/ /\ entry.rsib = NoHash /\ entry.lsib # NoHash
            /\ entry.target = ParentHash(entry.lsib, Node(start + index))

LEMMA EntryHasParent ==
  ASSUME BuildInv, NEW L, AreLevels(L), Built,
         NEW start \in Nat, NEW len \in Nat, <<start, len>> \in L, len > 1,
         NEW index \in 0 .. len - 1
  PROVE  EntryIsParent(L, len, start, index)
  <1>1. TreeInv
    BY DEF BuildInv
  <1>2. prev_level_len <= 1
    BY <1>1 DEF TreeInv, LevelsInPlace, Built
  <1>3. ParentsDone(start, len) /\ <<start + len, NextLevelLen(len)>> \in L
    BY <1>1, <1>2, LevelTypes DEF AreLevels
  <1>4. /\ NextLevelLen(len) \in Nat
        /\ 2 * NextLevelLen(len) \in {len, len + 1}
    BY NextLevelLenHalves
  <1> DEFINE i == index \div 2
             entry == ProofEntry(len, start, index)
  <1>5. /\ i \in Nat
        /\ \/ index = 2 * i /\ index % 2 = 0
           \/ index = 2 * i + 1 /\ index % 2 = 1
    OBVIOUS
  <1>6. entry.target = Node(start + len + i)
    BY DEF ProofEntry
  <1>7. index % 2 = 0 => /\ entry.lsib = NoHash
                         /\ entry.rsib = IF index + 1 < len THEN Node(start + index + 1)
                                         ELSE Node(start + index)
    BY DEF ProofEntry
  <1>8. index % 2 = 1 => entry.lsib = Node(start + index - 1) /\ entry.rsib = NoHash
    BY DEF ProofEntry
  <1> HIDE DEF i, entry
  <1>9. i < NextLevelLen(len)
    BY <1>4, <1>5
  <1>10. Node(start + len + i) = ParentHash(Node(start + 2 * i), RightOf(len, start, 2 * i))
    BY <1>3, <1>5, <1>9 DEF ParentsDone, ParentAt
  <1>11. \A k \in 0 .. len - 1 : Node(start + k) # NoHash
    <2> SUFFICES ASSUME NEW k \in 0 .. len - 1 PROVE Node(start + k) # NoHash
      OBVIOUS
    <2>1. start + len <= Len(nodes) /\ Len(nodes) \in Nat
      BY <1>1, <1>3, <1>4, LevelTypes DEF ParentsDone
    <2>2. start + k + 1 \in 1 .. Len(nodes)
      BY <2>1
    <2> QED
      BY <1>1, <2>2, HashIsSome DEF Node
  <1>12. Node(start + index) # NoHash
    BY <1>11
  <1>13. CASE index = 2 * i /\ index % 2 = 0
    <2>1. entry.rsib = RightOf(len, start, 2 * i)
      BY <1>7, <1>13 DEF RightOf
    <2>2. entry.rsib # NoHash
      <3>1. index + 1 < len => index + 1 \in 0 .. len - 1 /\ start + (index + 1) = start + index + 1
        OBVIOUS
      <3> QED
        BY <1>7, <1>11, <1>12, <1>13, <3>1
    <2> QED
      BY <1>3, <1>4, <1>5, <1>6, <1>7, <1>9, <1>10, <1>12, <1>13, <2>1, <2>2
      DEF EntryIsParent, i, entry
  <1>14. CASE index = 2 * i + 1 /\ index % 2 = 1
    <2>1. start + index - 1 = start + 2 * i /\ 2 * i \in 0 .. len - 1
      BY <1>5, <1>14
    <2>2. entry.lsib = Node(start + 2 * i) /\ entry.lsib # NoHash
      BY <1>8, <1>11, <1>14, <2>1
    <2>3. RightOf(len, start, 2 * i) = Node(start + index)
      <3>1. 2 * i + 1 < len /\ start + 2 * i + 1 = start + index
        BY <1>5, <1>14
      <3> QED
        BY <3>1 DEF RightOf
    <2> QED
      BY <1>3, <1>4, <1>5, <1>6, <1>8, <1>9, <1>10, <1>12, <1>14, <2>2, <2>3
      DEF EntryIsParent, i, entry
  <1> QED
    BY <1>5, <1>13, <1>14

-----------------------------------------------------------------------------
(* The proof and the path of a leaf *)

LEMMA PathIsVector ==
  ASSUME NEW len \in Nat, NEW start \in Nat, NEW index \in Nat
  PROVE  IsVector(PathRec[len][start][index])
<1> DEFINE Vectors(n) == \A s, i \in Nat : IsVector(PathRec[n][s][i])
           T == {n \in Nat : \A m \in 0 .. n : Vectors(m)}
<1>1. ASSUME NEW n \in Nat, \A m \in Nat : m < n => Vectors(m)
      PROVE  Vectors(n)
  <2> SUFFICES ASSUME NEW s \in Nat, NEW i \in Nat PROVE IsVector(PathRec[n][s][i])
    OBVIOUS
  <2>1. CASE n <= 1
    <3>1. PathRec[n][s][i] = <<>>
      BY <2>1, PathTop
    <3> QED
      BY <3>1, EmptyVector
  <2>2. CASE n > 1
    <3>1. NextLevelLen(n) \in Nat /\ NextLevelLen(n) < n
      BY <2>2, NextLevelLenHalves
    <3>2. s + n \in Nat /\ i \div 2 \in Nat
      OBVIOUS
    <3>3. IsVector(PathAbove(n, s, i))
      BY <1>1, <3>1, <3>2 DEF PathAbove
    <3>4. PathRec[n][s][i] = <<ProofEntry(n, s, i)>> \o PathAbove(n, s, i)
      BY <2>2, PathStep, Zenon
    <3> DEFINE above == PathAbove(n, s, i)
               entry == ProofEntry(n, s, i)
    <3>5. IsVector(above)
      BY <3>3
    <3> HIDE DEF above, entry
    <3>6. IsVector(<<entry>> \o above)
      BY <3>5, VectorCons, Zenon
    <3> QED
      BY <3>4, <3>6, Zenon DEF above, entry
  <2> QED
    BY <2>1, <2>2
<1> HIDE DEF Vectors
<1>2. 0 \in T
  BY <1>1
<1>3. ASSUME NEW n \in Nat, n \in T PROVE n + 1 \in T
  <2>1. \A m \in Nat : m < n + 1 => Vectors(m)
    BY <1>3
  <2>2. Vectors(n + 1)
    BY <1>1, <2>1
  <2> QED
    BY <2>1, <2>2
<1>4. Nat \subseteq T
  <2> HIDE DEF T
  <2> QED
    BY <1>2, <1>3, NatSetInduction
<1>5. Vectors(len)
  BY <1>4
<1> QED
  BY <1>5 DEF Vectors

(* get_proof keeps the sibling of each entry of the path. *)
SiblingIn(entry) == IF entry.lsib # NoHash THEN entry.lsib ELSE entry.rsib

ProofOf(path) == [k \in DOMAIN path |-> SiblingIn(path[k])]

LEMMA GetProofIs ==
  ASSUME NEW index
  PROVE  GetProof(index) = ProofOf(PathRec[LeafCount][0][index])
BY FindPathIsRec DEF GetProof, ProofOf, SiblingIn

LEMMA ProofOfVector ==
  ASSUME NEW path, IsVector(path)
  PROVE  /\ IsVector(ProofOf(path))
         /\ Len(path) \in Nat
         /\ Len(ProofOf(path)) = Len(path)
         /\ \A k \in 1 .. Len(path) : ProofOf(path)[k] = SiblingIn(path[k])
<1>1. DOMAIN path = 1 .. Len(path) /\ Len(path) \in Nat
  BY DEF IsVector
<1>2. ProofOf(path) = [k \in 1 .. Len(path) |-> SiblingIn(path[k])]
  BY <1>1 DEF ProofOf
<1>3. \A k \in 1 .. Len(path) : ProofOf(path)[k] = SiblingIn(path[k])
  BY <1>2
<1>4. ProofOf(path) = [k \in 1 .. Len(path) |-> ProofOf(path)[k]]
  BY <1>2, <1>3
<1> QED
  BY <1>1, <1>3, <1>4, VectorMap

LEMMA VectorsEqual ==
  ASSUME NEW s, IsVector(s), NEW t, IsVector(t), Len(s) = Len(t),
         \A k \in 1 .. Len(s) : s[k] = t[k]
  PROVE  s = t
<1>1. PICK S : s \in Seq(S)
  BY DEF IsVector
<1>2. PICK T : t \in Seq(T)
  BY DEF IsVector
<1> DEFINE U == S \cup T
<1>3. s \in Seq(U) /\ t \in Seq(U)
  BY <1>1, <1>2, SeqMonotonic
<1> HIDE DEF U
<1> QED
  BY <1>3, SeqEqual

LEMMA ProofOfCons ==
  ASSUME NEW path, IsVector(path), NEW entry
  PROVE  ProofOf(<<entry>> \o path) = <<SiblingIn(entry)>> \o ProofOf(path)
<1> DEFINE s == ProofOf(<<entry>> \o path)
           t == <<SiblingIn(entry)>> \o ProofOf(path)
<1>1. /\ IsVector(<<entry>> \o path) /\ Len(path) \in Nat
      /\ Len(<<entry>> \o path) = Len(path) + 1
      /\ (<<entry>> \o path)[1] = entry
      /\ \A k \in 1 .. Len(path) : (<<entry>> \o path)[k + 1] = path[k]
  BY VectorCons
<1>2. /\ IsVector(s) /\ Len(s) = Len(path) + 1
      /\ \A k \in 1 .. Len(path) + 1 : s[k] = SiblingIn((<<entry>> \o path)[k])
  BY <1>1, ProofOfVector
<1>3. /\ IsVector(ProofOf(path)) /\ Len(ProofOf(path)) = Len(path)
      /\ \A k \in 1 .. Len(path) : ProofOf(path)[k] = SiblingIn(path[k])
  BY ProofOfVector
<1>4. /\ IsVector(t) /\ Len(t) = Len(path) + 1
      /\ t[1] = SiblingIn(entry)
      /\ \A k \in 1 .. Len(path) : t[k + 1] = ProofOf(path)[k]
  <2> DEFINE q == ProofOf(path)
             x == SiblingIn(entry)
  <2>1. IsVector(q) /\ Len(q) = Len(path)
    BY <1>3
  <2> HIDE DEF q, x
  <2>2. IsVector(<<x>> \o q)
    BY <2>1, VectorCons, Zenon
  <2>3. Len(<<x>> \o q) = Len(q) + 1
    BY <2>1, VectorCons, Zenon
  <2>4. (<<x>> \o q)[1] = x
    BY <2>1, VectorCons, Zenon
  <2>5. ASSUME NEW k \in 1 .. Len(q) PROVE (<<x>> \o q)[k + 1] = q[k]
    <3>1. \A e, v : IsVector(v) =>
            \A j \in 1 .. Len(v) : (<<e>> \o v)[j + 1] = v[j]
      BY VectorCons
    <3> QED
      BY <2>1, <3>1
  <2> QED
    BY <2>1, <2>2, <2>3, <2>4, <2>5, Zenon DEF q, x
<1>5. ASSUME NEW k \in 1 .. Len(path) + 1 PROVE s[k] = t[k]
  <2>1. CASE k = 1
    <3>1. s[1] = SiblingIn(entry)
      BY <1>1, <1>2
    <3> QED
      BY <1>4, <2>1, <3>1
  <2>2. CASE k # 1
    <3>1. PICK j \in 1 .. Len(path) : k = j + 1
      <4>1. k - 1 \in 1 .. Len(path) /\ k = (k - 1) + 1
        BY <1>1, <2>2
      <4> QED
        BY <4>1
    <3>2. s[k] = SiblingIn(path[j])
      BY <1>1, <1>2, <3>1
    <3>3. t[k] = SiblingIn(path[j])
      BY <1>3, <1>4, <3>1
    <3> QED
      BY <3>2, <3>3
  <2> QED
    BY <2>1, <2>2
<1> HIDE DEF s, t
<1>6. s = t
  BY <1>2, <1>4, <1>5, VectorsEqual
<1> QED
  BY <1>6 DEF s, t

(* The first entry of a path and the path that is left.                     *)
LEMMA PathSplits ==
  ASSUME NEW len \in Nat, len > 1, NEW start \in Nat, NEW index \in Nat
  PROVE  /\ IsVector(PathAbove(len, start, index))
         /\ PathRec[len][start][index]
              = <<ProofEntry(len, start, index)>> \o PathAbove(len, start, index)
         /\ ProofOf(PathRec[len][start][index])
              = <<SiblingIn(ProofEntry(len, start, index))>>
                  \o ProofOf(PathAbove(len, start, index))
<1>1. NextLevelLen(len) \in Nat /\ start + len \in Nat /\ index \div 2 \in Nat
  BY NextLevelLenHalves
<1>2. IsVector(PathAbove(len, start, index))
  BY <1>1, PathIsVector DEF PathAbove
<1>3. PathRec[len][start][index]
        = <<ProofEntry(len, start, index)>> \o PathAbove(len, start, index)
  BY PathStep, Zenon
<1> QED
  BY <1>2, <1>3, ProofOfCons, Zenon

LEMMA PathEnds ==
  ASSUME NEW len \in Nat, len <= 1, NEW start \in Nat, NEW index \in Nat
  PROVE  PathRec[len][start][index] = <<>> /\ ProofOf(PathRec[len][start][index]) = <<>>
<1>1. PathRec[len][start][index] = <<>>
  BY PathTop
<1>2. IsVector(ProofOf(<<>>)) /\ Len(ProofOf(<<>>)) = 0
  BY EmptyVector, ProofOfVector
<1>3. ProofOf(<<>>) = <<>>
  BY <1>2, EmptyVector, VectorsEqual
<1> QED
  BY <1>1, <1>3

(* Both checks of a claim, verify on its proof and Proof::verify on its     *)
(* path, go from a node of a level to its parent, and so to the root.       *)
FromNode(len, start, index) ==
  IF sorted_hashes
  THEN FoldLeft(FoldHash, Node(start + index), ProofOf(PathRec[len][start][index]))
  ELSE FoldLeft(FollowEntry, Node(start + index), PathRec[len][start][index])

LEMMA OneLevelUp ==
  ASSUME BuildInv, NEW L, AreLevels(L), Built,
         NEW start \in Nat, NEW len \in Nat, <<start, len>> \in L, len > 1,
         NEW index \in 0 .. len - 1
  PROVE  FromNode(len, start, index)
           = FromNode(NextLevelLen(len), start + len, index \div 2)
<1> DEFINE entry == ProofEntry(len, start, index)
           rest  == PathAbove(len, start, index)
           node  == Node(start + index)
           above == Node((start + len) + index \div 2)
<1>1. index \in Nat
  OBVIOUS
<1>2. /\ IsVector(rest)
      /\ PathRec[len][start][index] = <<entry>> \o rest
      /\ ProofOf(PathRec[len][start][index]) = <<SiblingIn(entry)>> \o ProofOf(rest)
  BY <1>1, PathSplits, Zenon
<1>3. IsVector(ProofOf(rest))
  BY <1>2, ProofOfVector, Zenon
<1>4. EntryIsParent(L, len, start, index)
  BY EntryHasParent
<1>5. /\ node # NoHash
      /\ entry.target = above
      /\ \/ /\ entry.lsib = NoHash /\ entry.rsib # NoHash
            /\ above = ParentHash(node, entry.rsib)
         \/ /\ entry.rsib = NoHash /\ entry.lsib # NoHash
            /\ above = ParentHash(entry.lsib, node)
  BY <1>4, Zenon DEF EntryIsParent
<1>6. rest = PathRec[NextLevelLen(len)][start + len][index \div 2]
  BY DEF PathAbove
<1> HIDE DEF entry, rest, node, above
<1>7. CASE sorted_hashes
  <2>1. FoldHash(node, SiblingIn(entry)) = above
    BY <1>5, <1>7 DEF FoldHash, SiblingIn, ParentHash, SortedHash
  <2>2. FoldLeft(FoldHash, node, <<SiblingIn(entry)>> \o ProofOf(rest))
          = FoldLeft(FoldHash, above, ProofOf(rest))
    BY <1>3, <2>1, HashFoldCons
  <2> QED
    BY <1>2, <1>6, <1>7, <2>2, Zenon DEF FromNode, node, above
<1>8. CASE ~sorted_hashes
  <2>1. FollowEntry(node, entry) = above
    BY <1>5, <1>8 DEF FollowEntry, ParentHash
  <2>2. FoldLeft(FollowEntry, node, <<entry>> \o rest) = FoldLeft(FollowEntry, above, rest)
    BY <1>2, <2>1, EntryFoldCons
  <2> QED
    BY <1>2, <1>6, <1>8, <2>2, Zenon DEF FromNode, node, above
<1> QED
  BY <1>7, <1>8

LEMMA EveryNodeLeadsToRoot ==
  ASSUME BuildInv, NEW L, AreLevels(L), Built, LeafCount > 0,
         NEW len \in Nat, NEW start \in Nat, <<start, len>> \in L, NEW index \in 0 .. len - 1
  PROVE  FromNode(len, start, index) = Root
<1> DEFINE Leads(n) == \A s \in Nat, i \in 0 .. n - 1 :
                         <<s, n>> \in L => FromNode(n, s, i) = Root
           T == {n \in Nat : \A m \in 0 .. n : Leads(m)}
<1>1. ASSUME NEW n \in Nat, \A m \in Nat : m < n => Leads(m)
      PROVE  Leads(n)
  <2> SUFFICES ASSUME NEW s \in Nat, NEW i \in 0 .. n - 1, <<s, n>> \in L
               PROVE  FromNode(n, s, i) = Root
    OBVIOUS
  <2>1. CASE n <= 1
    <3>1. n = 1 /\ i = 0 /\ s + i = s
      BY <2>1
    <3>2. Node(s) = Root
      BY <3>1, TopIsRoot
    <3>3. PathRec[n][s][i] = <<>> /\ ProofOf(PathRec[n][s][i]) = <<>>
      BY <2>1, <3>1, PathEnds
    <3> QED
      BY <3>1, <3>2, <3>3, EmptyFolds DEF FromNode
  <2>2. CASE n > 1
    <3>1. FromNode(n, s, i) = FromNode(NextLevelLen(n), s + n, i \div 2)
      BY <2>2, OneLevelUp
    <3>2. /\ <<s + n, NextLevelLen(n)>> \in L
          /\ i \div 2 \in 0 .. NextLevelLen(n) - 1
      BY <2>2, EntryHasParent DEF EntryIsParent
    <3>3. NextLevelLen(n) \in Nat /\ NextLevelLen(n) < n /\ s + n \in Nat
      BY <2>2, NextLevelLenHalves
    <3>4. FromNode(NextLevelLen(n), s + n, i \div 2) = Root
      BY <1>1, <3>2, <3>3
    <3> QED
      BY <3>1, <3>4
  <2> QED
    BY <2>1, <2>2
<1> HIDE DEF Leads
<1>2. 0 \in T
  BY <1>1
<1>3. ASSUME NEW n \in Nat, n \in T PROVE n + 1 \in T
  <2>1. \A m \in Nat : m < n + 1 => Leads(m)
    BY <1>3
  <2>2. Leads(n + 1)
    BY <1>1, <2>1
  <2> QED
    BY <2>1, <2>2
<1>4. Nat \subseteq T
  <2> HIDE DEF T
  <2> QED
    BY <1>2, <1>3, NatSetInduction
<1>5. Leads(len)
  BY <1>4
<1> QED
  BY <1>5 DEF Leads

LEMMA LeafLeadsToRoot ==
  ASSUME LevelsInv, Built, NEW index \in 0 .. LeafCount - 1
  PROVE  /\ LeafCount \in Nat /\ LeafCount > 0
         /\ Node(0 + index) = LeafHash(items[index + 1])
         /\ FromNode(LeafCount, 0, index) = Root
<1>1. BuildInv
  BY DEF LevelsInv
<1>2. PICK L : AreLevels(L)
  BY DEF LevelsInv
<1>3. LeafCount \in Nat /\ LeafCount > 0
  BY <1>1, LevelTypes DEF BuildInv
<1>4. <<0, LeafCount>> \in L
  BY <1>2 DEF AreLevels
<1>5. FromNode(LeafCount, 0, index) = Root
  BY <1>1, <1>2, <1>3, <1>4, EveryNodeLeadsToRoot
<1>6. index + 1 \in 1 .. LeafCount /\ 0 + index + 1 = index + 1
  BY <1>3
<1>7. Node(0 + index) = LeafHash(items[index + 1])
  BY <1>1, <1>6 DEF BuildInv, LeavesInPlace, Node
<1> QED
  BY <1>3, <1>5, <1>7

(* Every leaf of every finished tree verifies on chain with the proof that  *)
(* find_path and get_proof make for it, for any width of the tree.          *)
THEOREM EveryLeafHasProof == Spec => []ProofsComplete
<1>1. LevelsInv => ProofsComplete
  <2> SUFFICES ASSUME LevelsInv, HasRoot, sorted_hashes, NEW index \in 0 .. LeafCount - 1
               PROVE  Verifies(LeafHash(items[index + 1]), GetProof(index))
    BY DEF ProofsComplete
  <2>1. /\ Node(0 + index) = LeafHash(items[index + 1])
        /\ FromNode(LeafCount, 0, index) = Root
    BY LeafLeadsToRoot DEF HasRoot
  <2>2. FoldLeft(FoldHash, LeafHash(items[index + 1]), ProofOf(PathRec[LeafCount][0][index]))
          = Root
    BY <2>1 DEF FromNode
  <2> QED
    BY <2>2, GetProofIs DEF Verifies
<1> QED
  BY <1>1, LevelsInvHolds, PTL

(* Nothing is hashed from a missing hash. *)
LEMMA NothingStaysNothing ==
  ASSUME NEW path, IsVector(path)
  PROVE  FoldLeft(FollowEntry, NoHash, path) = NoHash
<1>1. \A entry : FollowEntry(NoHash, entry) = NoHash
  BY DEF FollowEntry
<1> DEFINE F == [n \in Nat |-> NoHash]
<1>2. Len(path) \in Nat
  BY DEF IsVector
<1>3. F[Len(path)] = NoHash
  BY <1>2
<1>4. Folds(F, "path", NoHash, path)
  BY <1>1 DEF Folds, FoldStep
<1> HIDE DEF F
<1> QED
  BY <1>3, <1>4, EntryFold

(* On the leaves, an entry is followed from the leaf it was found for only. *)
LEMMA OtherLeafStops ==
  ASSUME BuildInv, NEW L, AreLevels(L), Built, ~sorted_hashes, LeafCount > 1,
         NEW index \in 0 .. LeafCount - 1, NEW item \in Items, item # items[index + 1]
  PROVE  FollowEntry(LeafHash(item), ProofEntry(LeafCount, 0, index)) = NoHash
<1> DEFINE entry == ProofEntry(LeafCount, 0, index)
           node  == Node(0 + index)
           hash  == LeafHash(item)
<1>1. TreeInv /\ LeafCount \in Nat
  BY LevelTypes DEF BuildInv
<1>2. index + 1 \in 1 .. LeafCount /\ 0 + index + 1 = index + 1
  BY <1>1
<1>3. node = LeafHash(items[index + 1])
  BY <1>2 DEF BuildInv, LeavesInPlace, Node
<1>4. items[index + 1] \in Items
  BY <1>1, <1>2 DEF TreeInv, LeafCount
<1>5. hash # node
  BY <1>3, <1>4, LeafHashInjective
<1>6. EntryIsParent(L, LeafCount, 0, index)
  <2>1. <<0, LeafCount>> \in L
    BY DEF AreLevels
  <2> QED
    BY <1>1, <2>1, EntryHasParent
<1>7. \/ /\ entry.lsib = NoHash /\ entry.rsib # NoHash
         /\ entry.target = ParentHash(node, entry.rsib)
      \/ /\ entry.rsib = NoHash /\ entry.lsib # NoHash
         /\ entry.target = ParentHash(entry.lsib, node)
  BY <1>6, Zenon DEF EntryIsParent
<1> HIDE DEF entry, node, hash
<1>8. \A l, r : ParentHash(l, r) = OrderedHash(l, r)
  BY DEF ParentHash
<1>9. CASE entry.lsib = NoHash
  <2>1. OrderedHash(hash, entry.rsib) # OrderedHash(node, entry.rsib)
    BY <1>5 DEF OrderedHash
  <2> QED
    BY <1>7, <1>8, <1>9, <2>1 DEF FollowEntry, hash, entry
<1>10. CASE entry.lsib # NoHash
  <2>1. OrderedHash(entry.lsib, hash) # OrderedHash(entry.lsib, node)
    BY <1>5 DEF OrderedHash
  <2> QED
    BY <1>7, <1>8, <1>10, <2>1 DEF FollowEntry, hash, entry
<1> QED
  BY <1>9, <1>10

(* In a tree of ordered hashes Proof::verify accepts a path for the leaf it *)
(* was found for and no other entry, whatever the width of the tree.        *)
THEOREM PathsAreExact == Spec => []PathsExact
<1>1. LevelsInv => PathsExact
  <2> SUFFICES ASSUME LevelsInv, Built, ~sorted_hashes, LeafCount > 1,
                      NEW index \in 0 .. LeafCount - 1, NEW item \in Items
               PROVE  PathVerifies(LeafHash(item), FindPath(index))
                        <=> item = items[index + 1]
    BY DEF PathsExact
  <2>1. /\ LeafCount \in Nat /\ LeafCount > 0
        /\ Node(0 + index) = LeafHash(items[index + 1])
        /\ FromNode(LeafCount, 0, index) = Root
    BY LeafLeadsToRoot
  <2>2. FindPath(index) = PathRec[LeafCount][0][index]
    BY FindPathIsRec
  <2>3. CASE item = items[index + 1]
    <3>1. FoldLeft(FollowEntry, LeafHash(item), FindPath(index)) = Root
      BY <2>1, <2>2, <2>3 DEF FromNode
    <3>2. Root # NoHash
      <4>1. TreeInv /\ Len(nodes) \in Nat /\ LeafCount <= Len(nodes)
        BY LevelTypes DEF LevelsInv, BuildInv, LeavesInPlace
      <4>2. Len(nodes) \in 1 .. Len(nodes)
        BY <2>1, <4>1
      <4> QED
        BY <4>1, <4>2, HashIsSome DEF Root
    <3> QED
      BY <2>3, <3>1, <3>2 DEF PathVerifies
  <2>4. CASE item # items[index + 1]
    <3> DEFINE entry == ProofEntry(LeafCount, 0, index)
               rest  == PathAbove(LeafCount, 0, index)
    <3>1. IsVector(rest) /\ PathRec[LeafCount][0][index] = <<entry>> \o rest
      <4>1. index \in Nat /\ 0 \in Nat
        BY <2>1
      <4> QED
        BY <2>1, <4>1, PathSplits, Zenon
    <3>2. FollowEntry(LeafHash(item), entry) = NoHash
      <4>1. PICK L : AreLevels(L)
        BY DEF LevelsInv
      <4> QED
        BY <2>4, <4>1, OtherLeafStops DEF LevelsInv
    <3> HIDE DEF entry, rest
    <3>3. FoldLeft(FollowEntry, LeafHash(item), <<entry>> \o rest)
            = FoldLeft(FollowEntry, NoHash, rest)
      BY <3>1, <3>2, EntryFoldCons
    <3>4. FoldLeft(FollowEntry, NoHash, rest) = NoHash
      BY <3>1, NothingStaysNothing
    <3> QED
      BY <2>2, <2>4, <3>1, <3>3, <3>4, Zenon DEF PathVerifies
  <2> QED
    BY <2>3, <2>4
<1> QED
  BY <1>1, LevelsInvHolds, PTL

-----------------------------------------------------------------------------
(* The check of a proof *)

(* What verify computes from an entry that is not in the tree is no hash of *)
(* the tree: neither the leaf, nor after any element of any proof.          *)
StaysOutside ==
  candidate # NoItem =>
    /\ candidate \in Items
    /\ sorted_hashes /\ HasRoot
    /\ candidate \notin Range(items) => \A k \in 1 .. Len(nodes) : nodes[k] # computed_hash

VerifyInv == TreeInv /\ StaysOutside

LEMMA RangeOfItems ==
  ASSUME items \in Seq(Items), NEW j \in 1 .. LeafCount
  PROVE  items[j] \in Range(items) /\ items[j] \in Items
  BY DEF Range, LeafCount

LEMMA StartVerifyOutside ==
  ASSUME VerifyInv, NEW item \in Items, StartVerify(item)
  PROVE  StaysOutside'
  <1>1. item \notin Range(items) => \A k \in 1 .. Len(nodes) : nodes[k] # LeafHash(item)
    <2> SUFFICES ASSUME item \notin Range(items), NEW k \in 1 .. Len(nodes),
                        nodes[k] = LeafHash(item)
                 PROVE  FALSE
      OBVIOUS
    <2>1. CASE \E j \in 1 .. LeafCount : nodes[k] = LeafHash(items[j])
      BY <2>1, RangeOfItems, LeafHashInjective DEF VerifyInv, TreeInv
    <2>2. CASE \E l, r \in 1 .. Len(nodes) : nodes[k] = SortedHash(nodes[l], nodes[r])
      BY <2>2, NoLeafIsParent
    <2> QED
      BY <2>1, <2>2 DEF VerifyInv, TreeInv, LeafOrParent, StartVerify, ParentHash
  <1> QED
    BY <1>1 DEF StartVerify, StaysOutside, HasRoot, Built, tree_vars

LEMMA FoldOutside ==
  ASSUME VerifyInv, NEW p, FoldProofElement(p)
  PROVE  StaysOutside'
  <1>1. candidate \notin Range(items)
          => \A k \in 1 .. Len(nodes) : nodes[k] # SortedHash(computed_hash, p)
    <2> SUFFICES ASSUME candidate \notin Range(items), NEW k \in 1 .. Len(nodes),
                        nodes[k] = SortedHash(computed_hash, p)
                 PROVE  FALSE
      OBVIOUS
    <2>1. CASE \E j \in 1 .. LeafCount : nodes[k] = LeafHash(items[j])
      BY <2>1, NoLeafIsParent
    <2>2. CASE \E l, r \in 1 .. Len(nodes) : nodes[k] = SortedHash(nodes[l], nodes[r])
      <3>1. PICK l \in 1 .. Len(nodes), r \in 1 .. Len(nodes) :
              nodes[k] = SortedHash(nodes[l], nodes[r])
        BY <2>2
      <3>2. SortedHash(computed_hash, p) = SortedHash(nodes[l], nodes[r])
        BY <3>1
      <3>3. computed_hash \in {nodes[l], nodes[r]}
        BY <3>2, SortedHashInjective
      <3> QED
        BY <3>1, <3>3 DEF VerifyInv, StaysOutside, FoldProofElement
    <2> QED
      BY <2>1, <2>2
      DEF VerifyInv, TreeInv, LeafOrParent, StaysOutside, FoldProofElement, ParentHash
  <1> QED
    BY <1>1 DEF VerifyInv, FoldProofElement, FoldHash, StaysOutside, HasRoot, Built, tree_vars

(* While a claim is checked the tree is finished, and no step changes it.   *)
LEMMA BuildOutside ==
  ASSUME VerifyInv, PushParent \/ NextLevel
  PROVE  StaysOutside'
  <1>1. Len(nodes) \in Nat
    BY VectorAppend DEF VerifyInv, TreeInv
  <1>2. candidate' = candidate /\ level_len # 0
    BY <1>1 DEF PushParent, NextLevel, VerifyInv, TreeInv, LevelsInPlace, Pushed, verify_vars
  <1> QED
    BY <1>2 DEF VerifyInv, StaysOutside, HasRoot, Built

LEMMA NextVerify == VerifyInv /\ [Next]_vars => VerifyInv'
  <1> SUFFICES ASSUME VerifyInv, [Next]_vars PROVE VerifyInv'
    OBVIOUS
  <1>1. TreeInv'
    BY NextTree DEF VerifyInv
  <1>2. StaysOutside'
    <2>1. CASE PushParent \/ NextLevel
      BY <2>1, BuildOutside
    <2>2. CASE \E item \in Items : StartVerify(item)
      BY <2>2, StartVerifyOutside
    <2>3. CASE \E p \in Range(nodes) \cup ForeignHashes : FoldProofElement(p)
      BY <2>3, FoldOutside
    <2>4. CASE UNCHANGED vars
      BY <2>4 DEF VerifyInv, StaysOutside, HasRoot, Built, vars, tree_vars, verify_vars
    <2> QED
      BY <2>1, <2>2, <2>3, <2>4 DEF Next
  <1> QED
    BY <1>1, <1>2 DEF VerifyInv

(* verify accepts only entries the tree was built from, amounts included,   *)
(* for any tree, any elements of the proof and any length of it.            *)
THEOREM VerifiedIsInTree == Spec => []ProofsSound
  <1>1. Init => VerifyInv
    BY InitTree DEF VerifyInv, Init, StaysOutside
  <1>2. VerifyInv => ProofsSound
    <2> SUFFICES ASSUME VerifyInv, Verified, candidate \notin Range(items) PROVE FALSE
      BY DEF ProofsSound
    <2>1. IsVector(nodes) /\ nodes # <<>>
      BY DEF VerifyInv, TreeInv, StaysOutside, Verified, HasRoot
    <2>2. PICK T : nodes \in Seq(T)
      BY <2>1 DEF IsVector
    <2>3. Len(nodes) \in 1 .. Len(nodes)
      BY <2>1, <2>2
    <2> QED
      BY <2>3 DEF VerifyInv, StaysOutside, Verified, Root
  <1> QED
    BY <1>1, <1>2, NextVerify, PTL DEF Spec
=============================================================================
